-------------------------- MODULE CollectorsProofs --------------------------
(***************************************************************************)
(* The collectors, for every inventory, cache, log and catalog and every   *)
(* length of a behaviour: the four modules that MCCollectors puts in one   *)
(* run.                                                                    *)
(*                                                                         *)
(* Inventories and details (DetailCache).  The rows of an enumeration      *)
(* under which ISE does not change are rows ISE had when it began; as many *)
(* different rows as ISE had are all of them.  Where no total is declared, *)
(* right replies are the listing page by page.  A session is published     *)
(* with the detail stored for it: the versions of ISE grow, so a detail is *)
(* never older than the list it was asked for.                             *)
(*                                                                         *)
(* Marks (HighWater).  A lane that is between its BEGIN IMMEDIATE and its  *)
(* COMMIT owns the write transaction, so what it read at the start is      *)
(* still what is stored when it writes.                                    *)
(*                                                                         *)
(* Inspection (SchemaContracts).  Dataset by dataset, what the inspection  *)
(* requires of a view is what the statements always name of it.            *)
(*                                                                         *)
(* Reports (ReportingViews).  Every thing has a last record, later than    *)
(* all the others; once it has arrived it is the one latest row of the     *)
(* thing, so latest rows and things are as many.                           *)
(***************************************************************************)
EXTENDS MCCollectors, FiniteSetTheorems, SequenceTheorems, WellFoundedInduction, TLAPS

-----------------------------------------------------------------------------
(* Inventories and details: the inductive invariant *)

Entries == [ver : Nat, sig : Nat, age : Nat, seen : Nat, there : BOOLEAN]
ListRows == [id : Objects, ver : Nat]
Lists == [st : {"off", "paging", "ok", "failed"}, rows : Seq(ListRows), total : Nat,
          next : Nat, pages : Nat, visited : SUBSET Nat]

ListTypes ==
  /\ ise \in [Objects -> Nat] /\ changes \in Nat
  /\ list \in Lists /\ opened \in SUBSET Objects
  /\ moved \in BOOLEAN /\ lied \in BOOLEAN

CacheTypes ==
  /\ kind \in Kinds /\ budget \in Nat /\ embeds \in BOOLEAN
  /\ pc \in {"idle", "list", "ask", "list1", "plan", "fetch", "publish"}
  /\ DOMAIN listed \in SUBSET Objects /\ listed \in [DOMAIN listed -> Nat]
  /\ row \in [Objects -> Entries] /\ tx \in [Objects -> Entries]
  /\ plan \in Seq(DOMAIN listed) /\ (pc # "fetch" => plan = <<>>)

\* Which collector takes which steps.
Stages ==
  /\ pc # "list" => list = NoList
  /\ pc = "list" => kind # "session"
  /\ kind = "session" => ~embeds

\* The rows read so far, while ISE has not changed, are rows it had.
RowsOpened ==
  list.st \in {"paging", "ok"} /\ ~moved =>
    /\ list.total = Cardinality(opened)
    /\ \A i \in 1..Len(list.rows) : list.rows[i].id \in opened
    /\ list.st = "paging" => opened = Present

\* An inventory with a total has as many rows; one without wrong replies is
\* the listing of ISE up to the page it has reached.
RowsCounted == list.st = "ok" /\ kind # "cert" => Len(list.rows) = list.total

FirstPages ==
  /\ list.pages # 0
  /\ Len(list.rows) = Least(list.pages * PageSize, Len(Listing))
  /\ \A i \in 1..Len(list.rows) : list.rows[i] = Listing[i]
  /\ list.next = IF Len(Listing) > list.pages * PageSize THEN list.pages + 1 ELSE 0

RowsInTurn ==
  /\ list.st = "paging" /\ ~moved /\ ~lied => FirstPages
  /\ list.st = "ok" /\ ~moved /\ ~lied =>
       \A o \in opened : \E i \in 1..Len(list.rows) : list.rows[i].id = o

EnumInv == ListTypes /\ RowsOpened /\ RowsCounted /\ RowsInTurn

\* Versions grow, so a detail is never older than the list it is asked for.
Growing ==
  /\ \A o \in Objects : ise[o] <= changes + 1
  /\ kind = "session" => \A o \in DOMAIN listed :
       listed[o] <= changes + 1 /\ (ise[o] = 0 \/ listed[o] <= ise[o])
NotOlder(rows) == \A o \in Objects : rows[o].sig <= rows[o].ver
SessionRows == kind = "session" => NotOlder(row) /\ NotOlder(tx)

SessionInv == Growing /\ SessionRows /\ NoOlderSession

CacheInv == CacheTypes /\ Stages /\ ListWhole /\ SessionInv

DetailInv == EnumInv /\ CacheInv

-----------------------------------------------------------------------------
(* Sequences in an order *)

StrictOrder(S, R) ==
  /\ \A a \in S : <<a, a>> \notin R
  /\ \A a, b, c \in S : <<a, b>> \in R /\ <<b, c>> \in R => <<a, c>> \in R
  /\ \A a, b \in S : a = b \/ <<a, b>> \in R \/ <<b, a>> \in R

\* How many elements precede each one.
Ranks(S, R) == [o \in S |-> Cardinality({p \in S : <<p, o>> \in R})]

\* The elements that precede one are more for a later one.
LEMMA RanksApart ==
  ASSUME NEW S, IsFiniteSet(S), NEW R, StrictOrder(S, R),
         NEW o \in S, NEW q \in S, <<o, q>> \in R
  PROVE  Ranks(S, R)[o] < Ranks(S, R)[q]
<1> DEFINE A == {p \in S : <<p, o>> \in R}
           B == {p \in S : <<p, q>> \in R}
<1>1. A \subseteq B /\ o \in B /\ o \notin A
  BY DEF StrictOrder
<1>2. IsFiniteSet(B)
  BY FS_Subset
<1>3. IsFiniteSet(A) /\ Cardinality(A) <= Cardinality(B)
  /\ (Cardinality(B) = Cardinality(A) => B = A)
  BY <1>1, <1>2, FS_Subset
<1>4. Cardinality(A) \in Nat /\ Cardinality(B) \in Nat
  BY <1>2, <1>3, FS_CardinalityType
<1>5. Cardinality(A) < Cardinality(B)
  BY <1>1, <1>3, <1>4
<1> QED  BY <1>5 DEF Ranks

\* The first n numbers are n.
LEMMA FromOne ==
  ASSUME NEW n \in Nat
  PROVE  IsFiniteSet(1..n) /\ Cardinality(1..n) = n
<1>1. n \in Int /\ 1 \in Int
  OBVIOUS
<1>2. IsFiniteSet(1..n) /\ Cardinality(1..n) = IF 1 > n THEN 0 ELSE n - 1 + 1
  BY Zenon, <1>1, FS_Interval
<1> QED  BY <1>2

\* Every rank is taken, by one element.
LEMMA RanksBijective ==
  ASSUME NEW S, IsFiniteSet(S), NEW R, StrictOrder(S, R)
  PROVE  /\ Cardinality(S) \in Nat
         /\ Ranks(S, R) \in [S -> 0..(Cardinality(S) - 1)]
         /\ \A o, q \in S : Ranks(S, R)[o] = Ranks(S, R)[q] => o = q
         /\ \A i \in 0..(Cardinality(S) - 1) : \E o \in S : Ranks(S, R)[o] = i
<1> DEFINE T == 0..(Cardinality(S) - 1)
           f == Ranks(S, R)
<1>1. Cardinality(S) \in Nat
  BY FS_CardinalityType
<1>2. ASSUME NEW o \in S PROVE f[o] \in T
  <2> DEFINE A == {p \in S : <<p, o>> \in R}
  <2>1. o \notin A /\ A \in SUBSET S
    BY DEF StrictOrder
  <2>2. IsFiniteSet(A) /\ Cardinality(A) <= Cardinality(S) /\ Cardinality(S) # Cardinality(A)
    BY <2>1, FS_Subset
  <2>3. Cardinality(A) \in Nat
    BY <2>2, FS_CardinalityType
  <2>4. Cardinality(A) \in T
    BY <1>1, <2>2, <2>3
  <2> QED  BY <2>4 DEF Ranks
<1>3. f \in [S -> T]
  BY <1>2 DEF Ranks
<1>4. \A o, q \in S : f[o] = f[q] => o = q
  <2>1. ASSUME NEW o \in S, NEW q \in S, o # q PROVE f[o] # f[q]
    <3>1. f[o] \in Nat /\ f[q] \in Nat
      BY <1>1, <1>2
    <3>2. <<o, q>> \in R \/ <<q, o>> \in R
      BY <2>1 DEF StrictOrder
    <3>3. f[o] < f[q] \/ f[q] < f[o]
      BY <3>2, RanksApart
    <3> QED  BY <3>1, <3>3
  <2> QED  BY <2>1
<1>5. IsFiniteSet(T) /\ Cardinality(T) = Cardinality(S)
  <2> DEFINE k == Cardinality(S) - 1
  <2>1. k \in Int /\ 0 \in Int
    BY <1>1
  <2>2. T = 0..k
    OBVIOUS
  <2>3. IsFiniteSet(T) /\ Cardinality(T) = IF 0 > k THEN 0 ELSE k - 0 + 1
    <3> HIDE DEF k
    <3> QED  BY Zenon, <2>1, <2>2, FS_Interval
  <2> QED  BY <1>1, <2>3
<1>6. f \in Injection(S, T)
  BY <1>3, <1>4 DEF Injection, IsInjective
<1>7. f \in Surjection(S, T)
  BY <1>5, <1>6, FS_Injection
<1>8. \A i \in T : \E o \in S : f[o] = i
  BY <1>7 DEF Surjection
<1> QED  BY <1>1, <1>3, <1>4, <1>8

\* Intervals from 1 that are equal end alike.
LEMMA SameInterval ==
  ASSUME NEW k \in Nat, NEW m \in Nat, 1..k = 1..m
  PROVE  k = m
<1>1. k \in 1..k \/ k = 0
  OBVIOUS
<1>2. m \in 1..m \/ m = 0
  OBVIOUS
<1> QED  BY <1>1, <1>2

\* A function on 1..n is a sequence of length n.
LEMMA FunctionIsSeq ==
  ASSUME NEW n \in Nat, NEW S, NEW f \in [1..n -> S]
  PROVE  f \in Seq(S) /\ Len(f) = n
<1>1. f \in Seq(S)
  BY SeqDef
<1>2. Len(f) \in Nat /\ 1..Len(f) = 1..n
  BY <1>1, LenProperties
<1> QED  BY <1>1, <1>2, SameInterval

\* The sequence f shows the set S.
Shows(f, S) == S = {f[i] : i \in 1..Cardinality(S)}

\* A function that has at place i an element of rank i - 1 lists the set.
LEMMA Placed ==
  ASSUME NEW S, IsFiniteSet(S), NEW R, StrictOrder(S, R),
         NEW f, f = [i \in 1..Cardinality(S) |-> f[i]],
         \A i \in 1..Cardinality(S) :
           (\E o \in S : Ranks(S, R)[o] = i - 1) => f[i] \in S /\ Ranks(S, R)[f[i]] = i - 1
  PROVE  /\ f \in Seq(S) /\ Len(f) = Cardinality(S) /\ Cardinality(S) \in Nat
         /\ Shows(f, S)
<1> DEFINE n == Cardinality(S)
<1>1. /\ n \in Nat /\ Ranks(S, R) \in [S -> 0..(n - 1)]
      /\ \A o, q \in S : Ranks(S, R)[o] = Ranks(S, R)[q] => o = q
      /\ \A i \in 0..(n - 1) : \E o \in S : Ranks(S, R)[o] = i
  BY RanksBijective
<1>2. f = [i \in 1..n |-> f[i]]
  OBVIOUS
<1>3. ASSUME NEW i \in 1..n
      PROVE  f[i] \in S /\ Ranks(S, R)[f[i]] = i - 1
  <2>1. i - 1 \in 0..(n - 1)
    BY <1>1
  <2>2. \E o \in S : Ranks(S, R)[o] = i - 1
    BY <2>1, <1>1
  <2> QED  BY <2>2
<1> HIDE DEF n
<1>4. f \in [1..n -> S] /\ n \in Nat
  BY <1>1, <1>2, <1>3
<1>5. f \in Seq(S) /\ Len(f) = n
  BY <1>4, FunctionIsSeq
<1>6. ASSUME NEW o \in S PROVE \E i \in 1..n : f[i] = o
  <2>1. n \in Nat /\ Ranks(S, R)[o] \in 0..(n - 1)
    BY <1>1
  <2> DEFINE i == Ranks(S, R)[o] + 1
  <2>2. i \in 1..n /\ i - 1 = Ranks(S, R)[o]
    BY <2>1
  <2> HIDE DEF i
  <2>3. f[i] \in S /\ Ranks(S, R)[f[i]] = Ranks(S, R)[o]
    BY <2>2, <1>3
  <2> QED  BY <2>2, <2>3, <1>1
<1>7. S = {f[i] : i \in 1..n}
  BY <1>3, <1>6
<1> QED  BY <1>4, <1>5, <1>7 DEF n, Shows

\* The ids in their order: each of them at one place.
LEMMA IdsOrdered ==
  ASSUME NEW S \in SUBSET Nat, IsFiniteSet(S)
  PROVE  /\ ById(S) \in Seq(S) /\ Len(ById(S)) = Cardinality(S) /\ Cardinality(S) \in Nat
         /\ Shows(ById(S), S)
<1> DEFINE R == {r \in S \X S : r[1] < r[2]}
<1>1. StrictOrder(S, R)
  BY DEF StrictOrder
<1>2. ASSUME NEW o \in S PROVE Ranks(S, R)[o] = Cardinality({p \in S : p < o})
  <2>1. {p \in S : <<p, o>> \in R} = {p \in S : p < o}
    OBVIOUS
  <2> QED  BY <2>1 DEF Ranks
<1> HIDE DEF R
<1>3. ById(S) = [i \in 1..Cardinality(S) |-> ById(S)[i]]
  <2> DEFINE at(i) == CHOOSE o \in S : Cardinality({p \in S : p < o}) = i - 1
  <2>1. ById(S) = [i \in 1..Cardinality(S) |-> at(i)]
    BY Zenon DEF ById, Ordered
  <2> HIDE DEF at
  <2> QED  BY <2>1
<1>4. ASSUME NEW i \in 1..Cardinality(S), NEW q \in S, Ranks(S, R)[q] = i - 1
      PROVE  ById(S)[i] \in S /\ Ranks(S, R)[ById(S)[i]] = i - 1
  <2>1. ById(S)[i] = CHOOSE o \in S : Cardinality({p \in S : p < o}) = i - 1
    BY DEF ById, Ordered
  <2>2. Cardinality({p \in S : p < q}) = i - 1
    BY <1>2, <1>4
  <2>3. ById(S)[i] \in S /\ Cardinality({p \in S : p < ById(S)[i]}) = i - 1
    BY <2>1, <2>2
  <2> QED  BY <2>3, <1>2
<1>5. \A i \in 1..Cardinality(S) :
        (\E o \in S : Ranks(S, R)[o] = i - 1)
          => ById(S)[i] \in S /\ Ranks(S, R)[ById(S)[i]] = i - 1
  BY <1>4
<1>6. ById(S) \in Seq(S) /\ Len(ById(S)) = Cardinality(S)
  BY <1>1, <1>3, <1>5, Placed
<1>7. Cardinality(S) \in Nat
  BY FS_CardinalityType
<1>8. Shows(ById(S), S)
  BY <1>1, <1>3, <1>5, Placed
<1> QED  BY <1>6, <1>7, <1>8

\* What is in order by age is a sequence of the same objects.
LEMMA AgesOrdered ==
  ASSUME NEW S \in SUBSET Objects, NEW cache \in [Objects -> Entries]
  PROVE  InOrder(cache, S) \in Seq(S)
<1> DEFINE R == {r \in S \X S : Before(cache, r[1], r[2])}
<1>1. IsFiniteSet(S) /\ S \subseteq Nat
  BY PagingAssumption, FS_Subset
<1>2. StrictOrder(S, R)
  <2>1. \A a \in S : cache[a].age \in Nat /\ cache[a].there \in BOOLEAN /\ a \in Nat
    BY <1>1 DEF Entries
  <2>2. \A a, b \in S : <<a, b>> \in R <=> Before(cache, a, b)
    OBVIOUS
  <2>3. \A a \in S : ~Before(cache, a, a)
    BY <2>1 DEF Before
  <2>4. \A a, b \in S : a = b \/ Before(cache, a, b) \/ Before(cache, b, a)
    BY <2>1 DEF Before
  <2>5. \A a, b, c \in S : Before(cache, a, b) /\ Before(cache, b, c) => Before(cache, a, c)
    BY <2>1 DEF Before
  <2> QED  BY <2>2, <2>3, <2>4, <2>5 DEF StrictOrder
<1>3. ASSUME NEW o \in S PROVE Ranks(S, R)[o] = Cardinality({p \in S : Before(cache, p, o)})
  <2>1. {p \in S : <<p, o>> \in R} = {p \in S : Before(cache, p, o)}
    OBVIOUS
  <2> QED  BY <2>1 DEF Ranks
<1> HIDE DEF R
<1>4. InOrder(cache, S) = [i \in 1..Cardinality(S) |-> InOrder(cache, S)[i]]
  <2> DEFINE at(i) == CHOOSE o \in S : Cardinality({p \in S : Before(cache, p, o)}) = i - 1
  <2>1. InOrder(cache, S) = [i \in 1..Cardinality(S) |-> at(i)]
    BY Zenon DEF InOrder, Ordered
  <2> HIDE DEF at
  <2> QED  BY <2>1
<1>5. ASSUME NEW i \in 1..Cardinality(S), NEW q \in S, Ranks(S, R)[q] = i - 1
      PROVE  InOrder(cache, S)[i] \in S /\ Ranks(S, R)[InOrder(cache, S)[i]] = i - 1
  <2>1. InOrder(cache, S)[i] = CHOOSE o \in S : Cardinality({p \in S : Before(cache, p, o)}) = i - 1
    BY Zenon DEF InOrder, Ordered
  <2>2. Cardinality({p \in S : Before(cache, p, q)}) = i - 1
    BY <1>3, <1>5
  <2>3. /\ InOrder(cache, S)[i] \in S
        /\ Cardinality({p \in S : Before(cache, p, InOrder(cache, S)[i])}) = i - 1
    BY <2>1, <2>2
  <2> QED  BY <2>3, <1>3
<1> QED  BY <1>1, <1>2, <1>4, <1>5, Placed

-----------------------------------------------------------------------------
(* Enumerations *)

\* Pages of PageSize rows: what the solver needs of the products.
LEMMA Products ==
  /\ \A k, n \in Nat : k * n \in Nat /\ (k + 1) * n = k * n + n
  /\ \A k \in Nat, n \in Int : k # 0 => (k - 1) * n = k * n - n
<1>1. \A k, n \in Nat : k * n \in Nat /\ (k + 1) * n = k * n + n
  OBVIOUS
<1>2. \A k \in Nat, n \in Int : k # 0 => (k - 1) * n = k * n - n
  OBVIOUS
<1> QED  BY <1>1, <1>2

\* A listing has one row for each object that is present.
LEMMA ListingFacts ==
  ASSUME ise \in [Objects -> Nat]
  PROVE  /\ Present \in SUBSET Objects /\ IsFiniteSet(Present)
         /\ Listing \in Seq([id : Present, ver : Nat])
         /\ Len(Listing) = Cardinality(Present) /\ Len(Listing) \in Nat
         /\ \A i \in 1..Len(Listing) : Listing[i] \in [id : Present, ver : Nat]
         /\ \A o \in Present : \E i \in 1..Len(Listing) : Listing[i].id = o
<1> DEFINE ids == ById(Present)
           n == Cardinality(Present)
           R == [id : Present, ver : Nat]
<1>1. Present \in SUBSET Objects /\ IsFiniteSet(Present) /\ Present \in SUBSET Nat
  BY PagingAssumption, FS_Subset DEF Present
<1>2. ids \in Seq(Present) /\ Len(ids) = n /\ n \in Nat /\ Shows(ids, Present)
  BY <1>1, IdsOrdered
<1>3. Listing = [i \in 1..n |-> [id |-> ids[i], ver |-> ise[ids[i]]]]
  BY <1>2 DEF Listing
<1> HIDE DEF ids, n
<1>4. ASSUME NEW i \in 1..n PROVE ids[i] \in Present /\ ise[ids[i]] \in Nat
  <2>1. ids[i] \in Present
    BY <1>2, ElementOfSeq
  <2> QED  BY <1>1, <2>1
<1>5. Listing \in [1..n -> R]
  BY <1>3, <1>4
<1>6. n \in Nat
  BY <1>2
<1>7. Listing \in Seq(R) /\ Len(Listing) = n
  BY <1>5, <1>6, FunctionIsSeq
<1>8. ASSUME NEW o \in Present PROVE \E i \in 1..n : Listing[i].id = o
  <2>1. PICK i \in 1..n : ids[i] = o
    BY <1>2 DEF Shows, n
  <2> QED  BY <2>1, <1>3
<1>9. \A i \in 1..n : Listing[i] \in R
  BY <1>5
<1> QED  BY <1>1, <1>6, <1>7, <1>8, <1>9 DEF n

\* The right reply to a request for page p.
LEMMA TruePage ==
  ASSUME ise \in [Objects -> Nat], NEW p \in Nat \ {0}
  PROVE  LET m == (p - 1) * PageSize
             k == Least(p * PageSize, Len(Listing))
             r == TrueReply(p)
         IN  /\ m \in Nat /\ k \in Nat /\ m < p * PageSize /\ p * PageSize \in Nat
             /\ r.rows \in Seq([id : Present, ver : Nat])
             /\ Len(r.rows) = IF m < k THEN k - m ELSE 0
             /\ \A i \in 1..Len(r.rows) : r.rows[i] = Listing[m + i]
             /\ r.next = IF Len(Listing) > p * PageSize THEN p + 1 ELSE 0
             /\ DOMAIN r = {"rows", "next"}
<1> DEFINE m == (p - 1) * PageSize
           q == p * PageSize
           k == Least(q, Len(Listing))
           r == TrueReply(p)
           R == [id : Present, ver : Nat]
<1>1. PageSize \in Nat \ {0}
  BY PagingAssumption
<1>2. q \in Nat /\ m \in Nat /\ m = q - PageSize
  BY <1>1, Products
<1>3. Len(Listing) \in Nat /\ \A i \in 1..Len(Listing) : Listing[i] \in R
  BY ListingFacts
<1>4. r = [rows |-> SubSeq(Listing, m + 1, k), next |-> IF Len(Listing) > q THEN p + 1 ELSE 0]
  BY DEF TrueReply
<1> HIDE DEF m, q, r, R
<1>5. k \in Nat /\ k <= Len(Listing) /\ m < q
  BY <1>1, <1>2, <1>3 DEF Least
<1> HIDE DEF k
<1>6. \A i \in (m + 1)..k : Listing[i] \in R
  BY <1>2, <1>3, <1>5
<1>7. /\ SubSeq(Listing, m + 1, k) \in Seq(R)
      /\ Len(SubSeq(Listing, m + 1, k)) = IF m + 1 <= k THEN k - (m + 1) + 1 ELSE 0
      /\ \A i \in 1..(k - (m + 1) + 1) : SubSeq(Listing, m + 1, k)[i] = Listing[(m + 1) + i - 1]
  BY <1>2, <1>5, <1>6, SubSeqProperties
<1>8. r.rows = SubSeq(Listing, m + 1, k) /\ r.next = (IF Len(Listing) > q THEN p + 1 ELSE 0)
      /\ DOMAIN r = {"rows", "next"}
  BY <1>4
<1>9. Len(r.rows) = IF m < k THEN k - m ELSE 0
  BY <1>2, <1>5, <1>7, <1>8
<1>10. ASSUME NEW i \in 1..Len(r.rows) PROVE r.rows[i] = Listing[m + i]
  <2>1. i \in 1..(k - (m + 1) + 1) /\ (m + 1) + i - 1 = m + i
    BY <1>2, <1>5, <1>9
  <2> QED  BY <2>1, <1>7, <1>8
<1>11. r.rows \in Seq(R)
  BY <1>7, <1>8
<1> QED  BY <1>2, <1>5, <1>8, <1>9, <1>10, <1>11 DEF m, q, k, r, R

\* Any reply holds rows of objects that are present.
LEMMA AnyPage ==
  ASSUME ise \in [Objects -> Nat], NEW p \in Nat \ {0}, NEW r \in Replies(p)
  PROVE  r.rows \in Seq([id : Present, ver : Nat]) /\ r.next \in Nat
<1> DEFINE t == TrueReply(p)
           R == [id : Present, ver : Nat]
<1>1. /\ t.rows \in Seq(R) /\ DOMAIN t = {"rows", "next"} /\ p * PageSize \in Nat
      /\ t.next = IF Len(Listing) > p * PageSize THEN p + 1 ELSE 0
  BY TruePage
<1>2. t.next \in Nat
  BY <1>1
<1>3. \/ r = t \/ r = [t EXCEPT !.next = 0] \/ r = [t EXCEPT !.next = 1]
      \/ r = [t EXCEPT !.rows = IF @ = <<>> THEN @ ELSE Front(@)]
  BY DEF Replies
<1>4. t.rows # <<>> => Front(t.rows) \in Seq(R)
  <2>1. Len(t.rows) \in Nat /\ \A i \in 1..Len(t.rows) : t.rows[i] \in R
    BY <1>1, LenProperties, ElementOfSeq
  <2> DEFINE n == Len(t.rows) - 1
  <2>2. 1 \in Int /\ n \in Int /\ \A i \in 1..n : t.rows[i] \in R
    BY <2>1
  <2>3. Front(t.rows) = SubSeq(t.rows, 1, n)
    BY DEF Front
  <2> HIDE DEF n, t, R
  <2>4. SubSeq(t.rows, 1, n) \in Seq(R)
    BY Zenon, <2>2, SubSeqProperties
  <2> QED  BY <2>3, <2>4
<1> HIDE DEF t, R
<1>5. CASE r = t
  BY <1>1, <1>2, <1>5 DEF R
<1>6. CASE r = [t EXCEPT !.next = 0] \/ r = [t EXCEPT !.next = 1]
  <2>1. r.rows = t.rows /\ r.next \in {0, 1}
    BY <1>1, <1>6
  <2> QED  BY <1>1, <2>1 DEF R
<1>7. CASE r = [t EXCEPT !.rows = IF @ = <<>> THEN @ ELSE Front(@)]
  <2>1. r.next = t.next /\ r.rows = IF t.rows = <<>> THEN t.rows ELSE Front(t.rows)
    BY <1>1, <1>7
  <2> QED  BY <2>1, <1>1, <1>2, <1>4 DEF R
<1> QED  BY <1>3, <1>5, <1>6, <1>7

\* The list records of a failed enumeration and of none.
LEMMA FailedList == ListFailed \in Lists /\ NoList \in Lists /\ ListFailed.st = "failed" /\ NoList.st = "off"
<1>1. <<>> \in Seq(ListRows) /\ {} \in SUBSET Nat
  BY EmptySeq
<1>2. NoList \in Lists
  BY <1>1 DEF NoList, Lists
<1>3. ListFailed \in Lists
  BY <1>1 DEF ListFailed, NoList, Lists
<1> QED  BY <1>2, <1>3 DEF ListFailed, NoList

\* Without a list, or with one that failed, there is nothing to show.
LEMMA NoRowsRead ==
  ASSUME ListTypes', list'.st \in {"off", "failed"}
  PROVE  EnumInv'
BY DEF EnumInv, RowsOpened, RowsCounted, RowsInTurn

\* A sequence over a set is one over a larger set.
LEMMA SeqWidens ==
  ASSUME NEW s \in Seq([id : Present, ver : Nat]), Present \in SUBSET Objects
  PROVE  /\ s \in Seq(ListRows) /\ Len(s) \in Nat
         /\ \A i \in 1..Len(s) : s[i].id \in Present
<1>1. [id : Present, ver : Nat] \subseteq ListRows
  BY DEF ListRows
<1>2. s \in Seq(ListRows)
  BY <1>1, SeqMonotonic
<1>3. Len(s) \in Nat /\ \A i \in 1..Len(s) : s[i] \in [id : Present, ver : Nat]
  BY LenProperties, ElementOfSeq
<1>4. ASSUME NEW i \in 1..Len(s) PROVE s[i].id \in Present
  BY <1>3
<1> QED  BY <1>2, <1>3, <1>4

\* The first page, or no answer to the first request.
LEMMA OpenStep ==
  ASSUME EnumInv, OpenList
  PROVE  EnumInv'
<1>1. /\ ise \in [Objects -> Nat] /\ changes \in Nat /\ ise' = ise /\ changes' = changes
      /\ opened' = Present /\ moved' = FALSE
  BY DEF EnumInv, ListTypes, OpenList
<1>2. /\ Present \in SUBSET Objects /\ IsFiniteSet(Present) /\ Present' = Present
      /\ Len(Listing) = Cardinality(Present) /\ Len(Listing) \in Nat /\ Listing' = Listing
  BY <1>1, ListingFacts DEF Present, Listing
<1>3. CASE list' = ListFailed
  <2>1. lied' \in BOOLEAN
    BY DEF OpenList
  <2>2. ListTypes'
    BY <1>1, <1>2, <1>3, <2>1, FailedList DEF ListTypes
  <2> QED  BY <1>3, <2>2, NoRowsRead, FailedList
<1>4. CASE list' # ListFailed
  <2>1. PICK r \in Replies(1) :
          /\ lied' = (r # TrueReply(1))
          /\ list' = [st |-> "paging", rows |-> r.rows, total |-> Len(Listing),
                      next |-> r.next, pages |-> 1, visited |-> {}]
    BY <1>4 DEF OpenList, Unanswered
  <2>0. 1 \in Nat \ {0}
    OBVIOUS
  <2>2. r.rows \in Seq([id : Present, ver : Nat]) /\ r.next \in Nat
    BY <1>1, <2>0, AnyPage
  <2>3. /\ r.rows \in Seq(ListRows) /\ Len(r.rows) \in Nat
        /\ \A i \in 1..Len(r.rows) : r.rows[i].id \in Present
    BY <1>2, <2>2, SeqWidens
  <2>4. ListTypes'
    <3>1. list' \in Lists
      BY <1>2, <2>1, <2>2, <2>3 DEF Lists
    <3> QED  BY <1>1, <1>2, <2>1, <3>1 DEF ListTypes
  <2>5. RowsOpened' /\ RowsCounted'
    BY <1>1, <1>2, <2>1, <2>3 DEF RowsOpened, RowsCounted
  <2>6. RowsInTurn'
    <3>1. SUFFICES ASSUME ~lied' PROVE FirstPages'
      BY <2>1 DEF RowsInTurn
    <3>2. r = TrueReply(1)
      BY <2>1, <3>1
    <3>3. PageSize \in Nat /\ (1 - 1) * PageSize = 0 /\ 1 * PageSize = PageSize
      BY PagingAssumption
    <3>4. /\ Len(r.rows) = IF 0 < Least(PageSize, Len(Listing)) THEN Least(PageSize, Len(Listing)) - 0 ELSE 0
          /\ \A i \in 1..Len(r.rows) : r.rows[i] = Listing[0 + i]
          /\ r.next = IF Len(Listing) > PageSize THEN 1 + 1 ELSE 0
      BY <1>1, <2>0, <3>2, <3>3, TruePage
    <3>5. Len(r.rows) = Least(PageSize, Len(Listing))
      BY <1>2, <3>3, <3>4 DEF Least
    <3>6. \A i \in 1..Len(r.rows) : r.rows[i] = Listing[i]
      BY <2>3, <3>4
    <3> QED  BY <1>2, <2>1, <3>3, <3>4, <3>5, <3>6 DEF FirstPages
  <2> QED  BY <2>4, <2>5, <2>6 DEF EnumInv
<1> QED  BY <1>3, <1>4

\* A true reply continues a listing that is complete so far.
LEMMA NextPage ==
  ASSUME ListTypes, FirstPages, list.next # 0,
         NEW r, r = TrueReply(list.next), NEW rows, rows = list.rows \o r.rows
  PROVE  /\ Len(rows) = Least((list.pages + 1) * PageSize, Len(Listing))
         /\ \A i \in 1..Len(rows) : rows[i] = Listing[i]
         /\ r.next = IF Len(Listing) > (list.pages + 1) * PageSize
                     THEN (list.pages + 1) + 1 ELSE 0
<1> DEFINE m == list.pages * PageSize
           q == (list.pages + 1) * PageSize
           n == Len(Listing)
           k == Least(q, n)
<1>1. /\ ise \in [Objects -> Nat] /\ list.pages \in Nat /\ list.rows \in Seq(ListRows)
  BY DEF ListTypes, Lists
<1>2. /\ PageSize \in Nat \ {0} /\ n \in Nat /\ Present \in SUBSET Objects
  BY <1>1, ListingFacts, PagingAssumption
<1>3. m \in Nat /\ q \in Nat /\ q = m + PageSize
  BY <1>1, <1>2, Products
<1>4. /\ n > m /\ list.next = list.pages + 1 /\ Len(list.rows) = Least(m, n)
      /\ \A i \in 1..Len(list.rows) : list.rows[i] = Listing[i]
  BY DEF FirstPages
<1>5. list.next \in Nat \ {0} /\ (list.next - 1) = list.pages
  BY <1>1, <1>4
<1>6. /\ r.rows \in Seq([id : Present, ver : Nat])
      /\ Len(r.rows) = IF m < k THEN k - m ELSE 0
      /\ \A i \in 1..Len(r.rows) : r.rows[i] = Listing[m + i]
      /\ r.next = IF n > q THEN (list.pages + 1) + 1 ELSE 0
  <2>1. (list.next - 1) * PageSize = m /\ list.next * PageSize = q
    BY <1>4, <1>5
  <2>2. /\ r.rows \in Seq([id : Present, ver : Nat])
        /\ Len(r.rows) = IF (list.next - 1) * PageSize < Least(list.next * PageSize, n)
                         THEN Least(list.next * PageSize, n) - (list.next - 1) * PageSize ELSE 0
        /\ \A i \in 1..Len(r.rows) : r.rows[i] = Listing[(list.next - 1) * PageSize + i]
        /\ r.next = IF n > list.next * PageSize THEN list.next + 1 ELSE 0
    BY <1>1, <1>5, TruePage
  <2> HIDE DEF m, q, n
  <2> QED  BY <1>4, <2>1, <2>2
<1>7. r.rows \in Seq(ListRows)
  BY <1>2, <1>6, SeqWidens
<1> HIDE DEF m, q, n
<1>8. Len(list.rows) = m /\ k \in Nat /\ m < k
  BY <1>2, <1>3, <1>4 DEF Least
<1> HIDE DEF k
<1>9. /\ Len(rows) = Len(list.rows) + Len(r.rows)
      /\ \A i \in 1..(Len(list.rows) + Len(r.rows)) :
           rows[i] = IF i <= Len(list.rows) THEN list.rows[i] ELSE r.rows[i - Len(list.rows)]
  BY <1>1, <1>7, ConcatProperties
<1>10. Len(r.rows) = k - m /\ Len(rows) = k
  BY <1>3, <1>6, <1>8, <1>9
<1>11. ASSUME NEW i \in 1..k PROVE rows[i] = Listing[i]
  <2>1. rows[i] = IF i <= m THEN list.rows[i] ELSE r.rows[i - m]
    BY <1>3, <1>8, <1>9, <1>10
  <2>2. CASE i <= m
    <3>1. i \in 1..Len(list.rows)
      BY <1>3, <1>8, <2>2
    <3> QED  BY <1>4, <2>1, <2>2, <3>1
  <2>3. CASE ~(i <= m)
    <3>1. i - m \in 1..Len(r.rows) /\ m + (i - m) = i
      BY <1>3, <1>8, <1>10, <2>3
    <3> QED  BY <1>6, <2>1, <2>3, <3>1
  <2> QED  BY <2>2, <2>3
<1> QED  BY <1>6, <1>10, <1>11 DEF k, q, n

\* Places of the second of two joined sequences.
LEMMA Shifted == \A a, b \in Nat : \A i \in 1..(a + b) : ~(i <= a) => i - a \in 1..b
OBVIOUS

\* A further page, or no answer.
LEMMA FollowStep ==
  ASSUME EnumInv, FollowLink
  PROVE  EnumInv'
<1>1. /\ ise \in [Objects -> Nat] /\ changes \in Nat /\ ise' = ise /\ changes' = changes
      /\ opened' = opened /\ moved' = moved /\ opened \in SUBSET Objects /\ moved \in BOOLEAN
      /\ list \in Lists /\ lied \in BOOLEAN
  BY DEF EnumInv, ListTypes, FollowLink
<1>2. /\ Present \in SUBSET Objects /\ Present' = Present
      /\ Len(Listing) \in Nat /\ Listing' = Listing
  BY <1>1, ListingFacts DEF Present, Listing
<1>3. CASE list' = ListFailed
  <2>1. lied' \in BOOLEAN
    BY <1>1 DEF FollowLink
  <2>2. ListTypes'
    BY <1>1, <1>3, <2>1, FailedList DEF ListTypes
  <2> QED  BY <1>3, <2>2, NoRowsRead, FailedList
<1>4. CASE list' # ListFailed
  <2>1. PICK r \in Replies(list.next) :
          /\ lied' = (lied \/ r # TrueReply(list.next))
          /\ list' = [list EXCEPT !.rows = list.rows \o r.rows, !.next = r.next,
                                  !.pages = list.pages + 1,
                                  !.visited = list.visited \cup {list.next}]
    BY <1>4 DEF FollowLink, Unanswered
  <2>2. /\ list.st = "paging" /\ list.next \in Nat \ {0} /\ list.rows \in Seq(ListRows)
        /\ list.pages \in Nat /\ list.visited \in SUBSET Nat
    BY <1>1 DEF FollowLink, Lists
  <2>3. r.rows \in Seq([id : Present, ver : Nat]) /\ r.next \in Nat
    BY <1>1, <2>2, AnyPage
  <2>4. /\ r.rows \in Seq(ListRows) /\ Len(r.rows) \in Nat
        /\ \A i \in 1..Len(r.rows) : r.rows[i].id \in Present
    BY <1>2, <2>3, SeqWidens
  <2> DEFINE rows == list.rows \o r.rows
  <2>5. /\ rows \in Seq(ListRows) /\ Len(rows) = Len(list.rows) + Len(r.rows)
        /\ Len(list.rows) \in Nat
        /\ \A i \in 1..(Len(list.rows) + Len(r.rows)) :
             rows[i] = IF i <= Len(list.rows) THEN list.rows[i] ELSE r.rows[i - Len(list.rows)]
    <3> DEFINE a == list.rows
               b == r.rows
    <3>1. a \in Seq(ListRows) /\ b \in Seq(ListRows) /\ rows = a \o b
      BY <2>2, <2>4
    <3> HIDE DEF a, b, rows
    <3>2. /\ rows \in Seq(ListRows) /\ Len(rows) = Len(a) + Len(b) /\ Len(a) \in Nat
          /\ \A i \in 1..(Len(a) + Len(b)) : rows[i] = IF i <= Len(a) THEN a[i] ELSE b[i - Len(a)]
      BY <3>1, ConcatProperties, LenProperties
    <3> QED  BY <3>2 DEF a, b
  <2>6. /\ list'.st = "paging" /\ list'.rows = rows /\ list'.next = r.next
        /\ list'.pages = list.pages + 1 /\ list'.total = list.total
    BY <1>1, <2>1, <2>2 DEF Lists
  <2>7. ListTypes'
    <3>1. list.visited \cup {list.next} \in SUBSET Nat /\ list.pages + 1 \in Nat
      BY <2>2
    <3>2. rows \in Seq(ListRows) /\ r.next \in Nat
      BY <2>3, <2>5
    <3> HIDE DEF rows
    <3>3. list' = [list EXCEPT !.rows = rows, !.next = r.next, !.pages = list.pages + 1,
                               !.visited = list.visited \cup {list.next}]
      BY <2>1 DEF rows
    <3>4. list' \in Lists
      BY <1>1, <3>1, <3>2, <3>3 DEF Lists
    <3> QED  BY <1>1, <2>1, <3>4 DEF ListTypes
  <2> HIDE DEF rows
  <2>8. RowsOpened' /\ RowsCounted'
    <3>1. SUFFICES ASSUME ~moved
                   PROVE  /\ list.total = Cardinality(opened) /\ opened = Present
                          /\ \A i \in 1..Len(rows) : rows[i].id \in opened
      BY <1>1, <1>2, <2>6 DEF RowsOpened, RowsCounted
    <3>2. /\ list.total = Cardinality(opened) /\ opened = Present
          /\ \A i \in 1..Len(list.rows) : list.rows[i].id \in opened
      BY <2>2, <3>1 DEF EnumInv, RowsOpened
    <3>3. ASSUME NEW i \in 1..Len(rows) PROVE rows[i].id \in opened
      <4>0. /\ i \in 1..(Len(list.rows) + Len(r.rows))
            /\ Len(list.rows) \in Nat /\ Len(r.rows) \in Nat
        BY <2>4, <2>5
      <4>3. rows[i] = IF i <= Len(list.rows) THEN list.rows[i] ELSE r.rows[i - Len(list.rows)]
        BY <2>5, <4>0
      <4>1. CASE i <= Len(list.rows)
        <5>1. i \in 1..Len(list.rows)
          BY <4>0, <4>1
        <5> QED  BY <3>2, <4>1, <4>3, <5>1
      <4>2. CASE ~(i <= Len(list.rows))
        <5>1. i - Len(list.rows) \in 1..Len(r.rows)
          BY <4>0, <4>2, Shifted
        <5> QED  BY <2>4, <3>2, <4>2, <4>3, <5>1
      <4> QED  BY <4>1, <4>2
    <3> QED  BY <3>2, <3>3
  <2>9. RowsInTurn'
    <3>1. SUFFICES ASSUME ~moved, ~lied' PROVE FirstPages'
      BY <1>1, <2>6 DEF RowsInTurn
    <3>2. FirstPages /\ r = TrueReply(list.next)
      BY <2>1, <2>2, <3>1 DEF EnumInv, RowsInTurn
    <3>3. /\ Len(rows) = Least((list.pages + 1) * PageSize, Len(Listing))
          /\ \A i \in 1..Len(rows) : rows[i] = Listing[i]
          /\ r.next = IF Len(Listing) > (list.pages + 1) * PageSize
                      THEN (list.pages + 1) + 1 ELSE 0
      BY <2>2, <3>2, NextPage DEF EnumInv, rows
    <3>4. list.pages + 1 # 0
      BY <2>2
    <3> QED  BY <1>2, <2>6, <3>3, <3>4 DEF FirstPages
  <2> QED  BY <2>7, <2>8, <2>9 DEF EnumInv
<1> QED  BY <1>3, <1>4

\* A link that is not followed.
LEMMA RefuseStep ==
  ASSUME EnumInv, RefuseLink
  PROVE  EnumInv'
<1>1. ListTypes' /\ list' = ListFailed
  BY FailedList DEF EnumInv, ListTypes, RefuseLink
<1> QED  BY <1>1, NoRowsRead, FailedList

\* The end of an enumeration, with the comparison against the total.
LEMMA CloseStep ==
  ASSUME EnumInv, CloseList(kind # "cert"), kind' = kind
  PROVE  EnumInv'
<1>1. /\ ise \in [Objects -> Nat] /\ changes \in Nat /\ ise' = ise /\ changes' = changes
      /\ opened' = opened /\ moved' = moved /\ opened \in SUBSET Objects /\ moved \in BOOLEAN
      /\ list \in Lists /\ lied \in BOOLEAN /\ lied' = lied /\ list.st = "paging" /\ list.next = 0
  BY DEF EnumInv, ListTypes, CloseList
<1>2. CASE list' = ListFailed
  <2>1. ListTypes'
    BY <1>1, <1>2, FailedList DEF ListTypes
  <2> QED  BY <1>2, <2>1, NoRowsRead, FailedList
<1>3. CASE list' # ListFailed
  <2>1. list' = [list EXCEPT !.st = "ok"] /\ (kind # "cert" => Len(list.rows) = list.total)
    BY <1>3 DEF CloseList
  <2>2. /\ list' \in Lists /\ list'.st = "ok" /\ list'.rows = list.rows /\ list'.total = list.total
    BY <1>1, <2>1 DEF Lists
  <2>3. ListTypes' /\ RowsCounted' /\ RowsOpened'
    BY <1>1, <2>1, <2>2 DEF EnumInv, ListTypes, RowsCounted, RowsOpened
  <2>4. RowsInTurn'
    <3>1. SUFFICES ASSUME ~moved, ~lied, NEW o \in opened
                   PROVE  \E i \in 1..Len(list.rows) : list.rows[i].id = o
      BY <1>1, <2>2 DEF RowsInTurn
    <3>2. FirstPages /\ opened = Present
      BY <1>1, <3>1 DEF EnumInv, RowsInTurn, RowsOpened
    <3>3. /\ list.pages \in Nat /\ list.pages + 1 # 0 /\ list.pages * PageSize \in Nat
          /\ Len(Listing) \in Nat
      BY <1>1, ListingFacts, PagingAssumption, Products DEF Lists
    <3>4. Len(list.rows) = Len(Listing) /\ \A i \in 1..Len(list.rows) : list.rows[i] = Listing[i]
      BY <1>1, <3>2, <3>3 DEF FirstPages, Least
    <3>5. \E i \in 1..Len(Listing) : Listing[i].id = o
      BY <1>1, <3>1, <3>2, ListingFacts
    <3> QED  BY <3>4, <3>5
  <2> QED  BY <2>3, <2>4 DEF EnumInv
<1> QED  BY <1>2, <1>3

\* Rows with distinct ids, as many as there were objects, are all of them.
LEMMA WholeInventory ==
  ASSUME EnumInv, list.st = "ok", Distinct(list.rows), ~moved, kind = "cert" => ~lied
  PROVE  {list.rows[i].id : i \in 1..Len(list.rows)} = opened
<1> DEFINE n == Len(list.rows)
           f == [i \in 1..n |-> list.rows[i].id]
<1>1. /\ list.rows \in Seq(ListRows) /\ opened \in SUBSET Objects
      /\ list.total = Cardinality(opened)
      /\ \A i \in 1..n : list.rows[i].id \in opened
  BY DEF EnumInv, ListTypes, Lists, RowsOpened
<1>2. n \in Nat
  BY <1>1, LenProperties
<1>3. CASE kind # "cert"
  <2>1. n = Cardinality(opened)
    BY <1>1, <1>3 DEF EnumInv, RowsCounted
  <2>2. IsFiniteSet(opened)
    BY <1>1, PagingAssumption, FS_Subset
  <2>3. f \in [1..n -> opened]
    BY <1>1
  <2>4. f \in Injection(1..n, opened)
    BY <2>3 DEF Injection, IsInjective, Distinct
  <2>5. Cardinality(1..n) = n
    BY <1>2, FromOne
  <2>6. f \in Surjection(1..n, opened)
    BY <2>1, <2>2, <2>4, <2>5, FS_Injection
  <2>7. \A o \in opened : \E i \in 1..n : f[i] = o
    BY <2>6 DEF Surjection
  <2>8. \A o \in opened : \E i \in 1..n : list.rows[i].id = o
    BY <2>7
  <2> QED  BY <1>1, <2>8
<1>4. CASE kind = "cert"
  <2>1. \A o \in opened : \E i \in 1..n : list.rows[i].id = o
    BY <1>4 DEF EnumInv, RowsInTurn
  <2> QED  BY <1>1, <2>1
<1> QED  BY <1>3, <1>4

-----------------------------------------------------------------------------
(* The steps of a cycle *)

\* The empty inventory.
LEMMA Emptiness ==
  /\ DOMAIN <<>> = {} /\ <<>> \in [{} -> Nat] /\ \A S : <<>> \in Seq(S)
<1>1. \A S : <<>> \in Seq(S)
  BY EmptySeq
<1>2. DOMAIN <<>> = {} /\ <<>> \in [{} -> Nat]
  OBVIOUS
<1> QED  BY <1>1, <1>2

\* The rows the collectors store.
LEMMA RowTypes ==
  /\ NoRow \in Entries /\ NoRow.sig <= NoRow.ver
  /\ \A v, s \in Nat : Row(v, s) \in Entries /\ Row(v, s).sig = s /\ Row(v, s).ver = v
BY DEF NoRow, Row, Entries

\* What the enumerations keep when nothing of them changes.
LEMMA EnumKept ==
  ASSUME EnumInv, ise' = ise, changes' = changes, list' = list, opened' = opened,
         moved' = moved, lied' = lied, kind' = kind
  PROVE  EnumInv'
<1>1. Present' = Present /\ Listing' = Listing
  BY DEF Present, Listing
<1> QED  BY <1>1 DEF EnumInv, ListTypes, RowsOpened, RowsCounted, RowsInTurn, FirstPages

\* Without an enumeration its invariant says nothing.
LEMMA EnumClosed ==
  ASSUME EnumInv, ise' = ise, changes' = changes, list' = NoList,
         opened' \in SUBSET Objects, moved' \in BOOLEAN, lied' \in BOOLEAN
  PROVE  EnumInv'
<1>1. ListTypes'
  BY FailedList DEF EnumInv, ListTypes
<1> QED  BY <1>1, NoRowsRead, FailedList

\* A cycle that is given up leaves the committed rows and the last snapshot.
LEMMA GiveUpStep ==
  ASSUME CacheInv, GiveUp, ise' = ise, changes' = changes, list' = NoList
  PROVE  CacheInv'
<1>1. CacheTypes'
  BY Emptiness DEF CacheInv, CacheTypes, GiveUp
<1>2. Stages' /\ ListWhole'
  BY DEF CacheInv, Stages, ListWhole, GiveUp
<1>3. Growing'
  BY Emptiness DEF CacheInv, SessionInv, Growing, GiveUp
<1>4. SessionRows' /\ NoOlderSession'
  BY DEF CacheInv, SessionInv, SessionRows, NotOlder, NoOlderSession, GiveUp
<1> QED  BY <1>1, <1>2, <1>3, <1>4 DEF CacheInv, SessionInv

\* The steps of an enumeration leave the cache alone.
LEMMA ReadPagesStep ==
  ASSUME EnumInv, CacheInv, ReadPages
  PROVE  EnumInv' /\ CacheInv'
<1>1. UNCHANGED cacheVars /\ pc = "list"
  BY DEF ReadPages
<1>2. EnumInv'
  BY <1>1, OpenStep, RefuseStep, FollowStep, CloseStep DEF ReadPages, cacheVars
<1>3. ise' = ise /\ changes' = changes
  BY DEF ReadPages, OpenList, RefuseLink, FollowLink, CloseList
<1>4. CacheInv'
  BY <1>1, <1>3 DEF cacheVars, CacheInv, CacheTypes, Stages, ListWhole, SessionInv,
     Growing, SessionRows, NotOlder, NoOlderSession
<1> QED  BY <1>2, <1>4

\* An enumeration becomes the inventory of the cycle, or fails it.
LEMMA ListedStep ==
  ASSUME EnumInv, CacheInv, Listed
  PROVE  EnumInv' /\ CacheInv'
<1>1. /\ list' = NoList /\ ise' = ise /\ changes' = changes /\ opened' = opened
      /\ moved' = moved /\ lied' = lied /\ pc = "list" /\ kind' = kind
  BY DEF Listed, GiveUp
<1>2. EnumInv'
  BY <1>1, EnumClosed DEF EnumInv, ListTypes
<1>3. CASE GiveUp
  BY <1>1, <1>2, <1>3, GiveUpStep
<1>4. CASE ~GiveUp
  <2>1. /\ list.st = "ok" /\ Distinct(list.rows) /\ listed' = AsInventory(list.rows)
        /\ pc' = IF kind \in {"cert", "name"} THEN "publish" ELSE "plan"
        /\ UNCHANGED <<kind, budget, embeds, hopeless, row, tx, plan, failures, pub>>
    BY <1>4 DEF Listed
  <2> DEFINE ids == {list.rows[i].id : i \in 1..Len(list.rows)}
  <2>2. list.rows \in Seq(ListRows)
    BY DEF EnumInv, ListTypes, Lists
  <2>3. Len(list.rows) \in Nat /\ \A i \in 1..Len(list.rows) : list.rows[i] \in ListRows
    BY <2>2, LenProperties, ElementOfSeq
  <2>4. ids \in SUBSET Objects
    BY <2>3 DEF ListRows
  <2>5. DOMAIN listed' = ids /\ listed' \in [ids -> Nat]
    <3>1. ToSet(list.rows) = {list.rows[i] : i \in 1..Len(list.rows)}
      BY <2>2, LenProperties DEF ToSet
    <3>2. ASSUME NEW o \in ids PROVE (CHOOSE r \in ToSet(list.rows) : r.id = o).ver \in Nat
      <4>1. \E r \in ToSet(list.rows) : r.id = o
        BY <3>1
      <4>2. (CHOOSE r \in ToSet(list.rows) : r.id = o) \in ToSet(list.rows)
        BY <4>1
      <4>3. (CHOOSE r \in ToSet(list.rows) : r.id = o) \in ListRows
        BY <2>3, <3>1, <4>2
      <4> QED  BY <4>3 DEF ListRows
    <3> QED  BY <2>1, <3>2 DEF AsInventory
  <2>6. CacheTypes'
    <3>1. plan' = <<>> /\ pc' # "fetch" /\ pc' \in {"plan", "publish"}
      BY <1>1, <2>1 DEF CacheInv, CacheTypes
    <3> HIDE DEF ids
    <3> QED  BY <2>1, <2>4, <2>5, <3>1, Emptiness DEF CacheInv, CacheTypes
  <2>7. Stages'
    BY <1>1, <2>1 DEF CacheInv, Stages
  <2>8. ListWhole'
    <3>1. SUFFICES ASSUME ~moved, kind = "cert" => ~lied PROVE ids = opened
      BY <1>1, <2>5 DEF ListWhole
    <3> QED  BY <2>1, <3>1, WholeInventory
  <2>9. SessionInv'
    BY <1>1, <2>1 DEF CacheInv, Stages, SessionInv, Growing, SessionRows, NoOlderSession
  <2> QED  BY <1>2, <2>6, <2>7, <2>8, <2>9 DEF CacheInv
<1> QED  BY <1>3, <1>4

\* ActiveCount.
LEMMA PreflightStep ==
  ASSUME EnumInv, CacheInv, Preflight
  PROVE  EnumInv' /\ CacheInv'
<1>1. UNCHANGED pagingVars /\ pc = "ask" /\ list = NoList
  BY DEF Preflight, CacheInv, Stages
<1>2. EnumInv'
  BY <1>1, EnumKept DEF pagingVars, Preflight, GiveUp
<1>3. CASE GiveUp
  BY <1>1, <1>2, <1>3, GiveUpStep DEF pagingVars
<1>4. CASE ~GiveUp
  <2>1. /\ pc' = "list1"
        /\ UNCHANGED <<kind, budget, embeds, hopeless, listed, row, tx, plan, failures, pub>>
    BY <1>4 DEF Preflight
  <2> QED
    BY <1>1, <1>2, <2>1 DEF pagingVars, CacheInv, CacheTypes, Stages, ListWhole, SessionInv,
       Growing, SessionRows, NotOlder, NoOlderSession
<1> QED  BY <1>3, <1>4

\* ActiveCount is zero.
LEMMA NoSessionsStep ==
  ASSUME EnumInv, CacheInv, NoSessions
  PROVE  EnumInv' /\ CacheInv'
<1>1. list = NoList /\ list' = NoList /\ ise' = ise /\ changes' = changes
  BY DEF NoSessions, CacheInv, Stages
<1>2. EnumInv'
  BY <1>1, EnumClosed DEF NoSessions
<1>3. CacheTypes'
  BY Emptiness DEF CacheInv, CacheTypes, NoSessions
<1>4. Stages' /\ ListWhole'
  BY <1>1, Emptiness DEF CacheInv, Stages, ListWhole, NoSessions
<1>5. SessionInv'
  BY <1>1, Emptiness DEF CacheInv, SessionInv, Growing, SessionRows, NotOlder, NoOlderSession,
     NoSessions
<1> QED  BY <1>2, <1>3, <1>4, <1>5 DEF CacheInv

\* The inventory in one answer.
LEMMA ListAtOnceStep ==
  ASSUME EnumInv, CacheInv, ListAtOnce
  PROVE  EnumInv' /\ CacheInv'
<1>1. /\ list = NoList /\ list' = NoList /\ ise' = ise /\ changes' = changes
      /\ opened' = Present /\ moved' = FALSE /\ lied' = FALSE /\ pc \in {"ask", "list1"}
  BY DEF ListAtOnce, CacheInv, Stages
<1>2. ise \in [Objects -> Nat] /\ Present \in SUBSET Objects
  BY DEF EnumInv, ListTypes, Present
<1>3. EnumInv'
  BY <1>1, <1>2, EnumClosed
<1>4. CASE GiveUp
  BY <1>1, <1>3, <1>4, GiveUpStep
<1>5. CASE ~GiveUp
  <2>1. /\ listed' = [o \in Present |-> ise[o]] /\ pc' = "plan"
        /\ UNCHANGED <<kind, budget, embeds, hopeless, row, tx, plan, failures, pub>>
    BY <1>5 DEF ListAtOnce
  <2>2. DOMAIN listed' = Present /\ listed' \in [Present -> Nat]
        /\ \A o \in Present : listed'[o] = ise[o]
    BY <1>2, <2>1
  <2>3. CacheTypes'
    BY <1>1, <1>2, <2>1, <2>2, Emptiness DEF CacheInv, CacheTypes
  <2>4. Stages' /\ ListWhole'
    BY <1>1, <2>1, <2>2 DEF CacheInv, Stages, ListWhole
  <2>5. Growing'
    BY <1>1, <1>2, <2>1, <2>2 DEF CacheInv, SessionInv, Growing
  <2>6. SessionRows' /\ NoOlderSession'
    BY <2>1 DEF CacheInv, SessionInv, SessionRows, NotOlder, NoOlderSession
  <2> QED  BY <1>3, <2>3, <2>4, <2>5, <2>6 DEF CacheInv, SessionInv
<1> QED  BY <1>4, <1>5

\* A step of the cache alone, that keeps list and inventory.
Apart == UNCHANGED <<ise, changes, list, opened, moved, lied, kind, embeds, budget>>

\* What a step of the cache alone has to show.
LEMMA CacheStep ==
  ASSUME EnumInv, CacheInv, Apart, pc \notin {"list"}, pc' \in {"idle", "ask", "list", "fetch", "publish"},
         pc' = "list" => kind # "session",
         pc' \in {"fetch", "publish"} => listed' = listed /\ pc \in {"plan", "fetch", "publish"},
         listed' \in {listed, <<>>}, plan' \in Seq(DOMAIN listed'), pc' # "fetch" => plan' = <<>>,
         row' \in [Objects -> Entries], tx' \in [Objects -> Entries],
         kind = "session" => NotOlder(row') /\ NotOlder(tx'),
         NoOlderSession'
  PROVE  EnumInv' /\ CacheInv'
<1>1. EnumInv'
  BY EnumKept DEF Apart
<1>2. CacheTypes'
  BY Emptiness DEF Apart, CacheInv, CacheTypes
<1>3. Stages' /\ ListWhole'
  BY DEF Apart, CacheInv, Stages, ListWhole
<1>4. Growing'
  BY Emptiness DEF Apart, CacheInv, SessionInv, Growing
<1>5. SessionRows'
  BY DEF Apart, SessionRows, NotOlder
<1> QED  BY <1>1, <1>2, <1>3, <1>4, <1>5 DEF CacheInv, SessionInv

\* Rows that have aged are rows for the same sessions.
LEMMA AgedFacts ==
  ASSUME row \in [Objects -> Entries]
  PROVE  Aged \in [Objects -> Entries] /\ (NotOlder(row) => NotOlder(Aged))
<1> DEFINE S == {p \in Objects : row[p].there}
           ages == {row[o].age : o \in S}
           f == [o \in S |-> row[o].age]
<1>1. Ttl \in Nat
  BY CacheAssumption
<1>2. IsFiniteSet(ages)
  <2>1. IsFiniteSet(S)
    BY PagingAssumption, FS_Subset
  <2>2. f \in Surjection(S, ages)
    BY DEF Surjection
  <2> QED  BY <2>1, <2>2, FS_Surjection
<1>3. ASSUME NEW a \in Nat PROVE Older(ages, a) \in Nat
  <2>1. IsFiniteSet({b \in ages : Ttl <= b /\ b <= a})
    BY <1>2, FS_Subset
  <2>2. Cardinality({b \in ages : Ttl <= b /\ b <= a}) \in Nat
    BY <2>1, FS_CardinalityType
  <2> QED  BY <1>1, <2>2 DEF Older
<1>4. ASSUME NEW o \in Objects
      PROVE  /\ Aged[o] \in Entries
             /\ row[o].sig <= row[o].ver => Aged[o].sig <= Aged[o].ver
  <2>1. row[o] \in Entries /\ row[o].age \in Nat /\ row[o].seen \in Nat
    BY DEF Entries
  <2> DEFINE s == IF kind = "session" THEN Least(row[o].seen + 1, Ttl + 1) ELSE 0
  <2>2. s \in Nat
    BY <1>1, <2>1 DEF Least
  <2>3. Aged[o] = IF ~row[o].there THEN NoRow
                  ELSE [row[o] EXCEPT !.age = Older(ages, row[o].age), !.seen = s]
    BY DEF Aged
  <2>4. Older(ages, row[o].age) \in Nat
    BY <1>3, <2>1
  <2> HIDE DEF s, ages
  <2>5. CASE ~row[o].there
    <3>1. Aged[o] = NoRow
      BY <2>3, <2>5
    <3> QED  BY <3>1, RowTypes
  <2>6. CASE row[o].there
    <3> DEFINE e == row[o]
               a == Older(ages, row[o].age)
    <3>1. e \in Entries /\ a \in Nat /\ s \in Nat
      BY Zenon, <2>1, <2>2, <2>4
    <3>2. Aged[o] = [e EXCEPT !.age = a, !.seen = s]
      BY <2>3, <2>6
    <3> HIDE DEF e, a
    <3>3. Aged[o] \in Entries /\ Aged[o].sig = e.sig /\ Aged[o].ver = e.ver
      BY <3>1, <3>2 DEF Entries
    <3> QED  BY <3>3 DEF e
  <2> QED  BY <2>5, <2>6
<1>5. Aged \in [Objects -> Entries]
  BY <1>4 DEF Aged
<1> QED  BY <1>4, <1>5 DEF NotOlder

\* A cycle begins, or is late.
LEMMA BeginStep ==
  ASSUME EnumInv, CacheInv, BeginCycle \/ Late
  PROVE  EnumInv' /\ CacheInv'
<1>1. /\ Apart /\ pc = "idle" /\ listed' = listed /\ plan' = plan /\ plan = <<>>
      /\ row' = Aged /\ tx' = Aged /\ pub' = pub
      /\ pc' \in {"idle", "ask", "list"} /\ (pc' = "list" => kind # "session")
  BY DEF BeginCycle, Late, Apart, pagingVars, CacheInv, CacheTypes
<1>2. /\ Aged \in [Objects -> Entries] /\ (kind = "session" => NotOlder(Aged))
  BY AgedFacts DEF CacheInv, CacheTypes, SessionInv, SessionRows
<1>3. NoOlderSession'
  BY <1>1 DEF Apart, CacheInv, SessionInv, NoOlderSession
<1> QED  BY <1>1, <1>2, <1>3, CacheStep, Emptiness

\* The cache is pruned to the selection.
LEMMA FinishStep ==
  ASSUME EnumInv, CacheInv, FinishCycle
  PROVE  EnumInv' /\ CacheInv'
<1>1. /\ Apart /\ pc = "fetch" /\ pc' = "publish" /\ listed' = listed /\ plan' = <<>>
      /\ row' = Pruned /\ tx' = Pruned /\ pub' = pub
  BY DEF FinishCycle, Apart, pagingVars
<1>2. tx \in [Objects -> Entries]
  BY DEF CacheInv, CacheTypes
<1>3. ASSUME NEW o \in Objects
      PROVE  Pruned[o] \in Entries /\ (tx[o].sig <= tx[o].ver => Pruned[o].sig <= Pruned[o].ver)
  <2>1. tx[o] \in Entries
    BY <1>2
  <2>2. [tx[o] EXCEPT !.seen = 0] \in Entries /\ [tx[o] EXCEPT !.seen = 0].sig = tx[o].sig
        /\ [tx[o] EXCEPT !.seen = 0].ver = tx[o].ver
    BY <2>1 DEF Entries
  <2>3. Pruned[o] \in {[tx[o] EXCEPT !.seen = 0], tx[o], NoRow}
    BY DEF Pruned
  <2> QED  BY <2>1, <2>2, <2>3, RowTypes
<1>4. Pruned \in [Objects -> Entries]
  BY <1>3 DEF Pruned
<1>5. kind = "session" => NotOlder(Pruned)
  BY <1>3 DEF CacheInv, SessionInv, SessionRows, NotOlder
<1>6. NoOlderSession'
  BY <1>1 DEF Apart, CacheInv, SessionInv, NoOlderSession
<1> QED  BY <1>1, <1>4, <1>5, <1>6, CacheStep, Emptiness

\* A plan asks for objects of the inventory.
LEMMA TakeType ==
  ASSUME NEW S, NEW s \in Seq(S), NEW n \in Int
  PROVE  Take(s, n) \in Seq(S)
<1>1. Len(s) \in Nat /\ \A i \in 1..Len(s) : s[i] \in S
  BY LenProperties, ElementOfSeq
<1>2. Least(n, Len(s)) \in Int /\ \A i \in 1..Least(n, Len(s)) : s[i] \in S
  BY <1>1 DEF Least
<1> QED  BY <1>2, SubSeqProperties DEF Take

\* A cut takes no more than it is told.
LEMMA TakeLength ==
  ASSUME NEW S, NEW s \in Seq(S), NEW n \in Int, NEW m \in Nat, n <= m
  PROVE  Len(Take(s, n)) <= m
<1>1. Len(s) \in Nat /\ \A i \in 1..Len(s) : s[i] \in S
  BY LenProperties, ElementOfSeq
<1> DEFINE k == Least(n, Len(s))
<1>2. k \in Int /\ k <= n /\ \A i \in 1..k : s[i] \in S
  BY <1>1 DEF Least
<1>3. Take(s, n) = SubSeq(s, 1, k)
  BY DEF Take
<1> HIDE DEF k
<1>4. Len(SubSeq(s, 1, k)) = IF 1 <= k THEN k - 1 + 1 ELSE 0
  BY <1>2, SubSeqProperties
<1> QED  BY <1>2, <1>3, <1>4

\* Every plan asks for objects of the inventory, and for no more of them than
\* the ceiling and the configured budget allow.
LEMMA PlanTypes ==
  ASSUME CacheTypes, NEW cache \in [Objects -> Entries]
  PROVE  /\ DevicePlan(cache) \in Seq(DOMAIN listed)
         /\ TacacsPlan(cache) \in Seq(DOMAIN listed)
         /\ SessionPlan(cache) \in Seq(DOMAIN listed)
         /\ Len(DevicePlan(cache)) <= RequestCeiling
         /\ budget # 0 => Len(DevicePlan(cache)) <= budget
         /\ Len(TacacsPlan(cache)) <= budget
         /\ Len(SessionPlan(cache)) <= RequestCeiling /\ Len(SessionPlan(cache)) <= budget
<1> DEFINE D == DOMAIN listed
<1>1. /\ D \in SUBSET Objects /\ Selected \in SUBSET D /\ Selected \in SUBSET Objects
      /\ IsFiniteSet(Selected) /\ Selected \in SUBSET Nat
  <2>1. D \in SUBSET Objects /\ Selected \in SUBSET D
    BY DEF CacheTypes, Selected, Smallest
  <2> QED  BY <2>1, PagingAssumption, FS_Subset
<1>2. budget \in Nat /\ RequestCeiling \in Nat /\ Ttl \in Nat \ {0}
  BY CacheAssumption DEF CacheTypes
<1>3. ASSUME NEW S \in SUBSET Selected PROVE InOrder(cache, S) \in Seq(D)
  BY <1>1, AgesOrdered, SeqMonotonic
<1>4. ASSUME NEW S \in SUBSET Selected PROVE ById(S) \in Seq(D)
  <2>1. IsFiniteSet(S) /\ S \in SUBSET Nat /\ S \subseteq D
    BY <1>1, FS_Subset
  <2>2. ById(S) \in Seq(S)
    BY <2>1, IdsOrdered
  <2> QED  BY <2>1, <2>2, SeqMonotonic
<1> HIDE DEF D
<1>5. TacacsPlan(cache) \in Seq(D) /\ Len(TacacsPlan(cache)) <= budget
  <2>1. {o \in Selected : ~cache[o].there \/ cache[o].age >= Ttl} \in SUBSET Selected
    OBVIOUS
  <2> QED  BY <1>2, <1>3, <2>1, TakeType, TakeLength DEF TacacsPlan
<1>6. /\ DevicePlan(cache) \in Seq(D) /\ Len(DevicePlan(cache)) <= RequestCeiling
      /\ budget # 0 => Len(DevicePlan(cache)) <= budget
  <2> DEFINE stale == {o \in Selected : ~cache[o].there \/ cache[o].age > Ttl}
             n == IF budget = 0 THEN Cardinality(Uncached(cache)) + RotationTarget ELSE budget
  <2>1. InOrder(cache, stale) \in Seq(D)
    BY <1>3
  <2>2. Uncached(cache) \in SUBSET Selected
    BY DEF Uncached
  <2>3. Cardinality(Uncached(cache)) \in Nat /\ Cardinality(Selected) \in Nat
    BY <1>1, <2>2, FS_Subset, FS_CardinalityType
  <2>4. RotationTarget \in Int
    BY <1>2, <2>3 DEF RotationTarget, CeilDiv
  <2>5. n \in Int
    BY <1>2, <2>3, <2>4
  <2>6. DevicePlan(cache) = Take(InOrder(cache, stale), Least(RequestCeiling, n))
    BY DEF DevicePlan
  <2>7. /\ Least(RequestCeiling, n) \in Int /\ Least(RequestCeiling, n) <= RequestCeiling
        /\ budget # 0 => Least(RequestCeiling, n) <= budget
    BY <1>2, <2>5 DEF Least
  <2> HIDE DEF n, stale
  <2> QED  BY <1>2, <2>1, <2>6, <2>7, TakeType, TakeLength
<1>7. /\ SessionPlan(cache) \in Seq(D) /\ Len(SessionPlan(cache)) <= RequestCeiling
      /\ Len(SessionPlan(cache)) <= budget
  <2> DEFINE mandatory == Mandatory(cache)
             rest == Selected \ mandatory
             expired == {o \in rest : cache[o].age >= Ttl}
             turn == {o \in rest : Cardinality({p \in rest : Before(cache, p, o)}) < RotationTarget}
             refresh == ById(mandatory) \o InOrder(cache, expired)
                                        \o InOrder(cache, turn \ expired)
  <2>1. /\ mandatory \in SUBSET Selected /\ expired \in SUBSET Selected
        /\ turn \ expired \in SUBSET Selected
    BY DEF Mandatory
  <2>2. SessionPlan(cache) = Take(refresh, Least(RequestCeiling, budget))
    BY DEF SessionPlan
  <2> HIDE DEF mandatory, expired, turn
  <2>3. ById(mandatory) \in Seq(D) /\ InOrder(cache, expired) \in Seq(D)
        /\ InOrder(cache, turn \ expired) \in Seq(D)
    BY <1>3, <1>4, <2>1
  <2>4. refresh \in Seq(D)
    BY <2>3, ConcatProperties
  <2>5. /\ Least(RequestCeiling, budget) \in Int /\ Least(RequestCeiling, budget) <= RequestCeiling
        /\ Least(RequestCeiling, budget) <= budget
    BY <1>2 DEF Least
  <2> HIDE DEF refresh
  <2> QED  BY <1>2, <2>2, <2>4, <2>5, TakeType, TakeLength
<1> QED  BY <1>5, <1>6, <1>7 DEF D

\* Invalid rows are dropped, embedded details taken, the rest planned.
LEMMA PlanStep ==
  ASSUME EnumInv, CacheInv, Plan
  PROVE  EnumInv' /\ CacheInv'
<1> DEFINE cache == WithEmbedded(Readable)
<1>1. /\ Apart /\ pc = "plan" /\ pc' = "fetch" /\ listed' = listed /\ pub' = pub
      /\ row' = Readable /\ tx' = cache
      /\ plan' \in {DevicePlan(cache), SessionPlan(cache), TacacsPlan(cache)}
  BY DEF Plan, Apart, pagingVars
<1>2. CacheTypes /\ tx \in [Objects -> Entries] /\ listed \in [DOMAIN listed -> Nat]
  BY DEF CacheInv, CacheTypes
<1>3. ASSUME NEW o \in Objects
      PROVE  Readable[o] \in Entries /\ (tx[o].sig <= tx[o].ver => Readable[o].sig <= Readable[o].ver)
  <2>1. tx[o] \in Entries /\ Readable[o] \in {tx[o], NoRow}
    BY <1>2 DEF Readable
  <2> QED  BY <2>1, RowTypes
<1>4. ASSUME NEW o \in Objects
      PROVE  cache[o] \in Entries /\ (kind = "session" => cache[o] = Readable[o])
  <2>1. cache[o] = IF embeds /\ o \in DOMAIN listed THEN Row(listed[o], 0) ELSE Readable[o]
    BY DEF WithEmbedded
  <2>2. kind = "session" => ~embeds
    BY DEF CacheInv, Stages
  <2>3. o \in DOMAIN listed => listed[o] \in Nat
    BY <1>2
  <2>4. o \in DOMAIN listed => Row(listed[o], 0) \in Entries
    BY <2>3, RowTypes
  <2> QED  BY <1>3, <2>1, <2>2, <2>4
<1>5. Readable \in [Objects -> Entries] /\ cache \in [Objects -> Entries]
  BY <1>3, <1>4 DEF Readable, WithEmbedded
<1> HIDE DEF cache
<1>6. kind = "session" => NotOlder(Readable) /\ NotOlder(cache)
  BY <1>3, <1>4 DEF CacheInv, SessionInv, SessionRows, NotOlder
<1>7. plan' \in Seq(DOMAIN listed)
  BY <1>1, <1>2, <1>5, PlanTypes
<1>8. NoOlderSession'
  BY <1>1 DEF Apart, CacheInv, SessionInv, NoOlderSession
<1> QED  BY <1>1, <1>5, <1>6, <1>7, <1>8, CacheStep

-----------------------------------------------------------------------------
(* The requests for details *)

\* A plan without the request that was answered.
LEMMA Shortened ==
  ASSUME NEW S, NEW s \in Seq(S), s # <<>>
  PROVE  /\ Head(s) \in S /\ Tail(s) \in Seq(S)
         /\ \A i \in 1..Len(s) : s[i] \in S /\ RemoveAt(s, i) \in Seq(S)
<1>1. Head(s) \in S /\ Tail(s) \in Seq(S)
  BY HeadTailProperties
<1>2. Len(s) \in Nat /\ \A i \in 1..Len(s) : s[i] \in S
  BY LenProperties, ElementOfSeq
<1>3. ASSUME NEW i \in 1..Len(s) PROVE RemoveAt(s, i) \in Seq(S)
  <2>1. /\ i - 1 \in Int /\ i + 1 \in Int /\ Len(s) \in Int
        /\ \A j \in 1..(i - 1) : s[j] \in S
        /\ \A j \in (i + 1)..Len(s) : s[j] \in S
    BY <1>2
  <2>2. SubSeq(s, 1, i - 1) \in Seq(S) /\ SubSeq(s, i + 1, Len(s)) \in Seq(S)
    BY <2>1, SubSeqProperties
  <2> QED  BY <2>2, ConcatProperties DEF RemoveAt
<1> QED  BY <1>1, <1>2, <1>3

\* A request without an answer changes nothing of the cache.
LEMMA RefusedStep ==
  ASSUME EnumInv, CacheInv, pc = "fetch", FetchKeeps, UNCHANGED <<row, tx>>,
         plan' \in Seq(DOMAIN listed)
  PROVE  EnumInv' /\ CacheInv'
<1>1. Apart /\ pc' = "fetch" /\ listed' = listed /\ pub' = pub /\ row' = row /\ tx' = tx
  BY DEF FetchKeeps, Apart
<1>2. /\ row \in [Objects -> Entries] /\ tx \in [Objects -> Entries]
      /\ (kind = "session" => NotOlder(row) /\ NotOlder(tx))
  BY DEF CacheInv, CacheTypes, SessionInv, SessionRows
<1>3. NoOlderSession'
  BY <1>1 DEF Apart, CacheInv, SessionInv, NoOlderSession
<1> QED  BY <1>1, <1>2, <1>3, CacheStep

\* A detail is at least as new as the list it is stored for.
LEMMA StoredStep ==
  ASSUME EnumInv, CacheInv, pc = "fetch", FetchKeeps,
         NEW o \in DOMAIN listed, Answers(o), NEW s \in Nat, s \in {0, listed[o]},
         tx' = Put(o, s), row' \in {row, tx'}, plan' \in Seq(DOMAIN listed)
  PROVE  EnumInv' /\ CacheInv'
<1>1. Apart /\ pc' = "fetch" /\ listed' = listed /\ pub' = pub
  BY DEF FetchKeeps, Apart
<1>2. /\ row \in [Objects -> Entries] /\ tx \in [Objects -> Entries] /\ o \in Objects
      /\ (kind = "session" => NotOlder(row) /\ NotOlder(tx))
      /\ ise \in [Objects -> Nat]
  BY DEF CacheInv, CacheTypes, SessionInv, SessionRows, EnumInv, ListTypes
<1>3. kind = "session" => s <= ise[o]
  BY <1>2 DEF CacheInv, SessionInv, Growing, Answers
<1>4. Row(ise[o], s) \in Entries /\ Row(ise[o], s).sig = s /\ Row(ise[o], s).ver = ise[o]
  BY <1>2, RowTypes
<1>5. /\ tx' \in [Objects -> Entries] /\ tx'[o] = Row(ise[o], s)
      /\ \A p \in Objects : p # o => tx'[p] = tx[p]
  BY <1>2, <1>4 DEF Put
<1>6. kind = "session" => NotOlder(tx')
  BY <1>2, <1>3, <1>4, <1>5 DEF NotOlder
<1>7. row' \in [Objects -> Entries] /\ (kind = "session" => NotOlder(row'))
  BY <1>2, <1>5, <1>6
<1>8. NoOlderSession'
  BY <1>1 DEF Apart, CacheInv, SessionInv, NoOlderSession
<1> QED  BY <1>1, <1>5, <1>6, <1>7, <1>8, CacheStep

\* Every request for a detail, answered or not.
LEMMA FetchStep ==
  ASSUME EnumInv, CacheInv, Fetch
  PROVE  EnumInv' /\ CacheInv'
<1>1. plan \in Seq(DOMAIN listed) /\ listed \in [DOMAIN listed -> Nat]
  BY DEF CacheInv, CacheTypes
<1>2. pc = "fetch" /\ plan # <<>> /\ FetchKeeps
  BY DEF Fetch, FetchDevice, RefuseDevice, FetchUser, RefuseUser, FetchPolicy, RefusePolicy,
     FetchSession, RefuseSession, PutOpen, KeepCached, Asking
<1>3. /\ Head(plan) \in DOMAIN listed /\ Tail(plan) \in Seq(DOMAIN listed)
      /\ \A i \in 1..Len(plan) : plan[i] \in DOMAIN listed /\ RemoveAt(plan, i) \in Seq(DOMAIN listed)
  BY <1>1, <1>2, Shortened
<1>4. AfterFailure \in Seq(DOMAIN listed)
  BY <1>3, EmptySeq DEF AfterFailure
<1>5. NextRequests \in SUBSET (1..Len(plan))
  <2>1. Len(plan) \in Nat /\ Workers \in Nat
    BY <1>1, LenProperties, CacheAssumption
  <2> QED  BY <2>1 DEF NextRequests, Least
<1>6. CASE FetchDevice
  <2>1. /\ Answers(Head(plan)) /\ tx' = Put(Head(plan), 0) /\ row' = tx' /\ plan' = Tail(plan)
        /\ kind # "session"
    BY <1>6 DEF FetchDevice, Asking
  <2> QED  BY <1>2, <1>3, <2>1, StoredStep
<1>7. CASE FetchUser \/ FetchPolicy
  <2>1. /\ Answers(Head(plan)) /\ tx' = Put(Head(plan), 0) /\ row' = row /\ plan' = Tail(plan)
        /\ kind # "session"
    BY <1>7 DEF FetchUser, FetchPolicy, PutOpen, Asking
  <2> QED  BY <1>2, <1>3, <2>1, StoredStep
<1>8. CASE RefuseDevice \/ RefuseUser \/ RefusePolicy
  <2>1. plan' = AfterFailure /\ UNCHANGED <<row, tx>>
    BY <1>8 DEF RefuseDevice, RefuseUser, RefusePolicy, KeepCached
  <2> QED  BY <1>2, <1>4, <2>1, RefusedStep
<1>9. CASE FetchSession
  <2>1. PICK i \in NextRequests :
          /\ Answers(plan[i])
          /\ tx' = Put(plan[i], Signature(plan[i]))
          /\ plan' = RemoveAt(plan, i)
    BY <1>9 DEF FetchSession
  <2>2. plan[i] \in DOMAIN listed /\ plan' \in Seq(DOMAIN listed) /\ listed[plan[i]] \in Nat
    BY <1>1, <1>3, <1>5, <2>1
  <2>3. row' = row
    BY <1>9 DEF FetchSession
  <2>4. Signature(plan[i]) \in Nat /\ Signature(plan[i]) \in {0, listed[plan[i]]}
    BY <2>2 DEF Signature
  <2> QED  BY <1>2, <2>1, <2>2, <2>3, <2>4, StoredStep
<1>10. CASE RefuseSession
  <2>1. plan' \in Seq(DOMAIN listed) /\ UNCHANGED <<row, tx>>
    BY <1>3, <1>5, <1>10 DEF RefuseSession
  <2> QED  BY <1>2, <2>1, RefusedStep
<1> QED  BY <1>6, <1>7, <1>8, <1>9, <1>10 DEF Fetch

-----------------------------------------------------------------------------
(* Publication, failure and the changes of ISE *)

\* What is published of a session with an id was stored for the session of the list.
LEMMA PublishStep ==
  ASSUME EnumInv, CacheInv,
         PublishInventory \/ PublishDevices \/ PublishTacacs \/ PublishSessions
  PROVE  EnumInv' /\ CacheInv'
<1>1. pc = "publish" /\ list = NoList
  BY DEF PublishInventory, PublishDevices, PublishTacacs, PublishSessions, CacheInv, Stages
<1>2. CASE GiveUp /\ UNCHANGED pagingVars
  <2>1. EnumInv'
    BY <1>2, EnumKept DEF pagingVars, GiveUp
  <2> QED  BY <1>1, <1>2, <2>1, GiveUpStep DEF pagingVars
<1>3. CASE ~(GiveUp /\ UNCHANGED pagingVars)
  <2>1. PICK snapshot : /\ Publishes(snapshot)
                        /\ kind = "session" => snapshot = Show(Usable)
    <3>1. CASE PublishInventory
      BY <3>1 DEF PublishInventory
    <3>2. CASE PublishDevices
      BY <3>2 DEF PublishDevices
    <3>3. CASE PublishTacacs
      BY <3>3 DEF PublishTacacs
    <3>4. CASE PublishSessions
      BY <1>3, <3>4 DEF PublishSessions
    <3> QED  BY <3>1, <3>2, <3>3, <3>4
  <2>2. /\ Apart /\ pc' = "idle" /\ listed' = <<>> /\ row' = row /\ tx' = tx /\ plan' = <<>>
        /\ pub' = snapshot
    BY <1>1, <2>1 DEF Publishes, Apart, pagingVars, CacheInv, CacheTypes
  <2>3. /\ row \in [Objects -> Entries] /\ tx \in [Objects -> Entries]
        /\ (kind = "session" => NotOlder(row) /\ NotOlder(tx))
        /\ DOMAIN listed \in SUBSET Objects
    BY DEF CacheInv, CacheTypes, SessionInv, SessionRows
  <2>4. NoOlderSession'
    <3>1. SUFFICES ASSUME kind = "session", NEW o \in DOMAIN Show(Usable) \ Anonymous
                   PROVE  Show(Usable)[o].ver >= Show(Usable)[o].sig
      BY <2>1, <2>2 DEF NoOlderSession, Apart
    <3>2. o \in Usable /\ Show(Usable)[o] = [ver |-> tx[o].ver, sig |-> listed[o]]
      BY <3>1 DEF Show
    <3>3. tx[o].sig = listed[o] /\ o \in Objects
      BY <2>3, <3>1, <3>2 DEF Usable, Selected, Smallest, Signature
    <3>4. tx[o].sig <= tx[o].ver /\ tx[o].ver \in Nat /\ tx[o].sig \in Nat
      BY <2>3, <3>1, <3>3 DEF NotOlder, Entries
    <3> QED  BY <3>2, <3>3, <3>4
  <2> QED  BY <1>1, <2>2, <2>3, <2>4, CacheStep, Emptiness
<1> QED  BY <1>2, <1>3

\* A cycle that fails at any place.
LEMMA AbortStep ==
  ASSUME EnumInv, CacheInv, Abort
  PROVE  EnumInv' /\ CacheInv'
<1>1. /\ GiveUp /\ list' = NoList /\ ise' = ise /\ changes' = changes /\ opened' = opened
      /\ moved' = moved /\ lied' = lied
  BY DEF Abort
<1>2. EnumInv'
  BY <1>1, EnumClosed DEF EnumInv, ListTypes
<1> QED  BY <1>1, <1>2, GiveUpStep

\* ISE changes under an enumeration, which is no longer taken for whole, or
\* under the details, whose versions only grow.
LEMMA IseChanges ==
  ASSUME EnumInv, CacheInv, IseStep
  PROVE  EnumInv' /\ CacheInv'
<1>1. /\ changes' = changes + 1 /\ list' = list /\ opened' = opened /\ lied' = lied
      /\ moved' = (moved \/ list.st = "paging") /\ UNCHANGED cacheVars
  BY DEF IseStep, Change
<1>2. ise \in [Objects -> Nat] /\ changes \in Nat
  BY DEF EnumInv, ListTypes
<1>3. PICK o \in Objects : \/ ise' = [ise EXCEPT ![o] = changes + 2]
                           \/ ise' = [ise EXCEPT ![o] = 0]
  BY DEF IseStep, Change
<1>4. /\ ise' \in [Objects -> Nat] /\ ise'[o] \in {0, changes + 2}
      /\ \A p \in Objects : p # o => ise'[p] = ise[p]
  BY <1>2, <1>3
<1>5. ListTypes'
  <2>1. (moved \/ list.st = "paging") \in BOOLEAN
    OBVIOUS
  <2> QED  BY <1>1, <1>2, <1>4, <2>1 DEF EnumInv, ListTypes
<1>6. RowsOpened' /\ RowsCounted' /\ RowsInTurn'
  BY <1>1 DEF EnumInv, RowsOpened, RowsCounted, RowsInTurn, cacheVars
<1>7. CacheTypes' /\ Stages' /\ NoOlderSession' /\ SessionRows'
  BY <1>1 DEF cacheVars, CacheInv, CacheTypes, Stages, SessionInv, SessionRows, NotOlder,
     NoOlderSession
<1>8. ListWhole'
  BY <1>1 DEF cacheVars, CacheInv, ListWhole
<1>9. Growing'
  <2>1. \A p \in Objects : ise'[p] <= changes' + 1
    <3>1. ASSUME NEW p \in Objects PROVE ise'[p] <= changes' + 1
      <4>1. ise[p] <= changes + 1 /\ ise[p] \in Nat
        BY <1>2 DEF CacheInv, SessionInv, Growing
      <4> QED  BY <1>1, <1>2, <1>4, <4>1
    <3> QED  BY <3>1
  <2>2. ASSUME kind = "session", NEW p \in DOMAIN listed
        PROVE  listed[p] <= changes' + 1 /\ (ise'[p] = 0 \/ listed[p] <= ise'[p])
    <3>1. /\ p \in Objects /\ listed[p] \in Nat /\ listed[p] <= changes + 1
          /\ (ise[p] = 0 \/ listed[p] <= ise[p])
      BY <2>2 DEF CacheInv, CacheTypes, SessionInv, Growing
    <3> QED  BY <1>1, <1>2, <1>4, <3>1
  <2> QED  BY <1>1, <2>1, <2>2 DEF Growing, cacheVars
<1> QED  BY <1>5, <1>6, <1>7, <1>8, <1>9 DEF EnumInv, CacheInv, SessionInv

-----------------------------------------------------------------------------
\* The initial states satisfy the invariant.
LEMMA DetailInitInv == Init => DetailInv
<1> SUFFICES ASSUME Init PROVE EnumInv /\ CacheInv
  BY DEF DetailInv
<1>1. ListTypes
  <2>1. ise \in [Objects -> {0, 1}] /\ changes = 0 /\ list = NoList /\ opened = Present
        /\ moved = FALSE /\ lied = FALSE
    BY DEF Init
  <2>2. ise \in [Objects -> Nat]
    BY <2>1
  <2>3. Present \in SUBSET Objects
    BY DEF Present
  <2> QED  BY <2>1, <2>2, <2>3, FailedList DEF ListTypes
<1>2. RowsOpened /\ RowsCounted /\ RowsInTurn
  BY FailedList DEF Init, RowsOpened, RowsCounted, RowsInTurn
<1>3. /\ row \in [Objects -> Entries] /\ (kind = "session" => NotOlder(row))
  <2>1. Row(0, 0) \in Entries /\ Row(1, 0) \in Entries /\ Row(1, 1) \in Entries
        /\ Row(0, 0).sig <= Row(0, 0).ver /\ Row(1, 1).sig <= Row(1, 1).ver
        /\ Row(1, 0).sig <= Row(1, 0).ver
    BY RowTypes
  <2>2. \/ row = [o \in Objects |-> NoRow]
        \/ row = [o \in Objects |-> Row(0, 0)]
        \/ row = [o \in Objects |-> Row(1, IF kind = "session" /\ o \notin Anonymous
                                          THEN 1 ELSE 0)]
    BY DEF Init
  <2>3. \A o \in Objects : row[o] \in {NoRow, Row(0, 0), Row(1, 0), Row(1, 1)}
    BY <2>2
  <2>4. row \in [Objects -> Entries]
    BY <2>1, <2>2, <2>3, RowTypes
  <2> QED  BY <2>1, <2>3, <2>4, RowTypes DEF NotOlder
<1>4. CacheTypes
  BY <1>3, Emptiness, CacheAssumption DEF Init, CacheTypes
<1>5. Stages /\ ListWhole
  BY DEF Init, Stages, ListWhole
<1>6. Growing /\ NoOlderSession
  BY Emptiness DEF Init, Growing, NoOlderSession
<1>7. SessionRows
  BY <1>3 DEF Init, SessionRows
<1> QED  BY <1>1, <1>2, <1>4, <1>5, <1>6, <1>7 DEF EnumInv, CacheInv, SessionInv

\* Every step keeps the invariant.
LEMMA DetailNextInv == DetailInv /\ [Next]_vars => DetailInv'
<1> SUFFICES ASSUME EnumInv, CacheInv, [Next]_vars PROVE EnumInv' /\ CacheInv'
  BY DEF DetailInv
<1>1. CASE UNCHANGED vars
  <2>1. EnumInv'
    BY <1>1, EnumKept DEF vars, pagingVars, cacheVars
  <2>2. CacheInv'
    BY <1>1 DEF vars, pagingVars, cacheVars, CacheInv, CacheTypes, Stages, ListWhole,
       SessionInv, Growing, SessionRows, NotOlder, NoOlderSession
  <2> QED  BY <2>1, <2>2
<1>2. CASE Cycle
  BY <1>2, BeginStep, ReadPagesStep, ListedStep, PreflightStep, NoSessionsStep, ListAtOnceStep,
     PlanStep, FetchStep, FinishStep, PublishStep, AbortStep DEF Cycle
<1>3. CASE Late
  BY <1>3, BeginStep
<1>4. CASE IseStep
  BY <1>4, IseChanges
<1> QED  BY <1>1, <1>2, <1>3, <1>4 DEF Next

\* What a REST collector publishes speaks of what ISE holds: an inventory that
\* did not move while it was read is accepted whole or not at all, whatever
\* the server answers (get_ers compares with the declared total), and where ISE
\* lists session IDs a session is never shown with the detail of an older one
\* (mnt_active_posture stores the signature of the list with the detail).  Of an
\* endpoint without session IDs, a member of Anonymous, it says nothing: the
\* signature is the same for all its sessions, and the cached detail of an
\* older one is published until the rotation renews it.
THEOREM PublicationIsFaithful == Spec => []PublicationFaithful
<1>1. DetailInv => PublicationFaithful
  BY DEF DetailInv, CacheInv, SessionInv, PublicationFaithful
<1> QED  BY <1>1, DetailInitInv, DetailNextInv, PTL DEF Spec

-----------------------------------------------------------------------------
(* Inventories and details: types and bounds *)

PageBounds ==
  /\ changes \in 0..MaxChanges /\ faults \in 0..MaxFaults
  /\ list.rows \in Seq(Rows) /\ Len(list.rows) <= MaxRows
  /\ list.total \in 0..Cardinality(Objects)
  /\ list.next \in 0..(Cardinality(Objects) + 1)
  /\ list.pages \in 0..MaxPages
  /\ list.visited \subseteq 1..(Cardinality(Objects) + 1)

Young(rows) ==
  \A o \in Objects : rows[o].age \in 0..MaxAge /\ rows[o].seen \in 0..(Ttl + 1)

\* Only while details are asked for does the cycle see other rows than the
\* committed ones, and only then is something planned.
CacheBounds ==
  /\ Young(row) /\ Young(tx) /\ (pc # "fetch" => tx = row)
  /\ DOMAIN pub \subseteq Objects
  /\ failures \in 0..FailureLimit /\ (plan # <<>> => failures < FailureLimit)
  /\ kind \in {"user", "policy"} => budget \in 1..RequestCeiling
  /\ pc \in {"list1", "plan", "fetch"} => kind \notin {"cert", "name"}
  /\ Len(plan) <= RequestCeiling /\ (budget # 0 => Len(plan) <= budget)

Bounds == PageBounds /\ CacheBounds

\* The bounds complete the types of the invariant.
LEMMA BoundsTypes == DetailInv /\ Bounds => TypeOK
<1> SUFFICES ASSUME DetailInv, Bounds PROVE TypeOK
  OBVIOUS
<1>1. ise \in [Objects -> Versions \cup {0}]
  <2>1. ise \in [Objects -> Nat] /\ \A o \in Objects : ise[o] <= changes + 1
    BY DEF DetailInv, EnumInv, ListTypes, CacheInv, SessionInv, Growing
  <2>2. changes \in 0..MaxChanges /\ MaxChanges \in Nat
    BY PagingAssumption DEF Bounds, PageBounds
  <2>3. \A o \in Objects : ise[o] \in Versions \cup {0}
    BY <2>1, <2>2 DEF Versions
  <2> QED  BY <2>1, <2>3
<1>2. list.st \in {"off", "paging", "ok", "failed"}
  BY DEF DetailInv, EnumInv, ListTypes, Lists
<1>3. PagingTypeOK
  BY <1>1, <1>2 DEF PagingTypeOK, Bounds, PageBounds, DetailInv, EnumInv, ListTypes
<1> QED  BY <1>3 DEF TypeOK, DetailInv, CacheInv, CacheTypes, Bounds, CacheBounds, Young

-----------------------------------------------------------------------------
\* A sequence of elements of another set is a sequence over that one.
LEMMA Narrowed ==
  ASSUME NEW S, NEW T, NEW s \in Seq(S), \A i \in 1..Len(s) : s[i] \in T
  PROVE  s \in Seq(T)
<1>1. Len(s) \in Nat /\ s \in [1..Len(s) -> S]
  BY LenProperties
<1>2. s \in [1..Len(s) -> T]
  BY <1>1
<1> QED  BY <1>1, <1>2, FunctionIsSeq

\* A page that is linked exists: there is no more of them than objects.
LEMMA Linked ==
  ASSUME NEW p \in Nat, NEW n \in Nat, n > p * PageSize
  PROVE  p + 1 <= n
<1>1. PageSize \in Nat \ {0}
  BY PagingAssumption
<1>2. PageSize - 1 \in Nat /\ p * (PageSize - 1) \in Nat
  BY <1>1, Products
<1>3. p * PageSize = p * (PageSize - 1) + p
  BY <1>1
<1>4. p * PageSize \in Nat
  BY <1>1, Products
<1> HIDE DEF Products
<1> QED  BY <1>2, <1>3, <1>4

\* Any reply holds rows with versions ISE has given, and links to a page
\* there may be.
LEMMA ReplyBounds ==
  ASSUME DetailInv, PageBounds, NEW p \in Nat \ {0}, NEW r \in Replies(p)
  PROVE  /\ r.rows \in Seq(Rows) /\ Len(r.rows) \in Nat
         /\ r.next \in 0..(Cardinality(Objects) + 1)
         /\ Len(Listing) \in 0..Cardinality(Objects)
         /\ faults + Cost(p, r) \in 0..MaxFaults
<1> DEFINE t == TrueReply(p)
           m == (p - 1) * PageSize
           R == [id : Present, ver : Nat]
           N == Cardinality(Objects)
<1>1. ise \in [Objects -> Nat] /\ \A o \in Objects : ise[o] <= changes + 1
  BY DEF DetailInv, EnumInv, ListTypes, CacheInv, SessionInv, Growing
<1>2. changes \in 0..MaxChanges /\ MaxChanges \in Nat /\ N \in Nat /\ PageSize \in Nat \ {0}
      /\ faults \in 0..MaxFaults /\ MaxFaults \in Nat /\ IsFiniteSet(Objects)
  BY PagingAssumption, FS_CardinalityType DEF PageBounds
<1>3. /\ Present \in SUBSET Objects /\ Len(Listing) \in Nat /\ Len(Listing) = Cardinality(Present)
      /\ \A i \in 1..Len(Listing) : Listing[i] \in R
  BY <1>1, ListingFacts
<1>4. Len(Listing) \in 0..N
  BY <1>2, <1>3, FS_Subset
<1>5. ASSUME NEW i \in 1..Len(Listing) PROVE Listing[i] \in Rows
  <2>1. Listing[i].id \in Present /\ Listing[i].ver = ise[Listing[i].id]
    <3>1. Listing = [j \in 1..Len(ById(Present)) |->
                       [id |-> ById(Present)[j], ver |-> ise[ById(Present)[j]]]]
      BY DEF Listing
    <3>2. Len(ById(Present)) = Len(Listing)
      <4>1. Present \in SUBSET Nat /\ IsFiniteSet(Present)
        BY <1>1, ListingFacts, PagingAssumption
      <4> QED  BY <1>3, <4>1, IdsOrdered
    <3>3. Listing[i] \in R
      BY <1>3
    <3> QED  BY <3>1, <3>2, <3>3
  <2>2. Listing[i].id \in Objects /\ Listing[i].ver \in Versions
    BY <1>1, <1>2, <1>3, <2>1 DEF Present, Versions
  <2>3. Listing[i] \in R
    BY <1>3
  <2> QED  BY <2>2, <2>3 DEF Rows
<1>6. /\ t.rows \in Seq(R) /\ DOMAIN t = {"rows", "next"}
      /\ t.next = IF Len(Listing) > p * PageSize THEN p + 1 ELSE 0
      /\ \A i \in 1..Len(t.rows) : t.rows[i] = Listing[m + i]
      /\ m \in Nat
      /\ Len(t.rows) = IF m < Least(p * PageSize, Len(Listing))
                       THEN Least(p * PageSize, Len(Listing)) - m ELSE 0
      /\ p * PageSize \in Nat
  BY <1>1, TruePage
<1>7. t.rows \in Seq(Rows) /\ Len(t.rows) \in Nat /\ \A i \in 1..Len(t.rows) : t.rows[i] \in Rows
  <2>1. ASSUME NEW i \in 1..Len(t.rows) PROVE m + i \in 1..Len(Listing)
    BY <1>3, <1>6 DEF Least
  <2>2. \A i \in 1..Len(t.rows) : t.rows[i] \in Rows
    BY <1>5, <1>6, <2>1
  <2> QED  BY <1>6, <2>2, Narrowed, LenProperties
<1>8. t.next \in 0..(N + 1)
  <2>1. CASE Len(Listing) > p * PageSize
    <3>1. p + 1 <= Len(Listing)
      BY <1>3, <2>1, Linked
    <3>2. t.next = p + 1
      BY <1>6, <2>1
    <3> QED  BY <1>2, <1>4, <3>1, <3>2
  <2>2. CASE ~(Len(Listing) > p * PageSize)
    <3>1. t.next = 0
      BY <1>6, <2>2
    <3> QED  BY <1>2, <3>1
  <2> QED  BY <2>1, <2>2
<1>9. t.rows # <<>> => Front(t.rows) \in Seq(Rows)
  <2>1. \A i \in 1..(Len(t.rows) - 1) : t.rows[i] \in Rows
    BY <1>7
  <2> QED  BY <1>7, <2>1, SubSeqProperties DEF Front
<1>10. \/ r = t
       \/ /\ faults # MaxFaults
          /\ \/ r = [t EXCEPT !.next = 0] \/ r = [t EXCEPT !.next = 1]
             \/ r = [t EXCEPT !.rows = IF @ = <<>> THEN @ ELSE Front(@)]
  BY DEF Replies
<1>11. faults + Cost(p, r) \in 0..MaxFaults
  BY <1>2, <1>10 DEF Cost
<1> HIDE DEF t, N
<1>12. r.rows \in Seq(Rows) /\ r.next \in 0..(N + 1)
  <2>1. CASE r = t
    BY <1>7, <1>8, <2>1
  <2>2. CASE r = [t EXCEPT !.next = 0] \/ r = [t EXCEPT !.next = 1]
    <3>1. r.rows = t.rows /\ r.next \in {0, 1}
      BY <1>6, <2>2
    <3>2. 0 \in 0..(N + 1) /\ 1 \in 0..(N + 1)
      BY <1>2
    <3> QED  BY <1>7, <3>1, <3>2
  <2>3. CASE r = [t EXCEPT !.rows = IF @ = <<>> THEN @ ELSE Front(@)]
    <3>1. r.next = t.next /\ r.rows = IF t.rows = <<>> THEN t.rows ELSE Front(t.rows)
      BY <1>6, <2>3
    <3> QED  BY <3>1, <1>7, <1>8, <1>9
  <2> QED  BY <1>10, <2>1, <2>2, <2>3
<1> QED  BY <1>4, <1>11, <1>12, LenProperties DEF N

\* An enumeration that was given up, or that there is not.
LEMMA NoListBounds ==
  ASSUME PageBounds, changes' = changes, faults' \in 0..MaxFaults, list' \in {NoList, ListFailed}
  PROVE  PageBounds'
<1>1. /\ list'.rows = <<>> /\ list'.total = 0 /\ list'.next = 0 /\ list'.pages = 0
      /\ list'.visited = {}
  BY DEF NoList, ListFailed
<1>2. <<>> \in Seq(Rows) /\ Len(<<>>) = 0 /\ Cardinality(Objects) \in Nat
  BY EmptySeq, PagingAssumption, FS_CardinalityType
<1> QED  BY <1>1, <1>2, PagingAssumption DEF PageBounds

\* The steps of an enumeration.
LEMMA ReadBounds ==
  ASSUME DetailInv, PageBounds, ReadPages
  PROVE  PageBounds'
<1> DEFINE N == Cardinality(Objects)
<1>1. /\ list \in Lists /\ MaxRows \in Nat /\ MaxPages \in Nat \ {0} /\ N \in Nat
      /\ faults \in 0..MaxFaults /\ MaxFaults \in Nat /\ changes' = changes
  BY PagingAssumption, FS_CardinalityType
     DEF DetailInv, EnumInv, ListTypes, PageBounds, ReadPages, OpenList, RefuseLink, FollowLink,
         CloseList
<1>2. /\ list.st \in {"off", "paging", "ok", "failed"} /\ list.rows \in Seq(ListRows)
      /\ list.total \in Nat /\ list.next \in Nat /\ list.pages \in Nat /\ list.visited \in SUBSET Nat
      /\ DOMAIN list = {"st", "rows", "total", "next", "pages", "visited"}
  BY <1>1 DEF Lists
<1>3. CASE OpenList
  <2>1. CASE Unanswered
    BY <1>1, <2>1, NoListBounds DEF Unanswered
  <2>2. CASE \E r \in Replies(1) :
               /\ faults' = faults + Cost(1, r)
               /\ list' = IF Len(r.rows) > MaxRows \/ Len(Listing) > MaxRows
                          THEN ListFailed
                          ELSE [st |-> "paging", rows |-> r.rows,
                                total |-> Len(Listing), next |-> r.next,
                                pages |-> 1, visited |-> {}]
    <3>1. PICK r \in Replies(1) :
               /\ faults' = faults + Cost(1, r)
               /\ list' = IF Len(r.rows) > MaxRows \/ Len(Listing) > MaxRows
                          THEN ListFailed
                          ELSE [st |-> "paging", rows |-> r.rows,
                                total |-> Len(Listing), next |-> r.next,
                                pages |-> 1, visited |-> {}]
      BY <2>2
    <3>2. /\ r.rows \in Seq(Rows) /\ Len(r.rows) \in Nat /\ r.next \in 0..(N + 1)
          /\ Len(Listing) \in 0..N /\ faults' \in 0..MaxFaults
      BY <3>1, ReplyBounds
    <3>3. CASE list' = ListFailed
      BY <1>1, <3>2, <3>3, NoListBounds
    <3>4. CASE list' # ListFailed
      <4>1. /\ list'.rows = r.rows /\ list'.total = Len(Listing) /\ list'.next = r.next
            /\ list'.pages = 1 /\ list'.visited = {} /\ ~(Len(r.rows) > MaxRows)
        BY <3>1, <3>4
      <4> QED  BY <1>1, <3>2, <4>1 DEF PageBounds
    <3> QED  BY <3>3, <3>4
  <2> QED  BY <1>3, <2>1, <2>2 DEF OpenList
<1>4. CASE RefuseLink
  BY <1>1, <1>4, NoListBounds DEF RefuseLink
<1>5. CASE FollowLink
  <2>1. CASE Unanswered
    BY <1>1, <2>1, NoListBounds DEF Unanswered
  <2>2. CASE ~Unanswered
    <3>1. PICK r \in Replies(list.next) :
               /\ faults' = faults + Cost(list.next, r)
               /\ list' = IF Len(list.rows) + Len(r.rows) > MaxRows THEN ListFailed
                          ELSE [list EXCEPT !.rows = list.rows \o r.rows,
                                       !.next = r.next,
                                       !.pages = list.pages + 1,
                                       !.visited = list.visited \cup {list.next}]
      BY <1>5, <2>2 DEF FollowLink
    <3>2. list.next \in Nat \ {0} /\ ~(list.pages >= MaxPages)
      BY <1>2, <1>5 DEF FollowLink, BadLink
    <3>3. /\ r.rows \in Seq(Rows) /\ Len(r.rows) \in Nat /\ r.next \in 0..(N + 1)
          /\ faults' \in 0..MaxFaults
      BY <3>1, <3>2, ReplyBounds
    <3>4. CASE list' = ListFailed
      BY <1>1, <3>3, <3>4, NoListBounds
    <3>5. CASE list' # ListFailed
      <4>1. /\ list'.rows = list.rows \o r.rows /\ list'.total = list.total
            /\ list'.next = r.next /\ list'.pages = list.pages + 1
            /\ list'.visited = list.visited \cup {list.next}
            /\ ~(Len(list.rows) + Len(r.rows) > MaxRows)
        BY <1>2, <3>1, <3>5
      <4>2. list.rows \in Seq(Rows) /\ Len(list.rows) \in Nat
        BY LenProperties DEF PageBounds
      <4>3. list'.rows \in Seq(Rows) /\ Len(list'.rows) = Len(list.rows) + Len(r.rows)
        BY <3>3, <4>1, <4>2, ConcatProperties
      <4>4. list'.visited \subseteq 1..(N + 1)
        BY <3>2, <4>1 DEF PageBounds
      <4>5. list'.pages \in 0..MaxPages
        BY <1>1, <1>2, <3>2, <4>1
      <4>6. Len(list'.rows) <= MaxRows
        <5>1. MaxRows \in Nat /\ Len(r.rows) \in Nat /\ Len(list.rows) \in Nat
          BY <1>1, <3>3, <4>2
        <5>2. ~(Len(list.rows) + Len(r.rows) > MaxRows)
          BY <4>1
        <5>3. Len(list.rows) + Len(r.rows) <= MaxRows
          <6>1. \A a, b, c \in Nat : ~(a + b > c) => a + b <= c
            OBVIOUS
          <6> QED  BY <5>1, <5>2, <6>1, Zenon
        <5> QED  BY <4>3, <5>3
      <4> QED  BY <1>1, <3>3, <4>1, <4>3, <4>4, <4>5, <4>6 DEF PageBounds
    <3> QED  BY <3>4, <3>5
  <2> QED  BY <2>1, <2>2
<1>6. CASE CloseList(kind # "cert")
  <2>1. list' \in {ListFailed, [list EXCEPT !.st = "ok"]} /\ faults' = faults
    BY <1>6 DEF CloseList
  <2>2. CASE list' = ListFailed
    BY <1>1, <2>1, <2>2, NoListBounds
  <2>3. CASE list' = [list EXCEPT !.st = "ok"]
    BY <1>1, <1>2, <2>1, <2>3 DEF PageBounds
  <2> QED  BY <2>1, <2>2, <2>3
<1> QED  BY <1>3, <1>4, <1>5, <1>6 DEF ReadPages

-----------------------------------------------------------------------------
\* The bound on ages is a number.
LEMMA AgeLimit == MaxAge \in Nat /\ Ttl \in Nat /\ 0 \in 0..MaxAge /\ 0 \in 0..(Ttl + 1)
<1>1. Cardinality(Objects) \in Nat /\ Ttl \in Nat
  BY PagingAssumption, CacheAssumption, FS_CardinalityType
<1> QED  BY <1>1 DEF MaxAge

\* Ages grow, but no two rows share a place in their order for ever.
LEMMA AgedBounds ==
  ASSUME row \in [Objects -> Entries], Young(row)
  PROVE  Young(Aged)
<1> DEFINE S == {p \in Objects : row[p].there}
           ages == {row[o].age : o \in S}
           f == [o \in S |-> row[o].age]
           N == Cardinality(Objects)
<1>1. Ttl \in Nat /\ IsFiniteSet(Objects) /\ N \in Nat
  BY CacheAssumption, PagingAssumption, FS_CardinalityType
<1>2. IsFiniteSet(ages) /\ Cardinality(ages) <= N /\ Cardinality(ages) \in Nat
  <2>1. IsFiniteSet(S) /\ Cardinality(S) <= N /\ Cardinality(S) \in Nat
    BY <1>1, FS_Subset, FS_CardinalityType
  <2>2. f \in Surjection(S, ages)
    BY DEF Surjection
  <2>3. IsFiniteSet(ages) /\ Cardinality(ages) <= Cardinality(S)
    BY <2>1, <2>2, FS_Surjection
  <2>4. Cardinality(ages) \in Nat
    BY <2>3, FS_CardinalityType
  <2> QED  BY <1>1, <2>1, <2>3, <2>4
<1>3. ASSUME NEW a \in Nat PROVE Older(ages, a) \in 0..(Ttl + N)
  <2>1. LET B == {b \in ages : Ttl <= b /\ b <= a}
        IN  Cardinality(B) \in Nat /\ Cardinality(B) <= Cardinality(ages)
    BY <1>2, FS_Subset, FS_CardinalityType
  <2> QED  BY <1>1, <1>2, <2>1 DEF Older
<1>4. ASSUME NEW o \in Objects
      PROVE  Aged[o].age \in 0..(Ttl + N) /\ Aged[o].seen \in 0..(Ttl + 1)
  <2>1. row[o] \in Entries /\ row[o].age \in Nat /\ row[o].seen \in Nat
    BY DEF Entries
  <2> DEFINE s == IF kind = "session" THEN Least(row[o].seen + 1, Ttl + 1) ELSE 0
  <2>2. s \in 0..(Ttl + 1)
    BY <1>1, <2>1 DEF Least
  <2>3. Aged[o] = IF ~row[o].there THEN NoRow
                  ELSE [row[o] EXCEPT !.age = Older(ages, row[o].age), !.seen = s]
    BY DEF Aged
  <2>4. Older(ages, row[o].age) \in 0..(Ttl + N)
    BY <1>3, <2>1
  <2> HIDE DEF s, ages
  <2>5. CASE ~row[o].there
    BY <1>1, <2>3, <2>5 DEF NoRow
  <2>6. CASE row[o].there
    <3>1. Aged[o].age = Older(ages, row[o].age) /\ Aged[o].seen = s
      BY <2>1, <2>3, <2>6 DEF Entries
    <3> QED  BY <2>2, <2>4, <3>1
  <2> QED  BY <2>5, <2>6
<1> QED  BY <1>4 DEF Young, MaxAge

\* Nothing planned: what a step outside of the requests has to show.
LEMMA RestBounds ==
  ASSUME CacheBounds, budget \in Nat, plan' = <<>>, failures' = 0 \/ failures' = failures,
         Young(row'), tx' = row', UNCHANGED <<kind, budget>>, DOMAIN pub' \subseteq Objects,
         pc' \in {"list1", "plan", "fetch"} => kind \notin {"cert", "name"}
  PROVE  CacheBounds'
<1>1. FailureLimit \in Nat \ {0} /\ RequestCeiling \in Nat \ {0} /\ Len(<<>>) = 0
  BY CacheAssumption, EmptySeq
<1>2. failures' \in 0..FailureLimit
  BY <1>1 DEF CacheBounds
<1>3. Young(row)' /\ Young(tx)'
  BY DEF Young, MaxAge
<1> QED  BY <1>1, <1>2, <1>3 DEF CacheBounds

\* The steps of a cycle up to the plan, its end, and cycles that fail.
LEMMA OutsideBounds ==
  ASSUME DetailInv, CacheBounds,
         \/ BeginCycle \/ Late \/ ReadPages \/ Listed \/ Preflight \/ NoSessions \/ ListAtOnce
         \/ FinishCycle \/ PublishInventory \/ PublishDevices \/ PublishTacacs \/ PublishSessions
         \/ Abort \/ IseStep
  PROVE  CacheBounds'
<1>1. /\ CacheTypes /\ row \in [Objects -> Entries] /\ tx \in [Objects -> Entries] /\ budget \in Nat
      /\ DOMAIN listed \in SUBSET Objects /\ (pc # "fetch" => plan = <<>>)
  BY DEF DetailInv, CacheInv, CacheTypes
<1>2. Young(row) /\ Young(tx) /\ DOMAIN pub \subseteq Objects /\ (pc # "fetch" => tx = row)
  BY DEF CacheBounds
<1>3. CASE BeginCycle \/ Late
  <2>1. /\ pc = "idle" /\ pc' \in {"idle", "ask", "list"} /\ row' = Aged /\ tx' = Aged
        /\ UNCHANGED <<kind, budget, plan, failures, pub>>
    BY <1>3 DEF BeginCycle, Late
  <2> QED  BY <1>1, <1>2, <2>1, AgedBounds, RestBounds
<1>4. CASE GiveUp
  BY <1>1, <1>2, <1>4, RestBounds DEF GiveUp
<1>5. CASE UNCHANGED cacheVars
  BY <1>5 DEF cacheVars, CacheBounds, Young, MaxAge
<1>6. CASE Listed /\ ~GiveUp
  <2>1. /\ pc = "list" /\ UNCHANGED <<kind, budget, row, tx, plan, failures, pub>>
        /\ pc' = IF kind \in {"cert", "name"} THEN "publish" ELSE "plan"
    BY <1>6 DEF Listed
  <2> QED  BY <1>1, <1>2, <2>1, RestBounds
<1>7. CASE (Preflight \/ NoSessions \/ ListAtOnce) /\ ~GiveUp
  <2>1. /\ pc \in {"ask", "list1"} /\ UNCHANGED <<kind, budget, row, tx, plan, failures, pub>>
        /\ pc' \in {"list1", "plan"} /\ (pc = "ask" => kind \in {"session", "policy"})
    BY <1>7 DEF Preflight, NoSessions, ListAtOnce
  <2>2. kind \notin {"cert", "name"}
    BY <2>1 DEF CacheBounds
  <2> QED  BY <1>1, <1>2, <2>1, <2>2, RestBounds
<1>8. CASE FinishCycle
  <2>1. /\ pc' = "publish" /\ row' = Pruned /\ tx' = Pruned /\ plan' = <<>> /\ failures' = 0
        /\ UNCHANGED <<kind, budget, pub>>
    BY <1>8 DEF FinishCycle
  <2>2. ASSUME NEW o \in Objects
        PROVE  Pruned[o].age \in 0..MaxAge /\ Pruned[o].seen \in 0..(Ttl + 1)
    <3>1. tx[o] \in Entries /\ tx[o].age \in 0..MaxAge /\ tx[o].seen \in 0..(Ttl + 1)
      BY <1>1, <1>2 DEF Young
    <3>2. [tx[o] EXCEPT !.seen = 0].age = tx[o].age /\ [tx[o] EXCEPT !.seen = 0].seen = 0
      BY <3>1 DEF Entries
    <3>3. Pruned[o] \in {[tx[o] EXCEPT !.seen = 0], tx[o], NoRow}
      BY DEF Pruned
    <3>4. NoRow.age = 0 /\ NoRow.seen = 0
      BY DEF NoRow
    <3>5. 0 \in 0..MaxAge /\ 0 \in 0..(Ttl + 1)
      BY AgeLimit
    <3> QED  BY <3>1, <3>2, <3>3, <3>4, <3>5
  <2>3. Young(Pruned)
    BY <2>2 DEF Young
  <2> QED  BY <1>1, <1>2, <2>1, <2>3, RestBounds
<1>9. CASE /\ PublishInventory \/ PublishDevices \/ PublishTacacs \/ PublishSessions
           /\ ~GiveUp
  <2>1. /\ pc = "publish" /\ pc' = "idle" /\ UNCHANGED <<kind, budget, row, tx, plan, failures>>
        /\ \/ pub' = [o \in DOMAIN listed |-> [ver |-> listed[o], sig |-> listed[o]]]
           \/ pub' = Show({o \in Selected : Cached(o)})
           \/ pub' = Show(Usable)
    BY <1>9 DEF PublishInventory, PublishDevices, PublishTacacs, PublishSessions, Publishes
  <2>2. Selected \subseteq Objects
    BY <1>1 DEF Selected, Smallest
  <2>3. DOMAIN pub' \subseteq Objects
    BY <1>1, <2>1, <2>2 DEF Show, Usable
  <2> QED  BY <1>1, <1>2, <2>1, <2>3, RestBounds
<1> QED  BY <1>3, <1>4, <1>5, <1>6, <1>7, <1>8, <1>9 DEF ReadPages, Abort, IseStep

-----------------------------------------------------------------------------
\* The plan of a cycle.
LEMMA PlanBounds ==
  ASSUME DetailInv, CacheBounds, Plan
  PROVE  CacheBounds'
<1> DEFINE cache == WithEmbedded(Readable)
<1>1. /\ pc = "plan" /\ pc' = "fetch" /\ UNCHANGED <<kind, budget, pub>> /\ failures' = 0
      /\ row' = Readable /\ tx' = cache
      /\ plan' = CASE kind = "device" -> DevicePlan(cache)
                  [] kind = "session" -> SessionPlan(cache)
                  [] OTHER -> TacacsPlan(cache)
  BY DEF Plan
<1>2. /\ CacheTypes /\ tx \in [Objects -> Entries] /\ listed \in [DOMAIN listed -> Nat]
      /\ kind \in Kinds
  BY DEF DetailInv, CacheInv, CacheTypes
<1>3. 0 \in 0..MaxAge /\ 0 \in 0..(Ttl + 1) /\ NoRow.age = 0 /\ NoRow.seen = 0
  BY AgeLimit DEF NoRow
<1>4. ASSUME NEW o \in Objects
      PROVE  /\ Readable[o] \in Entries /\ Readable[o].age \in 0..MaxAge
             /\ Readable[o].seen \in 0..(Ttl + 1)
  <2>1. tx[o] \in Entries /\ Readable[o] \in {tx[o], NoRow}
    BY <1>2 DEF Readable
  <2> QED  BY <1>3, <2>1, RowTypes DEF CacheBounds, Young
<1>5. ASSUME NEW o \in Objects
      PROVE  cache[o] \in Entries /\ cache[o].age \in 0..MaxAge /\ cache[o].seen \in 0..(Ttl + 1)
  <2>1. cache[o] = IF embeds /\ o \in DOMAIN listed THEN Row(listed[o], 0) ELSE Readable[o]
    BY DEF WithEmbedded
  <2>2. o \in DOMAIN listed => listed[o] \in Nat
    BY <1>2
  <2>3. o \in DOMAIN listed => Row(listed[o], 0) \in Entries
    BY <2>2, RowTypes
  <2>4. Row(listed[o], 0).age = 0 /\ Row(listed[o], 0).seen = 0
    BY DEF Row
  <2> QED  BY <1>3, <1>4, <2>1, <2>3, <2>4
<1>6. cache \in [Objects -> Entries]
  BY <1>5 DEF WithEmbedded
<1>7. Young(Readable) /\ Young(cache)
  BY <1>4, <1>5 DEF Young
<1>8. Young(row)' /\ Young(tx)'
  BY <1>1, <1>7 DEF Young, MaxAge
<1> HIDE DEF cache
<1>9. kind \notin {"cert", "name"} /\ (kind \in {"user", "policy"} => budget \in 1..RequestCeiling)
  BY <1>1 DEF CacheBounds
<1>10. Len(plan') <= RequestCeiling /\ (budget # 0 => Len(plan') <= budget)
  <2>1. CASE kind = "device"
    BY <1>1, <1>2, <1>6, <2>1, PlanTypes
  <2>2. CASE kind = "session"
    BY <1>1, <1>2, <1>6, <2>2, PlanTypes
  <2>3. CASE kind \in {"user", "policy"}
    <3>1. plan' = TacacsPlan(cache) /\ Len(TacacsPlan(cache)) <= budget
          /\ TacacsPlan(cache) \in Seq(DOMAIN listed)
      BY <1>1, <1>2, <1>6, <2>3, PlanTypes
    <3>2. Len(TacacsPlan(cache)) \in Nat /\ RequestCeiling \in Nat
      BY <3>1, LenProperties, CacheAssumption
    <3> QED  BY <1>9, <2>3, <3>1, <3>2
  <2> QED  BY <1>2, <1>9, <2>1, <2>2, <2>3 DEF Kinds
<1>11. FailureLimit \in Nat \ {0}
  BY CacheAssumption
<1> QED  BY <1>1, <1>8, <1>9, <1>10, <1>11 DEF CacheBounds

\* A shorter plan, and the failures that end it.
LEMMA FetchBounds ==
  ASSUME DetailInv, CacheBounds, Fetch
  PROVE  CacheBounds'
<1>1. /\ plan \in Seq(DOMAIN listed) /\ tx \in [Objects -> Entries] /\ row \in [Objects -> Entries]
      /\ budget \in Nat
  BY DEF DetailInv, CacheInv, CacheTypes
<1>2. pc = "fetch" /\ plan # <<>> /\ UNCHANGED <<kind, budget, pub, pc>>
  BY DEF Fetch, FetchDevice, RefuseDevice, FetchUser, RefuseUser, FetchPolicy, RefusePolicy,
     FetchSession, RefuseSession, PutOpen, KeepCached, Asking, FetchKeeps
<1>3. /\ Len(plan) \in Nat /\ Len(Tail(plan)) = Len(plan) - 1 /\ Len(<<>>) = 0
      /\ FailureLimit \in Nat \ {0} /\ RequestCeiling \in Nat \ {0} /\ Len(plan) # 0
  BY <1>1, <1>2, LenProperties, HeadTailProperties, EmptySeq, CacheAssumption
<1>4. ASSUME NEW i \in 1..Len(plan) PROVE Len(RemoveAt(plan, i)) = Len(plan) - 1
  <2>1. \A j \in 1..Len(plan) : plan[j] \in DOMAIN listed
    BY <1>1, ElementOfSeq
  <2>2. /\ SubSeq(plan, 1, i - 1) \in Seq(DOMAIN listed)
        /\ Len(SubSeq(plan, 1, i - 1)) = IF 1 <= i - 1 THEN (i - 1) - 1 + 1 ELSE 0
    <3>1. i - 1 \in Int /\ \A j \in 1..(i - 1) : plan[j] \in DOMAIN listed
      BY <1>3, <2>1
    <3> QED  BY <3>1, SubSeqProperties
  <2>3. /\ SubSeq(plan, i + 1, Len(plan)) \in Seq(DOMAIN listed)
        /\ Len(SubSeq(plan, i + 1, Len(plan))) =
             IF i + 1 <= Len(plan) THEN Len(plan) - (i + 1) + 1 ELSE 0
    <3>1. i + 1 \in Int /\ Len(plan) \in Int /\ \A j \in (i + 1)..Len(plan) : plan[j] \in DOMAIN listed
      BY <1>3, <2>1
    <3> QED  BY <3>1, SubSeqProperties
  <2>4. Len(RemoveAt(plan, i)) = Len(SubSeq(plan, 1, i - 1)) + Len(SubSeq(plan, i + 1, Len(plan)))
    BY <2>2, <2>3, ConcatProperties DEF RemoveAt
  <2> DEFINE n == Len(plan)
             a == Len(SubSeq(plan, 1, i - 1))
             b == Len(SubSeq(plan, i + 1, Len(plan)))
  <2>5. n \in Nat /\ i \in 1..n
    BY <1>3
  <2>6. a = IF 1 <= i - 1 THEN (i - 1) - 1 + 1 ELSE 0
    BY <2>2
  <2>7. b = IF i + 1 <= n THEN n - (i + 1) + 1 ELSE 0
    BY <2>3
  <2> HIDE DEF n, a, b
  <2>8. a = i - 1 /\ b = n - i
    BY <2>5, <2>6, <2>7
  <2>9. a + b = n - 1
    BY <2>5, <2>8
  <2> QED  BY <2>4, <2>9 DEF n, a, b
<1>5. NextRequests \in SUBSET (1..Len(plan))
  <2>1. Workers \in Nat
    BY CacheAssumption
  <2> QED  BY <1>3, <2>1 DEF NextRequests, Least
<1>6. Len(plan') \in Nat /\ Len(plan') <= Len(plan)
  <2>1. plan' \in {Tail(plan), <<>>} \/ \E i \in 1..Len(plan) : plan' = RemoveAt(plan, i)
    BY <1>5 DEF Fetch, FetchDevice, RefuseDevice, FetchUser, RefuseUser, FetchPolicy, RefusePolicy,
       FetchSession, RefuseSession, PutOpen, KeepCached, AfterFailure
  <2>2. Len(plan') \in {Len(plan) - 1, 0}
    BY Zenon, <1>3, <1>4, <2>1
  <2> DEFINE n == Len(plan)
             m == Len(plan')
  <2>3. n \in Nat /\ n # 0 /\ m \in {n - 1, 0}
    BY Zenon, <1>3, <2>2
  <2> HIDE DEF n, m
  <2>4. m \in Nat /\ m <= n
    BY <2>3
  <2> QED  BY <2>4 DEF n, m
<1>7. failures < FailureLimit /\ failures \in 0..FailureLimit
  BY <1>2 DEF CacheBounds
<1>8. failures' \in 0..FailureLimit /\ (plan' # <<>> => failures' < FailureLimit)
  <2>1. \/ failures' \in {0, failures}
        \/ failures' = failures + 1 /\ plan' = AfterFailure
    BY DEF Fetch, FetchDevice, RefuseDevice, FetchUser, RefuseUser, FetchPolicy, RefusePolicy,
       FetchSession, RefuseSession, PutOpen, KeepCached
  <2>2. plan' = AfterFailure /\ plan' # <<>> => ~(failures + 1 >= FailureLimit)
    BY DEF AfterFailure
  <2> QED  BY <1>3, <1>7, <2>1, <2>2
<1>9. \/ tx' = tx /\ row' = row
      \/ \E o, s : tx' = Put(o, s) /\ row' \in {row, tx'}
  BY DEF Fetch, FetchDevice, RefuseDevice, FetchUser, RefuseUser, FetchPolicy, RefusePolicy,
     FetchSession, RefuseSession, PutOpen, KeepCached
<1>10. ASSUME NEW o, NEW s PROVE Young(Put(o, s))
  <2>1. Row(ise[o], s).age = 0 /\ Row(ise[o], s).seen = 0
    BY DEF Row
  <2>2. \A p \in Objects : Put(o, s)[p] \in {tx[p], Row(ise[o], s)}
    BY <1>1 DEF Put
  <2> QED  BY <2>1, <2>2, AgeLimit DEF Young, CacheBounds
<1>11. Young(tx') /\ Young(row')
  BY <1>9, <1>10 DEF CacheBounds
<1>12. Young(tx)' /\ Young(row)'
  BY <1>11 DEF Young, MaxAge
<1>13. Len(plan') <= RequestCeiling /\ (budget # 0 => Len(plan') <= budget)
  BY <1>1, <1>3, <1>6 DEF CacheBounds
<1> QED  BY <1>2, <1>8, <1>12, <1>13 DEF CacheBounds

-----------------------------------------------------------------------------
\* The initial states are within the bounds.
LEMMA BoundsInit == Init => Bounds
<1> SUFFICES ASSUME Init PROVE Bounds
  OBVIOUS
<1>1. PageBounds
  <2>1. /\ list.rows = <<>> /\ list.total = 0 /\ list.next = 0 /\ list.pages = 0
        /\ list.visited = {} /\ changes = 0 /\ faults = 0
    BY DEF Init, NoList
  <2>2. <<>> \in Seq(Rows) /\ Len(<<>>) = 0 /\ Cardinality(Objects) \in Nat
    BY EmptySeq, PagingAssumption, FS_CardinalityType
  <2> QED  BY <2>1, <2>2, PagingAssumption DEF PageBounds
<1>2. Young(row)
  <2>1. \A v, s : Row(v, s).age = 0 /\ Row(v, s).seen = 0
    BY DEF Row
  <2>2. NoRow.age = 0 /\ NoRow.seen = 0
    BY DEF NoRow
  <2>3. \/ row = [o \in Objects |-> NoRow]
        \/ row = [o \in Objects |-> Row(0, 0)]
        \/ row = [o \in Objects |-> Row(1, IF kind = "session" /\ o \notin Anonymous
                                          THEN 1 ELSE 0)]
    BY DEF Init
  <2> QED  BY <2>1, <2>2, <2>3, AgeLimit DEF Young
<1>3. /\ tx = row /\ pc = "idle" /\ failures = 0 /\ plan = <<>> /\ pub = <<>>
      /\ budget \in Budgets[kind] /\ kind \in Kinds
  BY DEF Init
<1>4. /\ FailureLimit \in Nat \ {0} /\ RequestCeiling \in Nat \ {0} /\ Len(<<>>) = 0
      /\ budget \in Nat /\ (kind \in {"user", "policy"} => budget \in 1..RequestCeiling)
  BY <1>3, CacheAssumption, EmptySeq
<1>5. DOMAIN pub \subseteq Objects
  BY <1>3, Emptiness
<1> QED  BY <1>1, <1>2, <1>3, <1>4, <1>5 DEF Bounds, CacheBounds

\* Every step keeps the bounds.
LEMMA BoundsNext == DetailInv /\ Bounds /\ [Next]_vars => Bounds'
<1> SUFFICES ASSUME DetailInv, PageBounds, CacheBounds, [Next]_vars
             PROVE  PageBounds' /\ CacheBounds'
  BY DEF Bounds
<1>1. CASE UNCHANGED vars
  BY <1>1 DEF vars, pagingVars, cacheVars, PageBounds, CacheBounds, Young, MaxAge
<1>2. CASE Next
  <2>1. CacheBounds'
    BY <1>2, OutsideBounds, PlanBounds, FetchBounds DEF Next, Cycle
  <2>2. PageBounds'
    <3>1. CASE UNCHANGED <<changes, faults, list>>
      BY <3>1 DEF PageBounds
    <3>2. CASE ReadPages
      BY <3>2, ReadBounds
    <3>3. CASE Listed
      BY <3>3, NoListBounds DEF Listed, PageBounds
    <3>4. CASE Abort
      <4>1. faults + 1 \in 0..MaxFaults
        BY <3>4, PagingAssumption DEF Abort, PageBounds
      <4> QED  BY <3>4, <4>1, NoListBounds DEF Abort
    <3>5. CASE IseStep
      <4>1. changes' = changes + 1 /\ changes < MaxChanges /\ UNCHANGED <<faults, list>>
        BY <3>5 DEF IseStep, Change
      <4> QED  BY <4>1, PagingAssumption DEF PageBounds
    <3>6. CASE Fetch
      <4>1. list' = list /\ changes' = changes
        BY <3>6 DEF Fetch, FetchDevice, RefuseDevice, FetchUser, RefuseUser, FetchPolicy,
           RefusePolicy, FetchSession, RefuseSession, PutOpen, KeepCached, FetchKeeps
      <4>2. faults' = faults \/ (faults < MaxFaults /\ faults' = faults + 1)
        BY <3>6 DEF Fetch, FetchDevice, RefuseDevice, FetchUser, RefuseUser, FetchPolicy,
           RefusePolicy, FetchSession, RefuseSession, PutOpen, KeepCached, NoAnswer
      <4>3. faults' \in 0..MaxFaults
        BY <4>2, PagingAssumption DEF PageBounds
      <4> QED  BY <4>1, <4>3 DEF PageBounds
    <3>7. CASE \/ BeginCycle \/ Late \/ Preflight \/ NoSessions \/ ListAtOnce \/ Plan \/ FinishCycle
               \/ PublishInventory \/ PublishDevices \/ PublishTacacs \/ PublishSessions
      <4>1. UNCHANGED <<changes, faults, list>>
        BY <3>7 DEF BeginCycle, Late, Preflight, NoSessions, ListAtOnce, Plan, FinishCycle,
           PublishInventory, PublishDevices, PublishTacacs, PublishSessions, Publishes, pagingVars
      <4> QED  BY <3>1, <4>1
    <3> QED  BY <1>2, <3>2, <3>3, <3>4, <3>5, <3>6, <3>7 DEF Next, Cycle
  <2> QED  BY <2>1, <2>2
<1> QED  BY <1>1, <1>2

\* Every collector keeps its types and bounds, for every inventory, page size,
\* cache and budget: the requests of a cycle stay within DETAIL_REQUEST_CEILING
\* and within the configured budget, failures within the limit that ends the
\* refresh, pages and rows within those of the client, and between two cycles the
\* collector sees what is committed.
THEOREM DetailTypeCorrect == Spec => []TypeOK
<1>1. DetailInv /\ Bounds /\ [Next]_vars => (DetailInv /\ Bounds)'
  BY DetailNextInv, BoundsNext
<1> QED  BY <1>1, DetailInitInv, BoundsInit, BoundsTypes, PTL DEF Spec

-----------------------------------------------------------------------------
(* Marks: the inductive invariant *)

\* The lane that writes is the one whose transaction is open.
Owners ==
  /\ writer = "config" <=> cpc \in {"holding", "syncing"}
  /\ writer = "activity" <=> apc = "merging"

\* What an open transaction read is what is stored.
ReadsCurrent ==
  /\ cpc = "syncing" => cread = mark
  /\ apc = "merging" => aread = mark /\ known = accounts

\* Only the TACACS accounts have the steps of a merge.
StepsOfTable ==
  /\ cpc \in {"holding", "sync", "syncing"} => table = "account"
  /\ apc \in {"merge", "merging"} => table = "account"
  /\ apc \in {"put", "prune"} => table # "account"

MarksInv == MarksTypeOK /\ Owners /\ ReadsCurrent /\ StepsOfTable

\* The higher of two marks is one of them.
LEMMA HigherType ==
  ASSUME NEW a \in 0..MaxNow, NEW b \in 0..MaxNow
  PROVE  /\ Higher(a, b) \in 0..MaxNow
         /\ Higher(a, b) >= a /\ Higher(a, b) >= b
BY MarksAssumption DEF Higher

\* A merge of two tables of marks is one.
LEMMA MergedType ==
  ASSUME MarksTypeOK
  PROVE  /\ Merged \in [Units -> 0..MaxNow]
         /\ [u \in Units |-> Higher(Merged[u], seen[u])] \in [Units -> 0..MaxNow]
         /\ None \in [Units -> 0..MaxNow]
<1>1. 0 \in 0..MaxNow
  BY MarksAssumption
<1>2. \A u \in Units : aread[u] \in 0..MaxNow /\ seen[u] \in 0..MaxNow
  BY DEF MarksTypeOK
<1>3. Merged \in [Units -> 0..MaxNow]
  <2>1. \A u \in Units : Higher(aread[u], seen[u]) \in 0..MaxNow
    BY <1>2, HigherType
  <2> QED  BY <1>1, <2>1 DEF Merged
<1>4. \A u \in Units : Higher(Merged[u], seen[u]) \in 0..MaxNow
  BY <1>2, <1>3, HigherType
<1> QED  BY <1>1, <1>3, <1>4 DEF None

\* The initial state satisfies the invariant.
LEMMA MarksInitInv == MarksInit => MarksInv
<1> SUFFICES ASSUME MarksInit PROVE MarksInv
  OBVIOUS
<1>1. None \in [Units -> 0..MaxNow] /\ 1 \in 1..MaxNow /\ 0 \in 0..MaxMoves
  BY MarksAssumption DEF None
<1>2. MarksTypeOK
  BY <1>1 DEF MarksInit, MarksTypeOK, Tables, Lanes
<1> QED  BY <1>2 DEF MarksInit, MarksInv, Owners, ReadsCurrent, StepsOfTable

-----------------------------------------------------------------------------
(* Marks: one lemma for each group of actions *)

\* Steps of ISE touch no lane and no table.
LEMMA OutsideStep ==
  ASSUME MarksInv, Tick \/ Event \/ Reconfigure
  PROVE  MarksInv'
<1> USE DEF MarksInv, Owners, ReadsCurrent, StepsOfTable
<1>1. CASE Tick
  BY <1>1, MarksAssumption
     DEF Tick, MarksTypeOK, storeVars, memory, config, activity
<1>2. CASE Event
  <2>1. now \in 0..MaxNow
    BY DEF MarksTypeOK
  <2>2. real' \in [Units -> 0..MaxNow]
    BY <1>2, <2>1 DEF Event, MarksTypeOK
  <2> QED  BY <1>2, <2>2 DEF Event, MarksTypeOK, storeVars, memory, config, activity
<1>3. CASE Reconfigure
  BY <1>3, MarksAssumption
     DEF Reconfigure, MarksTypeOK, storeVars, memory, config, activity
<1> QED  BY <1>1, <1>2, <1>3

\* The configuration lane up to its transaction, and the devices lane.
LEMMA ListingStep ==
  ASSUME MarksInv, ListObjects \/ HoldDetails \/ FinishDetails \/ HandOver
  PROVE  MarksInv'
<1> USE DEF MarksInv, Owners, ReadsCurrent, StepsOfTable
<1>1. CASE ListObjects
  BY <1>1 DEF ListObjects, MarksTypeOK, outside, storeVars, memory, activity
<1>2. CASE HoldDetails
  BY <1>2 DEF HoldDetails, MarksTypeOK, outside, Lanes, memory, activity
<1>3. CASE FinishDetails
  BY <1>3 DEF FinishDetails, MarksTypeOK, outside, Lanes, memory, activity
<1>4. CASE HandOver
  BY <1>4 DEF HandOver, MarksTypeOK, outside, storeVars, activity
<1> QED  BY <1>1, <1>2, <1>3, <1>4

\* The synchronisation of the accounts, and a configuration lane that fails.
LEMMA SyncStep ==
  ASSUME MarksInv, BeginSync \/ EndSync \/ ConfigFails
  PROVE  MarksInv'
<1> USE DEF MarksInv, Owners, ReadsCurrent, StepsOfTable
<1>0. None \in [Units -> 0..MaxNow]
  BY MergedType
<1>1. CASE BeginSync
  BY <1>1 DEF BeginSync, MarksTypeOK, outside, Lanes, memory, activity
<1>2. CASE EndSync
  <2>1. mark' \in [Units -> 0..MaxNow]
    BY <1>2, MarksAssumption DEF EndSync, MarksTypeOK
  <2>2. writer = "config" /\ apc # "merging"
    BY <1>2 DEF EndSync
  <2> QED  BY <1>0, <1>2, <2>1, <2>2
           DEF EndSync, MarksTypeOK, outside, Lanes, memory, activity
<1>3. CASE ConfigFails
  <2>1. MarksTypeOK'
    BY <1>0, <1>3 DEF ConfigFails, MarksTypeOK, outside, Lanes, memory, activity
  <2> QED  BY <1>3, <2>1 DEF ConfigFails, outside, memory, activity, MarksTypeOK, Lanes
<1> QED  BY <1>1, <1>2, <1>3

\* The queries of the activity lane.
LEMMA QueryStep ==
  ASSUME MarksInv, StartActivity \/ QueryAccounts \/ QueryNads \/ QueryEndpoints
  PROVE  MarksInv'
<1> USE DEF MarksInv, Owners, ReadsCurrent, StepsOfTable
<1>1. CASE StartActivity
  BY <1>1 DEF StartActivity, MarksTypeOK, Tables, outside, storeVars, memory, config
<1>2. CASE QueryAccounts
  BY <1>2 DEF QueryAccounts, Report, QueryKeeps, MarksTypeOK, outside, storeVars,
              memory, config
<1>3. CASE QueryNads
  BY <1>3 DEF QueryNads, Report, QueryKeeps, MarksTypeOK, outside, storeVars,
              memory, config
<1>4. CASE QueryEndpoints
  BY <1>4 DEF QueryEndpoints, Report, QueryKeeps, MarksTypeOK, outside, storeVars,
              memory, config
<1> QED  BY <1>1, <1>2, <1>3, <1>4

\* The merge of the accounts' activity.
LEMMA MergeStep ==
  ASSUME MarksInv, BeginMerge \/ EndMerge
  PROVE  MarksInv'
<1> USE DEF MarksInv, Owners, ReadsCurrent, StepsOfTable
<1>1. CASE BeginMerge
  BY <1>1 DEF BeginMerge, MarksTypeOK, outside, Lanes, memory, config
<1>2. CASE EndMerge
  <2>1. /\ mark' \in [Units -> 0..MaxNow] /\ shown' \in [Units -> 0..MaxNow]
        /\ None \in [Units -> 0..MaxNow]
    BY <1>2, MergedType DEF EndMerge
  <2>2. writer = "activity" /\ cpc # "syncing"
    BY <1>2 DEF EndMerge
  <2> QED  BY <1>2, <2>1, <2>2 DEF EndMerge, MarksTypeOK, outside, Lanes, memory, config
<1> QED  BY <1>1, <1>2

\* The rows of devices and endpoints.
LEMMA RowsStep ==
  ASSUME MarksInv, PutNads \/ PutEndpoints \/ PruneNads \/ PruneEndpoints
  PROVE  MarksInv'
<1> USE DEF MarksInv, Owners, ReadsCurrent, StepsOfTable
<1>0. /\ None \in [Units -> 0..MaxNow]
      /\ \A u \in Units : /\ mark[u] \in 0..MaxNow /\ seen[u] \in 0..MaxNow
                          /\ Higher(mark[u], seen[u]) \in 0..MaxNow
  BY MergedType, HigherType DEF MarksTypeOK
<1>1. CASE PutNads
  <2>1. mark' \in [Units -> 0..MaxNow]
    BY <1>0, <1>1 DEF PutNads, PutRows
  <2> QED  BY <1>1, <2>1 DEF PutNads, PutRows, MarksTypeOK, outside, memory, config
<1>2. CASE PutEndpoints
  <2>1. mark' \in [Units -> 0..MaxNow]
    BY <1>0, <1>2 DEF PutEndpoints, PutRows
  <2> QED  BY <1>2, <2>1 DEF PutEndpoints, PutRows, MarksTypeOK, outside, memory, config
<1>3. CASE PruneNads
  <2>1. mark' \in [Units -> 0..MaxNow]
    BY <1>0, <1>3, MarksAssumption DEF PruneNads, PruneRows
  <2> QED  BY <1>0, <1>3, <2>1 DEF PruneNads, PruneRows, MarksTypeOK, outside, memory, config
<1>4. CASE PruneEndpoints
  <2>1. mark' \in [Units -> 0..MaxNow]
    BY <1>0, <1>4, MarksAssumption DEF PruneEndpoints, PruneRows
  <2> QED  BY <1>0, <1>4, <2>1
           DEF PruneEndpoints, PruneRows, MarksTypeOK, outside, memory, config
<1> QED  BY <1>1, <1>2, <1>3, <1>4

\* A failed activity collection, and the death of the process.
LEMMA StopStep ==
  ASSUME MarksInv, ActivityFails \/ Crash
  PROVE  MarksInv'
<1> USE DEF MarksInv, Owners, ReadsCurrent, StepsOfTable
<1>0. None \in [Units -> 0..MaxNow]
  BY MergedType
<1>1. CASE ActivityFails
  BY <1>0, <1>1 DEF ActivityFails, MarksTypeOK, outside, Lanes, memory, config
<1>2. CASE Crash
  BY <1>0, <1>2 DEF Crash, MarksTypeOK, outside, Lanes
<1> QED  BY <1>1, <1>2

\* Every step keeps the invariant.
LEMMA MarksNextInv == MarksInv /\ [MarksNext]_marksVars => MarksInv'
<1> SUFFICES ASSUME MarksInv, [MarksNext]_marksVars PROVE MarksInv'
  OBVIOUS
<1>1. CASE MarksNext
  BY <1>1, OutsideStep, ListingStep, SyncStep, QueryStep, MergeStep, RowsStep, StopStep
     DEF MarksNext
<1>2. CASE UNCHANGED marksVars
  BY <1>2 DEF marksVars, outside, storeVars, memory, config, activity,
              MarksInv, MarksTypeOK, Owners, ReadsCurrent, StepsOfTable
<1> QED  BY <1>1, <1>2

\* The tables, the lanes' reads and what is shown keep their types, for every set
\* of objects (state.py's last-activity tables and the two lanes that write them).
THEOREM MarksTypeCorrect == MarksSpec => []MarksTypeOK
<1>1. MarksInv => MarksTypeOK
  BY DEF MarksInv
<1> QED  BY <1>1, MarksInitInv, MarksNextInv, PTL DEF MarksSpec

-----------------------------------------------------------------------------
(* The marks *)

\* A step that stores marks lowers one only where the object is gone or expired.
LEMMA MarkKeptStep ==
  ASSUME MarksInv, MarksNext, NEW u \in Units
  PROVE  MarkKept(u)
<1>0. /\ mark[u] \in 0..MaxNow /\ seen[u] \in 0..MaxNow
      /\ table \in Tables
      /\ Higher(mark[u], seen[u]) >= mark[u]
  BY HigherType DEF MarksInv, MarksTypeOK
<1>1. CASE EndSync
  <2>1. table = "account" /\ cread = mark
    BY <1>1 DEF EndSync, MarksInv, ReadsCurrent, StepsOfTable
  <2>2. u \in chosen => mark'[u] = mark[u]
    BY <1>1, <2>1 DEF EndSync
  <2>3. accounts' = chosen
    BY <1>1 DEF EndSync
  <2> QED  BY <1>0, <2>1, <2>2, <2>3 DEF MarkKept
<1>2. CASE EndMerge
  <2>1. table = "account" /\ aread = mark /\ known = accounts
    BY <1>2 DEF EndMerge, MarksInv, ReadsCurrent, StepsOfTable
  <2>2. u \in known => mark'[u] = Higher(mark[u], seen[u])
    BY <1>2, <2>1 DEF EndMerge, Merged
  <2>3. u \in known => ~(mark'[u] < mark[u])
    BY <1>0, <2>2, MarksAssumption DEF Higher
  <2> QED  BY <2>1, <2>3 DEF MarkKept
<1>3. CASE PutNads
  <2>1. mark'[u] = mark[u] \/ mark'[u] = Higher(mark[u], seen[u])
    BY <1>3 DEF PutNads, PutRows
  <2>2. ~(mark'[u] < mark[u])
    BY <1>0, <2>1, MarksAssumption DEF Higher
  <2> QED  BY <2>2 DEF MarkKept
<1>4. CASE PutEndpoints
  <2>1. mark'[u] = IF seen[u] >= mark[u] THEN seen[u] ELSE mark[u]
    BY <1>4 DEF PutEndpoints, PutRows
  <2>2. ~(mark'[u] < mark[u])
    BY <1>0, <2>1, MarksAssumption
  <2> QED  BY <2>2 DEF MarkKept
<1>5. CASE PruneNads
  <2>1. table = "nad" /\ (u \in known => mark'[u] = mark[u])
    BY <1>5 DEF PruneNads, PruneRows
  <2> QED  BY <1>0, <2>1 DEF MarkKept
<1>6. CASE PruneEndpoints
  <2>1. table = "endpoint" /\ (~(mark[u] + Retention < now) => mark'[u] = mark[u])
    BY <1>6 DEF PruneEndpoints, PruneRows
  <2> QED  BY <1>0, <2>1 DEF MarkKept
<1>7. CASE UNCHANGED mark
  BY <1>0, <1>7 DEF MarkKept
<1>8. \/ EndSync \/ EndMerge \/ PutNads \/ PutEndpoints \/ PruneNads \/ PruneEndpoints
      \/ UNCHANGED mark
  BY DEF MarksNext, Tick, Event, Reconfigure, ListObjects, HoldDetails, FinishDetails,
         BeginSync, HandOver, ConfigFails, StartActivity, QueryAccounts, QueryNads,
         QueryEndpoints, QueryKeeps, BeginMerge, ActivityFails, Crash, storeVars
<1> QED  BY <1>1, <1>2, <1>3, <1>4, <1>5, <1>6, <1>7, <1>8

\* HighWaterKept for every set of objects: neither lane of tacacs.py, nor nad_health
\* nor endpoint_fleet, lowers the stored activity of an object that is still configured
\* or within its retention, however their transactions interleave, fail or die.
THEOREM MarksKept == MarksSpec => HighWaterKept
<1>1. MarksInv /\ [MarksNext]_marksVars => [\A u \in Units : MarkKept(u)]_marksVars
  BY MarkKeptStep
<1> QED  BY <1>1, MarksInitInv, MarksNextInv, PTL DEF MarksSpec, HighWaterKept

-----------------------------------------------------------------------------
(* Inspection: what a statement needs *)

\* The view is there and has the columns.
HasAll(v, A) == schema[v] # {} /\ A \subseteq schema[v]

\* A statement about one view is parsed when the view has what it always names.
LEMMA ParsesOne ==
  \A n, v, A, F : Parses(Select(n, {Read(v, A, F)}), schema) <=> HasAll(v, A)
<1> SUFFICES ASSUME NEW n, NEW v, NEW A, NEW F
             PROVE  Parses(Select(n, {Read(v, A, F)}), schema) <=> HasAll(v, A)
  OBVIOUS
<1>1. Read(v, A, F).view = v /\ Read(v, A, F).cols = A \cup (F \cap schema[v])
  BY DEF Read
<1>2. Select(n, {Read(v, A, F)}).whole /\ Select(n, {Read(v, A, F)}).reads = {Read(v, A, F)}
  BY DEF Select
<1> QED  BY <1>1, <1>2 DEF Parses, HasAll

\* missing_required in terms of what the view has.
LEMMA LacksAll ==
  \A d, v : Lacks(schema, d, v) <=> ~HasAll(v, RequiredColumns[d][v])
BY DEF Lacks, HasAll

Accounting == "RADIUS_ACCOUNTING"
Errors == "RADIUS_ERRORS_VIEW"
Conditions == "POSTURE_ASSESSMENT_BY_CONDITION"
Profiled == "PROFILED_ENDPOINTS_SUMMARY"
Volumes == {"TIMESTAMP", "PASSED_COUNT", "FAILED_COUNT"}

\* What the inspection asks of each dataset.
LEMMA RadiusNeeds ==
  Incompatible(schema, "dataconnect_radius") <=>
    \/ ~HasAll(Summary, Volumes)
    \/ ~HasAll(Accounting, {"TIMESTAMP"})
    \/ ~HasAll(Errors, {"TIMESTAMP"})
    \/ ~HasAll(Base, {"TIMESTAMP"}) /\ ~HasAll(Week, {"TIMESTAMP", "AUTHORIZATION_POLICY"})
<1> DEFINE d == "dataconnect_radius"
           R == RequiredColumns[d]
<1>1. /\ DOMAIN R = {Base, Week, Summary, Accounting, Errors}
      /\ R[Base] = {"TIMESTAMP"} /\ R[Week] = {"TIMESTAMP", "AUTHORIZATION_POLICY"}
      /\ R[Summary] = Volumes /\ R[Accounting] = {"TIMESTAMP"} /\ R[Errors] = {"TIMESTAMP"}
  BY DEF RequiredColumns, Base, Week, Summary, Accounting, Errors, Volumes
<1>2. /\ AlternativeViews(d) = {Base, Week} /\ OptionalViews(d) = {}
      /\ DOMAIN R \ (AlternativeViews(d) \cup OptionalViews(d)) = {Summary, Accounting, Errors}
  BY <1>1 DEF AlternativeViews, OptionalViews, Base, Week, Summary, Accounting, Errors
<1>3. Incompatible(schema, d) <=>
        \/ \E v \in {Summary, Accounting, Errors} : Lacks(schema, d, v)
        \/ \A v \in {Base, Week} : Lacks(schema, d, v)
  BY <1>2 DEF Incompatible
<1>4. /\ Lacks(schema, d, Summary) <=> ~HasAll(Summary, Volumes)
      /\ Lacks(schema, d, Accounting) <=> ~HasAll(Accounting, {"TIMESTAMP"})
      /\ Lacks(schema, d, Errors) <=> ~HasAll(Errors, {"TIMESTAMP"})
      /\ Lacks(schema, d, Base) <=> ~HasAll(Base, {"TIMESTAMP"})
      /\ Lacks(schema, d, Week) <=> ~HasAll(Week, {"TIMESTAMP", "AUTHORIZATION_POLICY"})
  BY <1>1 DEF Lacks, HasAll
<1> QED  BY <1>3, <1>4

\* Datasets without alternative and optional views need all of theirs.
LEMMA SimpleNeeds ==
  ASSUME NEW d \in {"dataconnect_radius_active", "dataconnect_performance", "dataconnect_endpoints",
                    "dataconnect_nad_health", "tacacs_activity"}
  PROVE  Incompatible(schema, d) <=>
           \E v \in DOMAIN RequiredColumns[d] : ~HasAll(v, RequiredColumns[d][v])
<1>1. AlternativeViews(d) = {} /\ OptionalViews(d) = {}
  BY DEF AlternativeViews, OptionalViews
<1> QED  BY <1>1, LacksAll DEF Incompatible

\* The inventory is optional for posture.
LEMMA PostureNeeds ==
  Incompatible(schema, "dataconnect_posture") <=>
    \/ ~HasAll(Assessments, {"ID", "TIMESTAMP"})
    \/ ~HasAll(Conditions, {"LOGGED_AT", "ENDPOINT_ID"})
<1> DEFINE d == "dataconnect_posture"
           R == RequiredColumns[d]
<1>1. /\ DOMAIN R = {Assessments, Conditions, Inventory}
      /\ R[Assessments] = {"ID", "TIMESTAMP"} /\ R[Conditions] = {"LOGGED_AT", "ENDPOINT_ID"}
  BY DEF RequiredColumns, Assessments, Conditions, Inventory
<1>2. /\ AlternativeViews(d) = {} /\ OptionalViews(d) = {Inventory}
      /\ DOMAIN R \ (AlternativeViews(d) \cup OptionalViews(d)) = {Assessments, Conditions}
  BY <1>1 DEF AlternativeViews, OptionalViews, Assessments, Conditions, Inventory
<1>3. Incompatible(schema, d) <=> \E v \in {Assessments, Conditions} : Lacks(schema, d, v)
  BY <1>2 DEF Incompatible
<1>4. /\ Lacks(schema, d, Assessments) <=> ~HasAll(Assessments, {"ID", "TIMESTAMP"})
      /\ Lacks(schema, d, Conditions) <=> ~HasAll(Conditions, {"LOGGED_AT", "ENDPOINT_ID"})
  BY <1>1 DEF Lacks, HasAll
<1> QED  BY <1>3, <1>4

-----------------------------------------------------------------------------
(* Inspection: how many statements *)

AtMost(S, n) == IsFiniteSet(S) /\ Cardinality(S) \in 0..n

\* One element more.
LEMMA OneMore ==
  ASSUME NEW S, NEW n \in Nat, AtMost(S, n), NEW x, NEW T, T = S \cup {x}
  PROVE  AtMost(T, n + 1)
<1>1. IsFiniteSet(S) /\ Cardinality(S) \in 0..n
  BY DEF AtMost
<1> DEFINE U == S \cup {x}
           k == Cardinality(S)
           m == Cardinality(U)
<1>2. IsFiniteSet(U) /\ m = IF x \in S THEN k ELSE k + 1
  BY Zenon, <1>1, FS_AddElement
<1>3. k \in 0..n
  BY <1>1
<1>4. m \in 0..(n + 1)
  <2> HIDE DEF k, m
  <2> QED  BY <1>2, <1>3
<1>5. AtMost(U, n + 1)
  BY Zenon, <1>2, <1>4 DEF AtMost
<1>6. T = U
  OBVIOUS
<1> HIDE DEF U
<1> QED  BY <1>5, <1>6

\* Five elements are at most five.
LEMMA AtMostFive ==
  ASSUME NEW a, NEW b, NEW c, NEW d, NEW e
  PROVE  AtMost({a, b, c, d, e}, 5)
<1>1. AtMost({a}, 1)
  <2>1. IsFiniteSet({a}) /\ Cardinality({a}) = 1
    BY Zenon, FS_Singleton
  <2>2. 1 \in 0..1
    OBVIOUS
  <2> QED  BY Zenon, <2>1, <2>2 DEF AtMost
<1>2. AtMost({a, b}, 1 + 1)
  <2>1. {a, b} = {a} \cup {b}
    OBVIOUS
  <2> QED  BY <1>1, <2>1, OneMore
<1>3. AtMost({a, b, c}, 2 + 1)
  BY <1>2, OneMore
<1>4. AtMost({a, b, c, d}, 3 + 1)
  BY <1>3, OneMore
<1>5. AtMost({a, b, c, d, e}, 4 + 1)
  BY <1>4, OneMore
<1> QED  BY <1>5

\* Five statements fit in a batch.
LEMMA FewQueries ==
  ASSUME NEW S, NEW a, NEW b, NEW c, NEW d, NEW e, S \subseteq {a, b, c, d, e}
  PROVE  Cardinality(S) <= MaxBatchQueries
<1>1. IsFiniteSet({a, b, c, d, e}) /\ Cardinality({a, b, c, d, e}) \in 0..5
  BY AtMostFive DEF AtMost
<1>2. IsFiniteSet(S) /\ Cardinality(S) <= Cardinality({a, b, c, d, e})
  BY <1>1, FS_Subset
<1>3. Cardinality(S) \in Nat
  BY <1>2, FS_CardinalityType
<1> QED  BY <1>1, <1>2, <1>3 DEF MaxBatchQueries

\* Few statements run when each is parsed.
LEMMA FewRun ==
  ASSUME dataset # Freshness, NEW a, NEW b, NEW c, NEW d, NEW e,
         Queries \subseteq {a, b, c, d, e}
  PROVE  Runnable(schema) <=> \A q \in Queries : Parses(q, schema)
<1>1. Cardinality(Queries) <= MaxBatchQueries
  BY FewQueries
<1> QED  BY <1>1 DEF Runnable

-----------------------------------------------------------------------------
(* Inspection: it agrees with the statements of each dataset *)

\* The inspection admits what runs and blocks what does not.
Agrees ==
  /\ ~Incompatible(schema, dataset) /\ ~Overlooked => Runnable(schema)
  /\ Incompatible(schema, dataset) /\ ~Pointless => ~Runnable(schema)

\* The view of the authentications has a timestamp when one of the two is usable.
LEMMA ViewUsable ==
  /\ HasAll(Base, {"TIMESTAMP"}) \/ HasAll(Week, {"TIMESTAMP", "AUTHORIZATION_POLICY"})
       => HasAll(AuthenticationView, {"TIMESTAMP"})
  /\ ~HasAll(Base, {"TIMESTAMP"}) /\ "TIMESTAMP" \notin schema[Week]
       => ~HasAll(AuthenticationView, {"TIMESTAMP"})
<1> DEFINE base == "TIMESTAMP" \in schema[Base]
           week == {"TIMESTAMP", "AUTHORIZATION_POLICY"} \subseteq schema[Week]
<1>1. AuthenticationView \in {Base, Week}
  BY DEF AuthenticationView
<1>2. base /\ ~week => AuthenticationView = Base
  BY DEF AuthenticationView
<1>3. ~base /\ week => AuthenticationView = Week
  BY DEF AuthenticationView
<1>4. base <=> HasAll(Base, {"TIMESTAMP"})
  BY DEF HasAll
<1>5. /\ week <=> HasAll(Week, {"TIMESTAMP", "AUTHORIZATION_POLICY"})
      /\ week => HasAll(Week, {"TIMESTAMP"})
      /\ HasAll(Week, {"TIMESTAMP"}) => "TIMESTAMP" \in schema[Week]
  BY DEF HasAll
<1> QED  BY <1>1, <1>2, <1>3, <1>4, <1>5

\* dataconnect_radius, with its two authentication views.
LEMMA RadiusAgrees ==
  ASSUME dataset = "dataconnect_radius"
  PROVE  Agrees
<1> DEFINE auth == Select("authentication",
                          {Read(AuthenticationView, {"TIMESTAMP"}, Details \cup Policies)})
           all == Select("volume_summary", {Read(Summary, Volumes, Dimensions)})
           vol == [all EXCEPT !.whole = schema[Summary] \cap Dimensions # {}]
           acc == Select("accounting", {Read(Accounting, {"TIMESTAMP"},
                                             {"ACCT_STATUS_TYPE", "DEVICE_NAME"})})
           err == Select("errors", {Read(Errors, {"TIMESTAMP"}, {"MESSAGE_CODE"})})
           dis == Select("distinct_totals",
                         {Read(Summary, {"TIMESTAMP", "CALLING_STATION_ID"}, {})})
<1>1. dataset # Freshness
  BY DEF Freshness
<1>2. Queries = {auth, vol, acc, err} \cup
                  (IF "CALLING_STATION_ID" \in schema[Summary] THEN {dis} ELSE {})
  BY DEF Queries, radius_queries, Accounting, Errors, Volumes
<1>3. Parses(vol, schema) <=> schema[Summary] \cap Dimensions # {} /\ Parses(all, schema)
  BY DEF Parses, Select
<1>4. /\ Parses(auth, schema) <=> HasAll(AuthenticationView, {"TIMESTAMP"})
      /\ Parses(all, schema) <=> HasAll(Summary, Volumes)
      /\ Parses(acc, schema) <=> HasAll(Accounting, {"TIMESTAMP"})
      /\ Parses(err, schema) <=> HasAll(Errors, {"TIMESTAMP"})
      /\ Parses(dis, schema) <=> HasAll(Summary, {"TIMESTAMP", "CALLING_STATION_ID"})
  BY ParsesOne
<1>5. "CALLING_STATION_ID" \in schema[Summary] /\ HasAll(Summary, Volumes)
        => HasAll(Summary, {"TIMESTAMP", "CALLING_STATION_ID"})
  BY DEF HasAll, Volumes
<1>6. Runnable(schema) <=> \A q \in Queries : Parses(q, schema)
  <2> HIDE DEF auth, vol, acc, err, dis
  <2>1. Queries \subseteq {auth, vol, acc, err, dis}
    BY <1>2
  <2> QED  BY <1>1, <2>1, FewRun
<1>7. /\ Overlooked <=> schema[Summary] \cap Dimensions = {}
      /\ Pointless <=> "AUTHORIZATION_POLICY" \notin schema[Week]
  BY DEF Overlooked, Pointless
<1>8. "AUTHORIZATION_POLICY" \in schema[Week] /\ ~HasAll(Week, {"TIMESTAMP", "AUTHORIZATION_POLICY"})
        => "TIMESTAMP" \notin schema[Week]
  BY DEF HasAll
<1> HIDE DEF auth, all, vol, acc, err, dis
<1>9. Runnable(schema) <=>
        /\ HasAll(AuthenticationView, {"TIMESTAMP"}) /\ HasAll(Summary, Volumes)
        /\ schema[Summary] \cap Dimensions # {}
        /\ HasAll(Accounting, {"TIMESTAMP"}) /\ HasAll(Errors, {"TIMESTAMP"})
  BY <1>2, <1>3, <1>4, <1>5, <1>6
<1> QED  BY <1>7, <1>8, <1>9, RadiusNeeds, ViewUsable DEF Agrees

\* Datasets whose statements always name just what the inspection requires.
LEMMA ActiveAgrees ==
  ASSUME dataset = "dataconnect_radius_active"
  PROVE  Agrees
<1> DEFINE q == Select("active_sessions", {Read(Accounting, ActiveColumns, {"DEVICE_NAME"})})
<1>1. dataset # Freshness /\ Queries = {q}
  BY DEF Freshness, Queries, active_queries, Accounting
<1>2. /\ DOMAIN RequiredColumns["dataconnect_radius_active"] = {Accounting}
      /\ RequiredColumns["dataconnect_radius_active"][Accounting] = ActiveColumns
  BY DEF RequiredColumns, Accounting
<1>3. Incompatible(schema, dataset) <=> ~HasAll(Accounting, ActiveColumns)
  BY <1>2, SimpleNeeds
<1>4. Parses(q, schema) <=> HasAll(Accounting, ActiveColumns)
  BY ParsesOne
<1> HIDE DEF q
<1>5. Runnable(schema) <=> Parses(q, schema)
  <2>1. Queries \subseteq {q, q, q, q, q}
    BY <1>1
  <2> QED  BY <1>1, <2>1, FewRun
<1> QED  BY <1>3, <1>4, <1>5 DEF Agrees

\* dataconnect_performance.
LEMMA PerformanceAgrees ==
  ASSUME dataset = "dataconnect_performance"
  PROVE  Agrees
<1> DEFINE K == "KEY_PERFORMANCE_METRICS"
           Y == "SYSTEM_SUMMARY"
           A == "AAA_DIAGNOSTICS_VIEW"
           D == "SYSTEM_DIAGNOSTICS_VIEW"
           kpi == Select("kpi", {Read(K, {"LOGGED_TIME", "ISE_NODE"}, {"AVG_TPS"})})
           sys == Select("system", {Read(Y, {"TIMESTAMP", "ISE_NODE"}, {"CPU_UTILIZATION"})})
           dgn(v) == Select(v, {Read(v, {"TIMESTAMP", "ISE_NODE"}, {"CATEGORY"})})
           R == RequiredColumns["dataconnect_performance"]
<1>1. dataset # Freshness /\ Queries = {kpi, sys} \cup {dgn(v) : v \in {A, D}}
  BY DEF Freshness, Queries, performance_queries
<1>2. /\ DOMAIN R = {K, Y, A, D} /\ R[K] = {"LOGGED_TIME", "ISE_NODE"}
      /\ R[Y] = {"TIMESTAMP", "ISE_NODE"} /\ R[A] = {"TIMESTAMP", "ISE_NODE"}
      /\ R[D] = {"TIMESTAMP", "ISE_NODE"}
  BY DEF RequiredColumns
<1>3. Incompatible(schema, dataset) <=>
        \/ ~HasAll(K, {"LOGGED_TIME", "ISE_NODE"}) \/ ~HasAll(Y, {"TIMESTAMP", "ISE_NODE"})
        \/ ~HasAll(A, {"TIMESTAMP", "ISE_NODE"}) \/ ~HasAll(D, {"TIMESTAMP", "ISE_NODE"})
  BY <1>2, SimpleNeeds
<1>4. /\ Parses(kpi, schema) <=> HasAll(K, {"LOGGED_TIME", "ISE_NODE"})
      /\ Parses(sys, schema) <=> HasAll(Y, {"TIMESTAMP", "ISE_NODE"})
      /\ Parses(dgn(A), schema) <=> HasAll(A, {"TIMESTAMP", "ISE_NODE"})
      /\ Parses(dgn(D), schema) <=> HasAll(D, {"TIMESTAMP", "ISE_NODE"})
  BY ParsesOne
<1> HIDE DEF kpi, sys, dgn
<1>5. Queries = {kpi, sys, dgn(A), dgn(D)}
  BY <1>1
<1>6. Runnable(schema) <=> \A q \in {kpi, sys, dgn(A), dgn(D)} : Parses(q, schema)
  <2>1. Queries \subseteq {kpi, sys, dgn(A), dgn(D), kpi}
    BY <1>5
  <2> QED  BY <1>1, <1>5, <2>1, FewRun
<1> QED  BY <1>3, <1>4, <1>6 DEF Agrees

\* The inventory is optional: it is read only where it has its columns.
LEMMA PostureAgrees ==
  ASSUME dataset = "dataconnect_posture"
  PROVE  Agrees
<1> DEFINE one == Read(Assessments, {"ID", "TIMESTAMP"}, {Mac, "POSTURE_STATUS"})
           joins == Mac \in schema[Assessments]
                    /\ {"MAC_ADDRESS", "POSTURE_APPLICABLE"} \subseteq schema[Inventory]
           two == Read(Inventory, {"MAC_ADDRESS", "POSTURE_APPLICABLE"}, {})
           snap == Select("snapshot", {one} \cup (IF joins THEN {two} ELSE {}))
           cond == Select("conditions", {Read(Conditions, {"LOGGED_AT", "ENDPOINT_ID"}, {"POLICY"})})
<1>1. dataset # Freshness /\ Queries = {snap, cond}
  BY DEF Freshness, Queries, posture_queries, Conditions
<1>2. Parses(snap, schema) <=> HasAll(Assessments, {"ID", "TIMESTAMP"})
  <2>1. snap.whole /\ snap.reads = {one} \cup (IF joins THEN {two} ELSE {})
    BY DEF Select
  <2>2. /\ one.view = Assessments
        /\ one.cols = {"ID", "TIMESTAMP"} \cup ({Mac, "POSTURE_STATUS"} \cap schema[Assessments])
        /\ two.view = Inventory
        /\ two.cols = {"MAC_ADDRESS", "POSTURE_APPLICABLE"} \cup ({} \cap schema[Inventory])
    BY DEF Read
  <2>3. joins => schema[Inventory] # {} /\ two.cols \subseteq schema[Inventory]
    BY <2>2
  <2> HIDE DEF one, two, snap, joins
  <2>4. schema[one.view] # {} /\ one.cols \subseteq schema[one.view]
          <=> HasAll(Assessments, {"ID", "TIMESTAMP"})
    BY <2>2 DEF HasAll
  <2> QED  BY <2>1, <2>2, <2>3, <2>4 DEF Parses
<1>3. Parses(cond, schema) <=> HasAll(Conditions, {"LOGGED_AT", "ENDPOINT_ID"})
  BY ParsesOne
<1> HIDE DEF snap, cond
<1>4. Runnable(schema) <=> Parses(snap, schema) /\ Parses(cond, schema)
  <2>1. Queries \subseteq {snap, cond, cond, cond, cond}
    BY <1>1
  <2> QED  BY <1>1, <2>1, FewRun
<1> QED  BY <1>2, <1>3, <1>4, PostureNeeds DEF Agrees

\* dataconnect_endpoints.
LEMMA EndpointsAgree ==
  ASSUME dataset = "dataconnect_endpoints"
  PROVE  Agrees
<1> DEFINE inv == Select("inventory", {Read(Inventory, {}, {"HOSTNAME", "POSTURE_APPLICABLE"})})
           pro == Select("profiling", {Read(Profiled, {"TIMESTAMP", "ENDPOINT_ID"}, {"SOURCE"})})
           R == RequiredColumns["dataconnect_endpoints"]
<1>1. dataset # Freshness /\ Queries = {inv, pro}
  BY DEF Freshness, Queries, endpoints_queries, Profiled
<1>2. /\ DOMAIN R = {Inventory, Profiled} /\ R[Inventory] = {}
      /\ R[Profiled] = {"TIMESTAMP", "ENDPOINT_ID"}
  BY DEF RequiredColumns, Inventory, Profiled
<1>3. Incompatible(schema, dataset) <=>
        ~HasAll(Inventory, {}) \/ ~HasAll(Profiled, {"TIMESTAMP", "ENDPOINT_ID"})
  BY <1>2, SimpleNeeds
<1>4. /\ Parses(inv, schema) <=> HasAll(Inventory, {})
      /\ Parses(pro, schema) <=> HasAll(Profiled, {"TIMESTAMP", "ENDPOINT_ID"})
  BY ParsesOne
<1> HIDE DEF inv, pro
<1>5. Runnable(schema) <=> Parses(inv, schema) /\ Parses(pro, schema)
  <2>1. Queries \subseteq {inv, pro, pro, pro, pro}
    BY <1>1
  <2> QED  BY <1>1, <2>1, FewRun
<1> QED  BY <1>3, <1>4, <1>5 DEF Agrees

\* dataconnect_nad_health, which is blocked also where it would be pointless.
LEMMA NadAgrees ==
  ASSUME dataset = "dataconnect_nad_health"
  PROVE  Agrees
<1> DEFINE act == Select("activity", {Read(Summary, Volumes, {"DEVICE_NAME"})})
           R == RequiredColumns["dataconnect_nad_health"]
<1>1. dataset # Freshness /\ Queries = {act}
  BY DEF Freshness, Queries, nad_queries, Volumes
<1>2. DOMAIN R = {Summary} /\ R[Summary] = Volumes \cup {"DEVICE_NAME"}
  BY DEF RequiredColumns, Summary, Volumes
<1>3. Incompatible(schema, dataset) <=> ~HasAll(Summary, Volumes \cup {"DEVICE_NAME"})
  BY <1>2, SimpleNeeds
<1>4. Parses(act, schema) <=> HasAll(Summary, Volumes)
  BY ParsesOne
<1>5. Pointless <=> "DEVICE_NAME" \notin schema[Summary]
  BY DEF Pointless
<1>6. HasAll(Summary, Volumes \cup {"DEVICE_NAME"})
        <=> HasAll(Summary, Volumes) /\ "DEVICE_NAME" \in schema[Summary]
  BY DEF HasAll
<1> HIDE DEF act
<1>7. Runnable(schema) <=> Parses(act, schema)
  <2>1. Queries \subseteq {act, act, act, act, act}
    BY <1>1
  <2> QED  BY <1>1, <2>1, FewRun
<1> QED  BY <1>3, <1>4, <1>5, <1>6, <1>7 DEF Agrees

\* tacacs_activity.
LEMMA TacacsAgrees ==
  ASSUME dataset = "tacacs_activity"
  PROVE  Agrees
<1> DEFINE act(v) == Select(v, {Read(v, {"EPOCH_TIME"}, {"USERNAME"})})
           R == RequiredColumns["tacacs_activity"]
           A == "TACACS_AUTHENTICATION_LAST_TWO_DAYS"
           Z == "TACACS_AUTHORIZATION_LAST_TWO_DAYS"
           C == "TACACS_ACCOUNTING_LAST_TWO_DAYS"
<1>1. dataset # Freshness /\ Queries = {act(v) : v \in TacacsViews}
  BY DEF Freshness, Queries, activity_queries
<1>2. DOMAIN R = TacacsViews /\ \A v \in TacacsViews : R[v] = {"EPOCH_TIME"}
  BY DEF RequiredColumns
<1>3. TacacsViews = {A, Z, C}
  BY DEF TacacsViews, Columns, ContractViews, Tacacs, Diagnostics
<1>4. Incompatible(schema, dataset) <=> \E v \in TacacsViews : ~HasAll(v, {"EPOCH_TIME"})
  BY <1>2, SimpleNeeds
<1>5. \A v : Parses(act(v), schema) <=> HasAll(v, {"EPOCH_TIME"})
  BY ParsesOne
<1> HIDE DEF act
<1>6. Runnable(schema) <=> \A v \in TacacsViews : Parses(act(v), schema)
  <2>1. Queries \subseteq {act(A), act(Z), act(C), act(C), act(C)}
    BY <1>1, <1>3
  <2> QED  BY <1>1, <2>1, FewRun
<1> QED  BY <1>4, <1>5, <1>6 DEF Agrees

-----------------------------------------------------------------------------
(* Inspection: the datasets it says nothing about, and the freshness *)

\* endpoint_fleet and the accounting counters look for their columns themselves.
LEMMA UnlistedRun ==
  ASSUME dataset \in Unlisted, ~Overlooked
  PROVE  Runnable(schema)
<1> DEFINE ass == Select("assessments", {Read(Assessments, {"ID", "TIMESTAMP", Mac}, {"POSTURE_STATUS"})})
           eli == Select("eligible", {Read(Inventory, {"POSTURE_APPLICABLE"}, {})})
           min == Select("min", {Read(Accounting, {"ID"}, {})})
           max == Select("max", {Read(Accounting, {"ID"}, {})})
           tail == Select("tail", {Read(Accounting, {"ID", "TIMESTAMP"}, {"ACCT_STATUS_TYPE"})})
<1>1. dataset # Freshness
  BY DEF Freshness, Unlisted
<1>2. /\ Parses(ass, schema) <=> HasAll(Assessments, {"ID", "TIMESTAMP", Mac})
      /\ Parses(eli, schema) <=> HasAll(Inventory, {"POSTURE_APPLICABLE"})
      /\ Parses(min, schema) <=> HasAll(Accounting, {"ID"})
      /\ Parses(max, schema) <=> HasAll(Accounting, {"ID"})
      /\ Parses(tail, schema) <=> HasAll(Accounting, {"ID", "TIMESTAMP"})
  BY ParsesOne
<1>3. CASE dataset = "endpoint_fleet"
  <2>1. Queries = (IF Mac \in schema[Assessments] THEN {ass} ELSE {})
          \cup (IF {"MAC_ADDRESS", "POSTURE_APPLICABLE"} \subseteq schema[Inventory]
                THEN {eli} ELSE {})
    BY <1>3 DEF Queries, fleet_queries
  <2>2. {"ID", "TIMESTAMP"} \subseteq schema[Assessments]
    BY <1>3 DEF Overlooked
  <2>3. /\ Mac \in schema[Assessments] => HasAll(Assessments, {"ID", "TIMESTAMP", Mac})
        /\ {"MAC_ADDRESS", "POSTURE_APPLICABLE"} \subseteq schema[Inventory]
             => HasAll(Inventory, {"POSTURE_APPLICABLE"})
    BY <2>2 DEF HasAll
  <2> HIDE DEF ass, eli
  <2>4. Queries \subseteq {ass, eli, eli, eli, eli}
    BY <2>1
  <2>5. \A q \in Queries : Parses(q, schema)
    BY <1>2, <2>1, <2>3
  <2> QED  BY <1>1, <2>4, <2>5, FewRun
<1>4. CASE dataset = "dataconnect_accounting_counters"
  <2>1. Queries = IF "ID" \notin schema[Accounting] THEN {} ELSE {min, max, tail}
    BY <1>4 DEF Queries, tail_queries, Accounting
  <2>2. "TIMESTAMP" \in schema[Accounting]
    BY <1>4 DEF Overlooked, Accounting
  <2>3. "ID" \in schema[Accounting]
          => HasAll(Accounting, {"ID"}) /\ HasAll(Accounting, {"ID", "TIMESTAMP"})
    BY <2>2 DEF HasAll
  <2> HIDE DEF min, max, tail
  <2>4. Queries \subseteq {min, max, tail, tail, tail}
    BY <2>1
  <2>5. \A q \in Queries : Parses(q, schema)
    BY <1>2, <2>1, <2>3
  <2> QED  BY <1>1, <2>4, <2>5, FewRun
<1> QED  BY <1>3, <1>4 DEF Unlisted

\* The elements of two sets together.
LEMMA AtMostBoth ==
  ASSUME NEW S, NEW T, NEW n \in Nat, NEW m \in Nat, AtMost(S, n), AtMost(T, m)
  PROVE  AtMost(S \cup T, n + m)
<1>1. /\ IsFiniteSet(S \cup T)
      /\ Cardinality(S \cup T) = Cardinality(S) + Cardinality(T) - Cardinality(S \cap T)
  BY FS_Union DEF AtMost
<1>2. IsFiniteSet(S \cap T)
  BY FS_Subset DEF AtMost
<1>3. Cardinality(S \cap T) \in Nat /\ Cardinality(S \cup T) \in Nat
  BY <1>1, <1>2, FS_CardinalityType
<1> QED  BY <1>1, <1>3 DEF AtMost

\* There are sixteen views, so no more probes.
LEMMA ViewsCounted == AtMost(ContractViews, 20)
<1> DEFINE A == {Base, Week, Summary, Accounting, Errors}
           B == {Inventory, Profiled, Assessments, Conditions, "KEY_PERFORMANCE_METRICS"}
           C == {"SYSTEM_SUMMARY", "AAA_DIAGNOSTICS_VIEW", "SYSTEM_DIAGNOSTICS_VIEW",
                 "TACACS_AUTHENTICATION_LAST_TWO_DAYS", "TACACS_AUTHORIZATION_LAST_TWO_DAYS"}
           T == "TACACS_ACCOUNTING_LAST_TWO_DAYS"
           D == {T, T, T, T, T}
<1>1. ContractViews = (A \cup B) \cup (C \cup D)
  BY DEF ContractViews, Columns, Base, Week, Summary, Accounting, Errors, Inventory, Profiled,
     Assessments, Conditions
<1>2. AtMost(A, 5) /\ AtMost(B, 5) /\ AtMost(C, 5) /\ AtMost(D, 5)
  BY AtMostFive
<1> HIDE DEF A, B, C, D
<1>3. AtMost(A \cup B, 5 + 5) /\ AtMost(C \cup D, 5 + 5)
  BY <1>2, AtMostBoth
<1>4. AtMost((A \cup B) \cup (C \cup D), 10 + 10)
  BY <1>3, AtMostBoth
<1> QED  BY <1>1, <1>4

\* _chunk_views never needs a sixth statement.
LEMMA Chunks == \A n \in 0..20 : ChunkCount(n) <= MaxBatchQueries
<1>1. ASSUME NEW n \in 0..20 PROVE ChunkCount(n) <= 5
  <2>1. RoundUp(n, 5) <= 4 /\ RoundUp(n, 5) \in Int
    BY DEF RoundUp
  <2>2. Larger(4, RoundUp(n, 5)) = 4
    BY <2>1 DEF Larger
  <2>3. RoundUp(n, 4) <= 5
    BY DEF RoundUp
  <2> QED  BY <2>2, <2>3 DEF ChunkCount, BranchesPerStatement, MaxBatchQueries
<1> QED  BY <1>1 DEF MaxBatchQueries

\* The freshness probes read columns that are there.
LEMMA FreshnessRuns ==
  ASSUME dataset = Freshness, Timestamped(schema) # {},
         \A v \in Contracts : catalog[v] = schema[v]
  PROVE  Runnable(catalog)
<1> DEFINE probe(v) == Select(v, {Read(v, {ProbeColumn(v)}, {})})
           P == Timestamped(schema)
           f == [v \in P |-> probe(v)]
<1>1. Queries = {probe(v) : v \in P}
  BY DEF Queries, freshness_queries, Freshness
<1>2. P \in SUBSET ContractViews /\ P \in SUBSET Contracts
  BY DEF Timestamped, Contracts
<1>3. ASSUME NEW v \in P PROVE Parses(probe(v), catalog)
  <2>1. ProbeColumn(v) \in schema[v]
    BY <1>3 DEF Timestamped, ProbeColumn
  <2>2. /\ Read(v, {ProbeColumn(v)}, {}).view = v
        /\ Read(v, {ProbeColumn(v)}, {}).cols = {ProbeColumn(v)} \cup ({} \cap schema[v])
    BY DEF Read
  <2>3. catalog[v] = schema[v]
    BY <1>2
  <2>4. probe(v).whole /\ probe(v).reads = {Read(v, {ProbeColumn(v)}, {})}
    BY DEF Select
  <2> HIDE DEF probe
  <2> QED  BY <2>1, <2>2, <2>3, <2>4 DEF Parses
<1> HIDE DEF probe
<1>4. Cardinality(Queries) \in 0..20
  <2>1. IsFiniteSet(P) /\ Cardinality(P) <= Cardinality(ContractViews) /\ Cardinality(ContractViews) \in 0..20
    BY <1>2, ViewsCounted, FS_Subset DEF AtMost
  <2>2. f \in Surjection(P, Queries)
    BY <1>1 DEF Surjection
  <2>3. IsFiniteSet(Queries) /\ Cardinality(Queries) <= Cardinality(P)
    BY <2>1, <2>2, FS_Surjection
  <2>4. Cardinality(Queries) \in Nat /\ Cardinality(P) \in Nat
    BY <2>1, <2>3, FS_CardinalityType
  <2> QED  BY <2>1, <2>3, <2>4
<1>5. Queries # {}
  BY <1>1
<1>6. \A q \in Queries : Parses(q, catalog)
  BY <1>1, <1>3
<1> QED  BY <1>4, <1>5, <1>6, Chunks DEF Runnable

-----------------------------------------------------------------------------
(* Inspection: the invariant *)

\* The inspection is of the catalog as long as it has not changed.
SchemaInv ==
  /\ dataset \in SchemaDatasets /\ (dataset # Freshness => tacacs)
  /\ drift \in Nat
  /\ ready => blocked = Failures(schema)
  /\ ready /\ drift = 0 => schema = Discovered
  /\ outcome = "failed" => drift > 0 \/ Overlooked

\* The datasets with a contract.
LEMMA ContractedKnown ==
  /\ Contracted = {"dataconnect_radius", "dataconnect_radius_active", "dataconnect_performance",
                   "dataconnect_posture", "dataconnect_endpoints", "dataconnect_nad_health",
                   "tacacs_activity"}
  /\ Freshness \notin Contracted /\ Freshness \notin Unlisted /\ Unlisted \cap Contracted = {}
<1>1. Contracted = {"dataconnect_radius", "dataconnect_radius_active", "dataconnect_performance",
                   "dataconnect_posture", "dataconnect_endpoints", "dataconnect_nad_health",
                   "tacacs_activity"}
  BY DEF Contracted, RequiredColumns
<1> QED  BY <1>1 DEF Freshness, Unlisted

\* All of them agree.
LEMMA ContractedAgree ==
  ASSUME dataset \in Contracted
  PROVE  Agrees
BY ContractedKnown, RadiusAgrees, ActiveAgrees, PerformanceAgrees, PostureAgrees, EndpointsAgree,
   NadAgrees, TacacsAgrees

\* A dataset the inspection admits runs on the catalog it inspected.
LEMMA AdmittedRuns ==
  ASSUME SchemaInv, ready, dataset \notin blocked, drift = 0, ~Overlooked
  PROVE  Runnable(catalog)
<1>1. schema = Discovered /\ dataset \notin Failures(schema)
  BY DEF SchemaInv
<1>2. CASE dataset = Freshness
  <2>1. Timestamped(schema) # {}
    BY <1>1, <1>2 DEF Failures
  <2>2. Contracts \in SUBSET ContractViews
    BY DEF Contracts
  <2>3. \A v \in Contracts : catalog[v] = schema[v]
    BY <1>1, <2>2 DEF Discovered
  <2> QED  BY <1>2, <2>1, <2>3, FreshnessRuns
<1>3. CASE dataset # Freshness
  <2>1. tacacs
    BY <1>3 DEF SchemaInv
  <2>2. schema = catalog
    <3>1. Contracts = ContractViews
      BY <2>1 DEF Contracts
    <3> QED  BY <1>1, <3>1 DEF Discovered, catalog
  <2>3. dataset \in Contracted \cup Unlisted
    BY <1>3 DEF SchemaInv, SchemaDatasets
  <2>4. dataset \in Contracted => ~Incompatible(schema, dataset)
    BY <1>1, <2>1 DEF Failures
  <2>5. Runnable(schema)
    BY <2>3, <2>4, ContractedAgree, UnlistedRun DEF Agrees
  <2> QED  BY <2>2, <2>5
<1> QED  BY <1>2, <1>3

\* A dataset it blocks could not run.
LEMMA BlockedFails ==
  ASSUME SchemaInv, ready, dataset \in blocked, ~Pointless
  PROVE  ~Runnable(schema)
<1>1. dataset \in Failures(schema)
  BY DEF SchemaInv
<1>2. CASE dataset = Freshness
  <2>1. Timestamped(schema) = {}
    BY <1>1, <1>2, ContractedKnown DEF Failures
  <2>2. Queries = {}
    BY <1>2, <2>1 DEF Queries, freshness_queries, Freshness
  <2> QED  BY <1>2, <2>2 DEF Runnable
<1>3. CASE dataset # Freshness
  <2>1. dataset \in Contracted /\ Incompatible(schema, dataset)
    BY <1>1, <1>3 DEF Failures
  <2> QED  BY <2>1, ContractedAgree DEF Agrees
<1> QED  BY <1>2, <1>3

\* The initial states satisfy the invariant.
LEMMA SchemaInitInv == SchemaInit => SchemaInv
<1> SUFFICES ASSUME SchemaInit PROVE SchemaInv
  OBVIOUS
<1>1. dataset \in SchemaDatasets /\ ready = FALSE /\ drift = 0 /\ outcome = "none"
  BY DEF SchemaInit
<1>2. dataset # Freshness => tacacs \in {TRUE}
  BY DEF SchemaInit
<1>3. dataset # Freshness => tacacs
  BY <1>2
<1> QED  BY <1>1, <1>3 DEF SchemaInv

\* Every step keeps the invariant.
LEMMA SchemaNextInv == SchemaInv /\ [SchemaNext]_schemaVars => SchemaInv'
<1> SUFFICES ASSUME SchemaInv, [SchemaNext]_schemaVars PROVE SchemaInv'
  OBVIOUS
<1>1. CASE inspect_dataconnect_schema
  <2>1. Discovered' = Discovered /\ Failures(schema)' = Failures(Discovered)
    BY <1>1 DEF inspect_dataconnect_schema, Discovered, catalog, Contracts, Failures, Timestamped
  <2> QED  BY <1>1, <2>1 DEF inspect_dataconnect_schema, SchemaInv
<1>2. CASE CollectDataset
  <2>1. UNCHANGED <<dataset, tacacs, lost, schema, ready, drift, blocked>>
    BY <1>2 DEF CollectDataset
  <2>2. /\ Discovered' = Discovered /\ Failures(schema)' = Failures(schema)
        /\ Overlooked' = Overlooked
    BY <2>1 DEF Discovered, catalog, Contracts, Failures, Timestamped, Overlooked
  <2>3. outcome' = "failed" => ~Runnable(catalog)
    BY <1>2 DEF CollectDataset
  <2>4. outcome' = "failed" => drift > 0 \/ Overlooked
    BY <1>2, <2>3, AdmittedRuns DEF CollectDataset, SchemaInv
  <2> QED  BY <2>1, <2>2, <2>4 DEF SchemaInv
<1>3. CASE AlterCatalog
  <2>1. /\ UNCHANGED <<dataset, tacacs, schema, ready, blocked>> /\ outcome' = "none"
        /\ drift' = IF ready THEN drift + 1 ELSE 0
    BY <1>3 DEF AlterCatalog
  <2>2. Failures(schema)' = Failures(schema)
    BY <2>1 DEF Failures, Timestamped, Contracts
  <2> QED  BY <2>1, <2>2 DEF SchemaInv
<1>4. CASE UNCHANGED schemaVars
  <2>1. /\ Discovered' = Discovered /\ Failures(schema)' = Failures(schema)
        /\ Overlooked' = Overlooked
    BY <1>4 DEF schemaVars, Discovered, catalog, Contracts, Failures, Timestamped, Overlooked
  <2> QED  BY <1>4, <2>1 DEF schemaVars, SchemaInv
<1> QED  BY <1>1, <1>2, <1>3, <1>4 DEF SchemaNext

\* InspectionExact for every catalog: whatever views and columns ISE shows the
\* account, a dataset that inspect_dataconnect_schema admits never fails over
\* them before the catalog changes (but for what it overlooks), and one it
\* blocks could not have run, or not usefully.
THEOREM InspectionIsExact == SchemaSpec => []InspectionExact
<1>1. SchemaInv => InspectionExact
  BY BlockedFails DEF SchemaInv, InspectionExact
<1> QED  BY <1>1, SchemaInitInv, SchemaNextInv, PTL DEF SchemaSpec

-----------------------------------------------------------------------------
(* Inspection: types *)

\* An inspection takes of every view columns of its contract; what it blocks
\* are datasets it knows.
LEMMA Inspected ==
  ASSUME inspect_dataconnect_schema
  PROVE  /\ \A v \in ContractViews : schema'[v] \subseteq Columns[v]
         /\ blocked' \subseteq Contracted \cup {Freshness}
<1>1. schema' = Discovered /\ blocked' = Failures(Discovered)
  BY DEF inspect_dataconnect_schema
<1>2. \A v \in ContractViews : Discovered[v] \subseteq Columns[v]
  BY DEF Discovered, catalog
<1>3. Failures(Discovered) \subseteq Contracted \cup {Freshness}
  BY DEF Failures
<1> QED  BY <1>1, <1>2, <1>3

LEMMA SchemaTypeInit == SchemaInit => SchemaTypeOK
<1> SUFFICES ASSUME SchemaInit PROVE SchemaTypeOK
  OBVIOUS
<1>1. Cardinality({}) <= MaxLost /\ 0 \in 0..MaxDrift
  BY FS_EmptySet, SchemaAssumption
<1>2. Cardinality(lost) <= MaxLost \/ lost = Losses
  BY <1>1 DEF SchemaInit
<1>3. tacacs \in BOOLEAN
  BY DEF SchemaInit
<1> QED  BY <1>1, <1>2, <1>3 DEF SchemaInit, SchemaTypeOK

LEMMA SchemaTypeNext == SchemaTypeOK /\ [SchemaNext]_schemaVars => SchemaTypeOK'
<1> SUFFICES ASSUME SchemaTypeOK, [SchemaNext]_schemaVars PROVE SchemaTypeOK'
  OBVIOUS
<1>1. dataset' = dataset => Losses' = Losses
  BY DEF Losses, Sources
<1>2. CASE inspect_dataconnect_schema
  <2>1. drift' \in 0..MaxDrift
    BY <1>2, SchemaAssumption DEF inspect_dataconnect_schema
  <2> QED  BY <1>1, <1>2, <2>1, Inspected DEF inspect_dataconnect_schema, SchemaTypeOK
<1>3. CASE CollectDataset
  BY <1>1, <1>3 DEF CollectDataset, SchemaTypeOK
<1>4. CASE AlterCatalog
  <2>1. drift' \in 0..MaxDrift
    BY <1>4, SchemaAssumption DEF AlterCatalog, SchemaTypeOK
  <2>2. Cardinality(lost') <= MaxLost
    BY <1>4 DEF AlterCatalog
  <2> QED  BY <1>4, <2>1, <2>2 DEF AlterCatalog, SchemaTypeOK
<1>5. CASE UNCHANGED schemaVars
  BY <1>1, <1>5 DEF schemaVars, SchemaTypeOK
<1> QED  BY <1>2, <1>3, <1>4, <1>5 DEF SchemaNext

\* What the inspection finds of a view are columns of its contract, and it
\* blocks no dataset it has no contract for, whatever comes and goes in the
\* catalog (dataconnect_schema.py).
THEOREM SchemaTypeCorrect == SchemaSpec => []SchemaTypeOK
<1> QED  BY SchemaTypeInit, SchemaTypeNext, PTL DEF SchemaSpec

-----------------------------------------------------------------------------
(* Reports: the inductive invariant *)

Records == [thing : Things, at : Nat, by : {"first", "second", "account", "none"}, nth : Nat,
            status : {"start", "interim", "stop", "compliant", "failed", "pending"}]

\* Every record that was written, in the view or on its way.
Logged == {log[i] : i \in 1..Len(log)}
AllRecords == waiting \cup Logged

\* The last record of a thing: none is later or has a higher number.
LastOf(r, x) ==
  /\ r.thing = x /\ r.status = truth[x]
  /\ \A s \in AllRecords : s.thing = x => s.at <= r.at /\ s.nth <= r.nth

LogTypes ==
  /\ clock \in Nat /\ sent \in [Things -> Nat] /\ DOMAIN truth = Things
  /\ waiting \in SUBSET Records /\ log \in Seq(Records)
  /\ view \in Views /\ limit \in Nat \ {0}

RecordsDated == \A r \in AllRecords : r.at <= clock /\ r.nth \in 1..sent[r.thing]
LastWritten == \A x \in Things : sent[x] > 0 => \E r \in AllRecords : LastOf(r, x)

LogInv == LogTypes /\ RecordsDated /\ LastWritten

-----------------------------------------------------------------------------
(* Reports: the log *)

\* A record moves from the way to the view.
LEMMA ArriveStep ==
  ASSUME LogInv, NEW r \in waiting, Arrive(r)
  PROVE  LogInv'
<1>1. /\ waiting' = waiting \ {r} /\ log' = Append(log, r) /\ clock' = clock /\ truth' = truth
      /\ sent' = sent /\ view' = view /\ limit' = limit
  BY DEF Arrive, viewVars
<1>2. log \in Seq(Records) /\ r \in Records
  BY DEF LogInv, LogTypes
<1>3. /\ log' \in Seq(Records) /\ Len(log') = Len(log) + 1 /\ Len(log) \in Nat
      /\ \A i \in 1..Len(log) : log'[i] = log[i]
      /\ log'[Len(log) + 1] = r
  BY <1>1, <1>2, AppendProperties, LenProperties
<1>4. Logged' = Logged \cup {r}
  <2>1. ASSUME NEW s \in Logged' PROVE s \in Logged \cup {r}
    <3>1. PICK i \in 1..(Len(log) + 1) : s = log'[i]
      BY <1>3, <2>1 DEF Logged
    <3>2. i \in 1..Len(log) \/ i = Len(log) + 1
      BY <1>3
    <3> QED  BY <1>3, <3>1, <3>2 DEF Logged
  <2>2. ASSUME NEW s \in Logged PROVE s \in Logged'
    <3>1. PICK i \in 1..Len(log) : s = log[i]
      BY <2>2 DEF Logged
    <3>2. i \in 1..(Len(log) + 1)
      BY <1>3
    <3> QED  BY <1>3, <3>1, <3>2 DEF Logged
  <2>3. r \in Logged'
    <3>1. Len(log) + 1 \in 1..(Len(log) + 1)
      BY <1>3
    <3> QED  BY <1>3, <3>1 DEF Logged
  <2> QED  BY <2>1, <2>2, <2>3
<1>5. AllRecords' = AllRecords
  BY <1>1, <1>4 DEF AllRecords
<1>6. LogTypes'
  BY <1>1, <1>3 DEF LogInv, LogTypes
<1> QED  BY <1>1, <1>5, <1>6 DEF LogInv, RecordsDated, LastWritten, LastOf

\* A new record is the last of its thing.
LEMMA EmitStep ==
  ASSUME LogInv, NEW x \in Things, NEW st \in Statuses, NEW by \in Identifiers, Emit(x, st, by)
  PROVE  LogInv'
<1>0. PICK n : n = [thing |-> x, at |-> clock, status |-> st, by |-> by, nth |-> sent[x] + 1]
  OBVIOUS
<1>1. /\ waiting' = waiting \cup {n} /\ log' = log /\ clock' = clock
      /\ truth' = [truth EXCEPT ![x] = st] /\ sent' = [sent EXCEPT ![x] = sent[x] + 1]
      /\ view' = view /\ limit' = limit
  BY <1>0 DEF Emit, viewVars
<1>2. clock \in Nat /\ sent \in [Things -> Nat] /\ DOMAIN truth = Things
  BY DEF LogInv, LogTypes
<1>3. st \in {"start", "interim", "stop", "compliant", "failed", "pending"}
  BY DEF Statuses, Live, Failed
<1>4. by \in {"first", "second", "account", "none"}
  BY DEF Identifiers
<1>5. /\ n \in Records /\ n.thing = x /\ n.at = clock /\ n.nth = sent[x] + 1 /\ n.status = st
  BY <1>0, <1>2, <1>3, <1>4 DEF Records
<1>6. AllRecords' = AllRecords \cup {n}
  BY <1>1 DEF AllRecords, Logged
<1>7. LogTypes'
  BY <1>1, <1>2, <1>5 DEF LogInv, LogTypes
<1>8. AllRecords \in SUBSET Records
  <2>1. \A i \in 1..Len(log) : log[i] \in Records
    BY ElementOfSeq DEF LogInv, LogTypes
  <2> QED  BY <2>1 DEF AllRecords, Logged, LogInv, LogTypes
<1>9. \A s \in AllRecords : /\ s.thing \in Things /\ s.at \in Nat /\ s.nth \in Nat
                            /\ s.at <= clock /\ s.nth \in 1..sent[s.thing]
  BY <1>8 DEF LogInv, RecordsDated, Records
<1>10. RecordsDated'
  <2>1. ASSUME NEW s \in AllRecords' PROVE s.at <= clock' /\ s.nth \in 1..sent'[s.thing]
    <3>1. CASE s = n
      BY <1>1, <1>2, <1>5, <3>1
    <3>2. CASE s \in AllRecords
      <4>1. sent'[s.thing] \in {sent[s.thing], sent[s.thing] + 1} /\ sent[s.thing] \in Nat
        BY <1>1, <1>2, <1>9, <3>2
      <4> QED  BY <1>1, <1>9, <3>2, <4>1
    <3> QED  BY <1>6, <2>1, <3>1, <3>2
  <2> QED  BY <2>1 DEF RecordsDated
<1>11. LastWritten'
  <2>1. ASSUME NEW y \in Things, sent'[y] > 0 PROVE \E r \in AllRecords' : LastOf(r, y)'
    <3>1. CASE y = x
      <4>1. truth'[x] = st
        BY <1>1, <1>2
      <4>2. ASSUME NEW s \in AllRecords', s.thing = x PROVE s.at <= n.at /\ s.nth <= n.nth
        BY <1>2, <1>5, <1>6, <1>9, <4>2
      <4>3. LastOf(n, x)'
        BY <1>5, <4>1, <4>2 DEF LastOf
      <4> QED  BY <1>6, <3>1, <4>3
    <3>2. CASE y # x
      <4>1. sent'[y] = sent[y] /\ truth'[y] = truth[y]
        BY <1>1, <1>2, <3>2
      <4>2. PICK r \in AllRecords : LastOf(r, y)
        BY <2>1, <4>1 DEF LogInv, LastWritten
      <4>3. LastOf(r, y)'
        BY <1>5, <1>6, <3>2, <4>1, <4>2 DEF LastOf
      <4> QED  BY <1>6, <4>3
    <3> QED  BY <3>1, <3>2
  <2> QED  BY <2>1 DEF LastWritten
<1> QED  BY <1>7, <1>10, <1>11 DEF LogInv

\* A log that stays as it is, at the same time or a later one.
LEMMA LogKept ==
  ASSUME LogInv, clock' \in {clock, clock + 1},
         UNCHANGED <<viewVars, truth, sent, waiting, log>>
  PROVE  LogInv'
<1>1. AllRecords' = AllRecords /\ view' = view /\ limit' = limit
  BY DEF AllRecords, Logged, viewVars
<1>2. LogTypes'
  BY <1>1 DEF LogInv, LogTypes
<1>3. AllRecords \in SUBSET Records
  <2>1. \A i \in 1..Len(log) : log[i] \in Records
    BY ElementOfSeq DEF LogInv, LogTypes
  <2> QED  BY <2>1 DEF AllRecords, Logged, LogInv, LogTypes
<1>4. RecordsDated'
  <2>1. ASSUME NEW r \in AllRecords PROVE r.at <= clock' /\ r.nth \in 1..sent'[r.thing]
    <3>1. r.at \in Nat /\ clock \in Nat /\ r.at <= clock /\ r.nth \in 1..sent[r.thing]
      BY <1>3 DEF LogInv, LogTypes, RecordsDated, Records
    <3> QED  BY <3>1
  <2> QED  BY <1>1, <2>1 DEF RecordsDated
<1>5. LastWritten'
  BY <1>1 DEF LogInv, LastWritten, LastOf
<1> QED  BY <1>2, <1>4, <1>5 DEF LogInv

-----------------------------------------------------------------------------
(* Reports: the latest row of each thing *)

\* The latest row of a thing is its last record, and there is one of each.
LEMMA LatestRows ==
  ASSUME LogInv, WellLogged, view # "events"
  PROVE  /\ Latest \in SUBSET (1..Len(log)) /\ Len(log) \in Nat
         /\ \A i \in Latest : /\ log[i].thing \in HeardOf
                              /\ log[i].status = truth[log[i].thing]
                              /\ Key(i) = <<"first", log[i].thing>>
         /\ \A i, j \in Latest : log[i].thing = log[j].thing => i = j
         /\ \A x \in HeardOf : \E i \in Latest : log[i].thing = x
<1>1. /\ Len(log) \in Nat /\ \A i \in 1..Len(log) : log[i] \in Records
      /\ waiting = {} /\ clock \in Nat /\ Window \in Nat
  BY LenProperties, ElementOfSeq, ReportsAssumption DEF LogInv, LogTypes, WellLogged
<1>2. \A i \in 1..Len(log) : log[i].at \in Nat /\ log[i].thing \in Things /\ log[i].nth \in Nat
  BY <1>1 DEF Records
<1>3. Recent \in SUBSET (1..Len(log)) /\ \A i \in Recent : log[i].by = "first"
  BY DEF Recent, WellLogged
<1>4. Keyed = Recent /\ \A i \in Recent : Key(i) = <<"first", log[i].thing>>
  <2>1. Keyed = Recent
    BY <1>3 DEF Keyed
  <2> QED  BY <1>3, <2>1 DEF Key
<1>5. Latest = {i \in Recent : \A j \in Recent : log[i].thing = log[j].thing => ~LaterRow(i, j)}
  <2>1. \A i, j \in Recent : Key(i) = Key(j) <=> log[i].thing = log[j].thing
    BY <1>4
  <2> QED  BY <1>4, <2>1 DEF Latest
<1>6. ASSUME NEW i \in Latest, NEW j \in Latest, log[i].thing = log[j].thing PROVE i = j
  <2>1. i \in Recent /\ j \in Recent /\ ~LaterRow(i, j) /\ ~LaterRow(j, i)
    BY <1>5, <1>6
  <2>2. i \in Nat /\ j \in Nat /\ log[i].at \in Nat /\ log[j].at \in Nat
    BY <1>2, <1>3, <2>1
  <2> QED  BY <2>1, <2>2 DEF LaterRow
<1>7. ASSUME NEW x \in HeardOf
      PROVE  \E i \in Latest : log[i].thing = x /\ log[i].status = truth[x]
  <2>1. PICK h \in Recent : log[h].thing = x
    BY DEF HeardOf
  <2>2. h \in 1..Len(log) /\ log[h] \in AllRecords /\ x \in Things
    BY <1>2, <1>3, <2>1 DEF AllRecords, Logged
  <2>3. sent[x] > 0
    <3>1. log[h].nth \in 1..sent[x] /\ sent[x] \in Nat
      BY <2>1, <2>2 DEF LogInv, LogTypes, RecordsDated
    <3> QED  BY <3>1
  <2>4. PICK r \in AllRecords : LastOf(r, x)
    BY <2>2, <2>3 DEF LogInv, LastWritten
  <2>5. PICK k \in 1..Len(log) : r = log[k]
    BY <1>1, <2>4 DEF AllRecords, Logged
  <2>6. log[k].thing = x /\ log[k].status = truth[x] /\ log[h].at <= log[k].at
    BY <2>1, <2>2, <2>4, <2>5 DEF LastOf
  <2>7. k \in Recent
    BY <1>1, <1>2, <2>1, <2>2, <2>5, <2>6 DEF Recent
  <2>8. ASSUME NEW j \in Recent, log[j].thing = x PROVE ~LaterRow(k, j)
    <3>1. j \in 1..Len(log) /\ log[j] \in AllRecords
      BY <1>3 DEF AllRecords, Logged
    <3>2. log[j].at <= log[k].at /\ log[j].nth <= log[k].nth
      BY <2>4, <2>5, <2>8, <3>1 DEF LastOf
    <3>3. k < j /\ log[k].at = log[j].at => log[k].nth < log[j].nth
      BY <2>6, <2>7, <2>8 DEF WellLogged
    <3> QED  BY <1>2, <2>5, <3>1, <3>2, <3>3 DEF LaterRow
  <2>9. k \in Latest
    BY <1>5, <2>6, <2>7, <2>8
  <2> QED  BY <2>6, <2>9
<1>8. ASSUME NEW i \in Latest
      PROVE  log[i].thing \in HeardOf /\ log[i].status = truth[log[i].thing]
  <2>1. i \in Recent /\ log[i].thing \in HeardOf
    BY <1>5 DEF HeardOf
  <2>2. PICK k \in Latest : log[k].thing = log[i].thing /\ log[k].status = truth[log[i].thing]
    BY <1>7, <2>1
  <2>3. k = i
    BY <1>6, <2>2
  <2> QED  BY <2>1, <2>2, <2>3
<1>9. \A i \in Latest : i \in Recent
  BY <1>5
<1> QED  BY <1>1, <1>3, <1>4, <1>6, <1>7, <1>8, <1>9

\* Rows and the things they are the latest row of are as many.
LEMMA SameNumber ==
  ASSUME LogInv, WellLogged, view # "events",
         NEW A \in SUBSET Latest, NEW B \in SUBSET HeardOf,
         \A i \in Latest : i \in A <=> log[i].thing \in B
  PROVE  Cardinality(A) = Cardinality(B)
<1> DEFINE g == [i \in A |-> log[i].thing]
<1>1. IsFiniteSet(A)
  <2>1. A \in SUBSET (1..Len(log)) /\ Len(log) \in Nat
    BY LatestRows
  <2>2. IsFiniteSet(1..Len(log))
    BY <2>1, FS_Interval
  <2> QED  BY <2>1, <2>2, FS_Subset
<1>2. g \in Bijection(A, B)
  <2>1. g \in [A -> B]
    OBVIOUS
  <2>2. \A i, j \in A : g[i] = g[j] => i = j
    BY LatestRows
  <2>3. \A x \in B : \E i \in A : g[i] = x
    BY LatestRows
  <2> QED  BY <2>1, <2>2, <2>3 DEF Bijection, Injection, Surjection, IsInjective
<1>3. ExistsBijection(A, B)
  BY <1>2 DEF ExistsBijection
<1> QED  BY <1>1, <1>3, FS_Bijection

-----------------------------------------------------------------------------
(* Reports: the totals on the first row *)

\* A statement counts finitely many rows.
LEMMA CountedRows ==
  ASSUME LogInv
  PROVE  IsFiniteSet(Counted) /\ Counted \in SUBSET (1..Len(log))
<1>1. Len(log) \in Nat
  BY LenProperties DEF LogInv, LogTypes
<1>2. Recent \in SUBSET (1..Len(log))
  BY DEF Recent
<1>3. Latest \in SUBSET (1..Len(log))
  BY <1>2 DEF Latest, Keyed
<1>4. Counted \in SUBSET (1..Len(log))
  BY <1>2, <1>3 DEF Counted
<1>5. IsFiniteSet(1..Len(log))
  BY <1>1, FS_Interval
<1> QED  BY <1>4, <1>5, FS_Subset

\* A ranking is a sequence with every group once, and a cut a beginning of it.
LEMMA RankedGroups ==
  ASSUME LogInv, NEW q \in Ranked
  PROVE  /\ Len(q) \in Nat /\ Len(Top(q)) \in 0..Len(q)
         /\ Top(q) \in Seq(Groups) /\ (Top(q) = <<>> <=> Groups = {})
         /\ Len(Top(q)) = Len(q) => ToSet(Top(q)) = Groups
<1> DEFINE f == [i \in Counted |-> Group(i)]
           m == IF Len(q) < limit THEN Len(q) ELSE limit
           D == 1..Cardinality(Groups)
<1>1. IsFiniteSet(Counted) /\ limit \in Nat \ {0}
  BY CountedRows DEF LogInv, LogTypes
<1>2. f \in Surjection(Counted, Groups)
  BY DEF Surjection, Groups
<1>3. IsFiniteSet(Groups)
  BY <1>1, <1>2, FS_Surjection
<1>4. Cardinality(Groups) \in Nat /\ (Cardinality(Groups) = 0 <=> Groups = {})
  BY <1>3, FS_CardinalityType, FS_EmptySet
<1>5. q \in [D -> Groups] /\ \A i, j \in D : i # j => q[i] # q[j]
  BY DEF Ranked, SetToSeqs
<1>6. q \in Seq(Groups) /\ Len(q) = Cardinality(Groups)
  BY <1>4, <1>5, FunctionIsSeq
<1>7. m \in Nat /\ m <= Len(q) /\ (m = 0 <=> Groups = {})
  BY <1>1, <1>4, <1>6
<1>8. Top(q) = SubSeq(q, 1, m)
  BY DEF Top
<1> HIDE DEF m
<1>9. \A i \in 1..m : q[i] \in Groups
  BY <1>4, <1>5, <1>6, <1>7
<1>10. Len(Top(q)) = m /\ Top(q) \in Seq(Groups) /\ \A i \in 1..m : Top(q)[i] = q[i]
  <2>1. /\ Len(SubSeq(q, 1, m)) = (IF 1 <= m THEN m - 1 + 1 ELSE 0)
        /\ SubSeq(q, 1, m) \in Seq(Groups)
        /\ \A i \in 1..(m - 1 + 1) : SubSeq(q, 1, m)[i] = q[1 + i - 1]
    BY <1>7, <1>9, SubSeqProperties
  <2> QED  BY <1>7, <1>8, <2>1
<1>11. q \in Surjection(D, Groups)
  <2>1. IsFiniteSet(D) /\ Cardinality(D) = Cardinality(Groups)
    BY <1>4, FS_Interval
  <2>2. q \in Injection(D, Groups)
    BY <1>5 DEF Injection, IsInjective
  <2> QED  BY <1>3, <2>1, <2>2, FS_Injection
<1>12. m = Len(q) => ToSet(Top(q)) = Groups
  <2> SUFFICES ASSUME m = Len(q) PROVE ToSet(Top(q)) = Groups
    OBVIOUS
  <2>1. DOMAIN Top(q) = D /\ \A i \in D : Top(q)[i] = q[i]
    BY <1>6, <1>10, LenProperties
  <2>2. \A g \in Groups : \E i \in D : q[i] = g
    BY <1>11 DEF Surjection
  <2>3. ToSet(Top(q)) = {Top(q)[i] : i \in D}
    BY <2>1 DEF ToSet
  <2>4. \A i \in D : Top(q)[i] \in Groups
    BY <1>5, <2>1
  <2>5. \A g \in Groups : \E i \in D : Top(q)[i] = g
    BY <2>1, <2>2
  <2> HIDE DEF D
  <2> QED  BY <2>3, <2>4, <2>5, Zenon
<1>13. Top(q) = <<>> <=> m = 0
  BY <1>10, EmptySeq
<1> QED  BY <1>6, <1>4, <1>7, <1>10, <1>12, <1>13

\* A cut keeps a first row when there is a group.
LEMMA FirstRow ==
  ASSUME LogInv, NEW q \in Ranked
  PROVE  Counted = {} <=> Top(q) = <<>>
BY RankedGroups DEF Groups

\* So a total on the first row is the total.
LEMMA OnFirstRowTotal ==
  ASSUME LogInv, NEW q \in Ranked, NEW S \in SUBSET Counted
  PROVE  OnFirstRow(Top(q), Cardinality(S)) = Cardinality(S) /\ Cardinality(S) \in Nat
<1>1. IsFiniteSet(S)
  BY CountedRows, FS_Subset
<1>2. Cardinality(S) \in Nat /\ (S = {} => Cardinality(S) = 0)
  BY <1>1, FS_CardinalityType, FS_EmptySet
<1> QED  BY <1>2, FirstRow DEF OnFirstRow

\* What a snapshot says.
LEMMA SnapshotFields ==
  \A rows, all :
    /\ Snapshot(rows, all).total = OnFirstRow(rows, Cardinality(Counted))
    /\ Snapshot(rows, all).truncated = (Len(rows) < OnFirstRow(rows, all))
    /\ Snapshot(rows, all).series = Series(rows)
    /\ Snapshot(rows, all).distinct = \A g, h \in ToSet(rows) : Label(g) = Label(h) => g = h
    /\ Snapshot(rows, all).known = WellLogged /\ Snapshot(rows, all).facts = Facts
    /\ Snapshot(rows, all).compliant = 0 /\ Snapshot(rows, all).failed = 0
    /\ Snapshot(rows, all).assessed = 0 /\ Snapshot(rows, all).unassessed = 0
    /\ Snapshot(rows, all).eligible = 0
BY DEF Snapshot, NoReport

\* What a snapshot of the posture says.
LEMMA PostureFields ==
  \A rows, all :
    /\ PostureSnapshot(rows, all).total = OnFirstRow(rows, Cardinality(Counted))
    /\ PostureSnapshot(rows, all).truncated = (Len(rows) < OnFirstRow(rows, all))
    /\ PostureSnapshot(rows, all).series = Series(rows)
    /\ PostureSnapshot(rows, all).distinct = \A g, h \in ToSet(rows) : Label(g) = Label(h) => g = h
    /\ PostureSnapshot(rows, all).known = WellLogged /\ PostureSnapshot(rows, all).facts = Facts
    /\ PostureSnapshot(rows, all).compliant = OnFirstRow(rows, Having("compliant"))
    /\ PostureSnapshot(rows, all).failed = OnFirstRow(rows, Having(Failed))
    /\ PostureSnapshot(rows, all).assessed = Cardinality(Assessed)
    /\ PostureSnapshot(rows, all).unassessed = Cardinality(Eligible \ Assessed)
    /\ PostureSnapshot(rows, all).eligible = Cardinality(Eligible)
BY DEF PostureSnapshot, Snapshot, NoReport

\* What is counted is what is the case.
LEMMA ActiveTrue ==
  ASSUME LogInv, WellLogged, view = "active"
  PROVE  Cardinality(Counted) = Facts.total
<1> DEFINE B == {x \in HeardOf : truth[x] \in Live}
<1>1. Counted = {i \in Latest : log[i].status \in Live}
  BY DEF Counted
<1>2. Cardinality(Counted) = Cardinality(B)
  <2>1. Counted \in SUBSET Latest /\ B \in SUBSET HeardOf
    BY <1>1
  <2>2. \A i \in Latest : i \in Counted <=> log[i].thing \in B
    BY <1>1, LatestRows
  <2> QED  BY <2>1, <2>2, SameNumber
<1> QED  BY <1>2 DEF Facts

\* Endpoints, compliant ones and assessed ones.
LEMMA PostureTrue ==
  ASSUME LogInv, WellLogged, view = "posture"
  PROVE  /\ Cardinality(Counted) = Facts.total
         /\ Having("compliant") = Facts.compliant
         /\ Cardinality(Assessed) = Facts.assessed
<1>1. Counted = Latest
  BY DEF Counted
<1>2. Cardinality(Counted) = Cardinality(HeardOf)
  <2>1. \A i \in Latest : i \in Counted <=> log[i].thing \in HeardOf
    BY <1>1, LatestRows
  <2> QED  BY <1>1, <2>1, SameNumber
<1>3. Having("compliant") = Cardinality({x \in HeardOf : truth[x] = "compliant"})
  <2> DEFINE A == {i \in Counted : log[i].status = "compliant"}
             B == {x \in HeardOf : truth[x] = "compliant"}
  <2>1. A \in SUBSET Latest /\ B \in SUBSET HeardOf
    BY <1>1
  <2>2. \A i \in Latest : i \in A <=> log[i].thing \in B
    BY <1>1, LatestRows
  <2>3. Cardinality(A) = Cardinality(B)
    BY <2>1, <2>2, SameNumber
  <2> QED  BY <2>3 DEF Having
<1>4. Assessed = HeardOf \cap Eligible
  <2>1. \A i \in Latest : Key(i) = <<"first", log[i].thing>> /\ log[i].thing \in HeardOf
    BY LatestRows
  <2>2. \A x \in HeardOf : \E i \in Latest : log[i].thing = x
    BY LatestRows
  <2> QED  BY <2>1, <2>2 DEF Assessed
<1> QED  BY <1>2, <1>3, <1>4 DEF Facts

\* Parts of a set are no larger than it.
LEMMA PartsCounted ==
  ASSUME LogInv
  PROVE  /\ Having("compliant") + Having(Failed) <= Cardinality(Counted)
         /\ Cardinality(Assessed) + Cardinality(Eligible \ Assessed) = Cardinality(Eligible)
<1> DEFINE A == {i \in Counted : log[i].status = "compliant"}
           B == {i \in Counted : log[i].status = Failed}
           C == Eligible \ Assessed
<1>1. IsFiniteSet(Counted) /\ IsFiniteSet(Eligible)
  BY CountedRows, ReportsAssumption, FS_Subset
<1>2. /\ A \cap B = {} /\ A \cup B \in SUBSET Counted
      /\ Assessed \cap C = {} /\ Assessed \cup C = Eligible
  BY DEF Failed, Assessed
<1>3. IsFiniteSet(A) /\ IsFiniteSet(B) /\ IsFiniteSet(A \cup B) /\ IsFiniteSet(Assessed) /\ IsFiniteSet(C)
  BY <1>1, <1>2, FS_Subset
<1>4. /\ Cardinality(A) \in Nat /\ Cardinality(B) \in Nat /\ Cardinality(Counted) \in Nat
      /\ Cardinality(Assessed) \in Nat /\ Cardinality(C) \in Nat /\ Cardinality({}) = 0
  BY <1>1, <1>3, FS_CardinalityType, FS_EmptySet
<1>5. Having("compliant") = Cardinality(A) /\ Having(Failed) = Cardinality(B)
  BY DEF Having
<1> HIDE DEF A, B, C
<1>6. Cardinality(A \cup B) = Cardinality(A) + Cardinality(B) - Cardinality(A \cap B)
  BY <1>3, FS_Union
<1>7. Cardinality(Assessed \cup C) = Cardinality(Assessed) + Cardinality(C) - Cardinality(Assessed \cap C)
  BY <1>3, FS_Union
<1>8. Cardinality(A \cup B) <= Cardinality(Counted)
  BY <1>1, <1>2, FS_Subset
<1>9. /\ Cardinality(A \cap B) = 0 /\ Cardinality(Assessed \cap C) = 0
      /\ Cardinality(Assessed \cup C) = Cardinality(Eligible)
  BY <1>2, <1>4, Zenon
<1>10. Cardinality(A) + Cardinality(B) <= Cardinality(Counted)
  BY <1>4, <1>6, <1>8, <1>9
<1>11. Cardinality(Assessed) + Cardinality(C) = Cardinality(Eligible)
  BY <1>4, <1>7, <1>9
<1> QED  BY <1>5, <1>10, <1>11 DEF C

-----------------------------------------------------------------------------
(* Reports: the series *)

\* A set of indices that is not empty has a last one.
LEMMA LastIndex ==
  ASSUME NEW n \in Nat, NEW T \in SUBSET (1..n), T # {}
  PROVE  \E i \in T : \A j \in T : j <= i
<1> DEFINE U == {n - i : i \in T}
<1>1. U \subseteq Nat /\ U # {}
  <2>1. \A i \in T : n - i \in Nat
    OBVIOUS
  <2> QED  BY <2>1, Zenon
<1>2. PICK u \in U : \A v \in U : ~(<<v, u>> \in OpToRel(<, Nat))
  BY <1>1, NatLessThanWellFounded, WFMin
<1>3. \A v \in U : ~(v < u)
  BY <1>1, <1>2 DEF OpToRel
<1>4. PICK i \in T : u = n - i
  BY <1>2
<1>5. \A j \in T : n - j \in U
  OBVIOUS
<1>6. \A j \in T : ~(n - j < n - i)
  BY <1>3, <1>4, <1>5
<1>7. \A j \in T : j \in Int
  OBVIOUS
<1> HIDE DEF U
<1> QED  BY <1>4, <1>6, <1>7

\* The rows of a group.
RowsOf(g) == {i \in Counted : Group(i) = g}
Numbering(g) == CHOOSE f : f \in Bijection(1..Size(g), RowsOf(g))

\* The rows of a group can be numbered, and every counted row is in one group.
LEMMA GroupsNumbered ==
  ASSUME LogInv, NEW g
  PROVE  Size(g) \in Nat /\ Numbering(g) \in Bijection(1..Size(g), RowsOf(g))
<1>1. IsFiniteSet(RowsOf(g))
  BY CountedRows, FS_Subset DEF RowsOf
<1>2. Size(g) = Cardinality(RowsOf(g))
  BY DEF Size, RowsOf
<1>3. Size(g) \in Nat /\ ExistsBijection(1..Size(g), RowsOf(g))
  BY <1>1, <1>2, FS_CardinalityType
<1>4. \E f : f \in Bijection(1..Size(g), RowsOf(g))
  BY <1>3 DEF ExistsBijection
<1> QED  BY <1>3, <1>4 DEF Numbering


\* The group whose row a series shows.
Shown(rows, l) ==
  rows[CHOOSE i \in 1..Len(rows) :
         Label(rows[i]) = l /\ \A j \in (i + 1)..Len(rows) : Label(rows[j]) # l]

\* Every published series is the size of a group with its labels.
LEMMA SeriesShown ==
  ASSUME LogInv, NEW rows \in Seq(Groups)
  PROVE  /\ DOMAIN Series(rows) = {Label(g) : g \in ToSet(rows)}
         /\ \A l \in DOMAIN Series(rows) :
              /\ Series(rows)[l] = Size(Shown(rows, l))
              /\ Shown(rows, l) \in ToSet(rows) /\ Label(Shown(rows, l)) = l
<1>1. Len(rows) \in Nat /\ DOMAIN rows = 1..Len(rows)
  BY LenProperties
<1>2. /\ DOMAIN Series(rows) = {Label(g) : g \in ToSet(rows)}
      /\ \A l \in DOMAIN Series(rows) : Series(rows)[l] = Size(Shown(rows, l))
  BY DEF Series, Shown
<1>3. ASSUME NEW l \in DOMAIN Series(rows)
      PROVE  Shown(rows, l) \in ToSet(rows) /\ Label(Shown(rows, l)) = l
  <2> DEFINE T == {i \in 1..Len(rows) : Label(rows[i]) = l}
  <2>1. T # {}
    BY <1>1, <1>2 DEF ToSet
  <2>2. PICK i \in T : \A j \in T : j <= i
    BY <1>1, <2>1, LastIndex
  <2>3. \A j \in (i + 1)..Len(rows) : Label(rows[j]) # l
    <3> SUFFICES ASSUME NEW j \in (i + 1)..Len(rows), Label(rows[j]) = l PROVE FALSE
      OBVIOUS
    <3>1. i \in 1..Len(rows) /\ j \in 1..Len(rows) /\ ~(j <= i)
      BY <1>1
    <3> QED  BY <2>2, <3>1
  <2>4. \E k \in 1..Len(rows) :
          Label(rows[k]) = l /\ \A j \in (k + 1)..Len(rows) : Label(rows[j]) # l
    BY <2>3
  <2> DEFINE c == CHOOSE k \in 1..Len(rows) :
          Label(rows[k]) = l /\ \A j \in (k + 1)..Len(rows) : Label(rows[j]) # l
  <2>5. c \in 1..Len(rows) /\ Label(rows[c]) = l
    BY <2>4
  <2>6. Shown(rows, l) = rows[c]
    BY DEF Shown
  <2> HIDE DEF c
  <2> QED  BY <1>1, <2>5, <2>6 DEF ToSet
<1> QED  BY <1>2, <1>3

\* The points of the series are as many as different counted rows, and as all
\* of them when every group has a series of its own.
LEMMA PointsCounted ==
  ASSUME LogInv, NEW rows \in Seq(Groups)
  PROVE  /\ Cardinality(Points(Series(rows))) <= Cardinality(Counted)
         /\ /\ ToSet(rows) = Groups
            /\ \A g, h \in ToSet(rows) : Label(g) = Label(h) => g = h
            => Cardinality(Points(Series(rows))) = Cardinality(Counted)
<1> DEFINE P == Points(Series(rows))
           rowAt(p) == Numbering(Shown(rows, p[1]))[p[2]]
           f == [p \in P |-> rowAt(p)]
<1>1. \A p : p \in P <=> \E l \in DOMAIN Series(rows) : \E k \in 1..Series(rows)[l] : p = <<l, k>>
  BY DEF Points
<1>2. \A p \in P : /\ p[1] \in DOMAIN Series(rows) /\ p[2] \in 1..Size(Shown(rows, p[1]))
                   /\ p = <<p[1], p[2]>>
  <2> SUFFICES ASSUME NEW p \in P
               PROVE  /\ p[1] \in DOMAIN Series(rows) /\ p[2] \in 1..Size(Shown(rows, p[1]))
                      /\ p = <<p[1], p[2]>>
    OBVIOUS
  <2>1. PICK l \in DOMAIN Series(rows) : \E k \in 1..Series(rows)[l] : p = <<l, k>>
    BY <1>1
  <2>2. PICK k \in 1..Series(rows)[l] : p = <<l, k>>
    BY <2>1
  <2>3. p[1] = l /\ p[2] = k
    BY <2>2
  <2>4. Series(rows)[l] = Size(Shown(rows, l))
    BY SeriesShown
  <2> QED  BY <2>2, <2>3, <2>4
<1>3. \A p \in P : rowAt(p) \in Counted /\ Group(rowAt(p)) = Shown(rows, p[1])
  <2> SUFFICES ASSUME NEW p \in P PROVE rowAt(p) \in RowsOf(Shown(rows, p[1]))
    BY DEF RowsOf
  <2>1. Numbering(Shown(rows, p[1])) \in [1..Size(Shown(rows, p[1])) -> RowsOf(Shown(rows, p[1]))]
    BY GroupsNumbered DEF Bijection, Injection
  <2> QED  BY <1>2, <2>1
<1>4. ASSUME NEW p \in P, NEW r \in P, rowAt(p) = rowAt(r) PROVE p = r
  <2>1. Shown(rows, p[1]) = Shown(rows, r[1])
    BY <1>3, <1>4
  <2>2. p[1] = r[1]
    <3>1. p[1] \in DOMAIN Series(rows) /\ r[1] \in DOMAIN Series(rows)
      BY <1>2
    <3>2. Label(Shown(rows, p[1])) = p[1] /\ Label(Shown(rows, r[1])) = r[1]
      BY <3>1, SeriesShown
    <3> QED  BY <2>1, <3>2
  <2>3. Numbering(Shown(rows, p[1])) \in Injection(1..Size(Shown(rows, p[1])), RowsOf(Shown(rows, p[1])))
    BY GroupsNumbered DEF Bijection
  <2>4. p[2] = r[2]
    BY <1>2, <1>4, <2>2, <2>3 DEF Injection, IsInjective
  <2> QED  BY <1>2, <2>2, <2>4
<1> HIDE DEF P, rowAt
<1>5. f \in Injection(P, Counted)
  BY <1>3, <1>4 DEF Injection, IsInjective
<1>6. /\ Cardinality(P) <= Cardinality(Counted)
      /\ f \in Surjection(P, Counted) => Cardinality(P) = Cardinality(Counted)
  BY <1>5, CountedRows, FS_Injection
<1>7. ASSUME ToSet(rows) = Groups, \A g, h \in ToSet(rows) : Label(g) = Label(h) => g = h
      PROVE  f \in Surjection(P, Counted)
  <2> SUFFICES ASSUME NEW i \in Counted PROVE \E p \in P : rowAt(p) = i
    BY <1>5 DEF Injection, Surjection
  <2> DEFINE l == Label(Group(i))
  <2>1. Group(i) \in ToSet(rows)
    BY <1>7 DEF Groups
  <2>2. l \in DOMAIN Series(rows)
    BY <2>1, SeriesShown
  <2>3. Shown(rows, l) = Group(i)
    BY <1>7, <2>1, <2>2, SeriesShown
  <2>4. i \in RowsOf(Group(i))
    BY DEF RowsOf
  <2>5. PICK k \in 1..Size(Group(i)) : Numbering(Group(i))[k] = i
    BY <2>4, GroupsNumbered DEF Bijection, Surjection
  <2>6. k \in 1..Series(rows)[l]
    BY <2>2, <2>3, SeriesShown
  <2>7. <<l, k>> \in P
    BY <1>1, <2>2, <2>6
  <2>8. rowAt(<<l, k>>) = i
    BY <2>3, <2>5 DEF rowAt
  <2> QED  BY <2>7, <2>8
<1> QED  BY <1>6, <1>7 DEF P

\* The series of a snapshot of ranked groups stay within its total.
LEMMA SeriesCounted ==
  ASSUME LogInv, NEW q \in Ranked,
         report'.total = OnFirstRow(Top(q), Cardinality(Counted)),
         report'.truncated = (Len(Top(q)) < OnFirstRow(Top(q), Len(q))),
         report'.series = Series(Top(q)),
         report'.distinct = \A g, h \in ToSet(Top(q)) : Label(g) = Label(h) => g = h
  PROVE  SeriesWithinTotal'
<1>1. /\ Len(q) \in Nat /\ Len(Top(q)) \in 0..Len(q) /\ Top(q) \in Seq(Groups)
      /\ Len(Top(q)) = Len(q) => ToSet(Top(q)) = Groups
      /\ Top(q) = <<>> => Groups = {}
  BY RankedGroups
<1>2. report'.total = Cardinality(Counted)
  BY OnFirstRowTotal
<1>3. SeriesSum' = Cardinality(Points(Series(Top(q))))
  BY DEF SeriesSum
<1>4. ~report'.truncated => ToSet(Top(q)) = Groups
  <2>1. CASE Top(q) = <<>>
    <3>1. ToSet(Top(q)) = {}
      BY <2>1 DEF ToSet
    <3> QED  BY <1>1, <2>1, <3>1
  <2>2. CASE Top(q) # <<>>
    <3>1. report'.truncated = (Len(Top(q)) < Len(q))
      BY <2>2 DEF OnFirstRow
    <3>2. ~(Len(Top(q)) < Len(q)) => Len(Top(q)) = Len(q)
      BY <1>1
    <3> QED  BY <1>1, <3>1, <3>2
  <2> QED  BY <2>1, <2>2
<1> QED  BY <1>1, <1>2, <1>3, <1>4, PointsCounted DEF SeriesWithinTotal

-----------------------------------------------------------------------------
(* Reports: the theorem *)

\* A report that is made is true.
LEMMA CollectStep ==
  ASSUME LogInv, collect_active \/ collect_reporting \/ collect_posture
  PROVE  ReportFaithful'
<1>1. view' = view
  BY DEF collect_active, collect_reporting, collect_posture, Collects, viewVars
<1>2. CASE collect_active \/ collect_reporting
  <2>1. report' \in Snapshots /\ view \in {"active", "events"}
    BY <1>2 DEF collect_active, collect_reporting, Collects
  <2>2. PICK q \in Ranked : report' = Snapshot(Top(q), Len(q))
    BY <2>1 DEF Snapshots
  <2>3. /\ report'.total = Cardinality(Counted) /\ Cardinality(Counted) \in Nat
        /\ report'.known = WellLogged /\ report'.facts = Facts
        /\ report'.compliant = 0 /\ report'.failed = 0
        /\ report'.assessed = 0 /\ report'.unassessed = 0 /\ report'.eligible = 0
    BY <2>2, SnapshotFields, OnFirstRowTotal
  <2>4. WellLogged => Cardinality(Counted) = Facts.total
    <3>1. CASE view = "active"
      BY <3>1, ActiveTrue
    <3>2. CASE view = "events"
      BY <3>2 DEF Counted, Facts
    <3> QED  BY <2>1, <3>1, <3>2
  <2>5. SeriesWithinTotal'
    BY <2>2, SnapshotFields, SeriesCounted
  <2> QED  BY <1>1, <2>1, <2>3, <2>4, <2>5 DEF ReportFaithful, CountsTrue, PartsOfWhole
<1>3. CASE collect_posture
  <2>1. PICK q \in Ranked : report' = PostureSnapshot(Top(q), Len(q))
    BY <1>3 DEF collect_posture, Collects
  <2>2. view = "posture"
    BY <1>3 DEF collect_posture, Collects
  <2>3. /\ OnFirstRow(Top(q), Cardinality(Counted)) = Cardinality(Counted)
        /\ OnFirstRow(Top(q), Having("compliant")) = Having("compliant")
        /\ OnFirstRow(Top(q), Having(Failed)) = Having(Failed)
    BY OnFirstRowTotal DEF Having
  <2>4. /\ report'.total = Cardinality(Counted) /\ report'.known = WellLogged
        /\ report'.facts = Facts /\ report'.compliant = Having("compliant")
        /\ report'.failed = Having(Failed) /\ report'.assessed = Cardinality(Assessed)
        /\ report'.unassessed = Cardinality(Eligible \ Assessed)
        /\ report'.eligible = Cardinality(Eligible)
    BY <2>1, <2>3, PostureFields
  <2>5. SeriesWithinTotal'
    BY <2>1, PostureFields, SeriesCounted
  <2> QED  BY <1>1, <2>2, <2>4, <2>5, PostureTrue, PartsCounted
           DEF ReportFaithful, CountsTrue, PartsOfWhole
<1> QED  BY <1>2, <1>3

ReportsInv == LogInv /\ ReportFaithful

\* The initial states satisfy the invariant.
LEMMA ReportsInitInv == ReportsInit => ReportsInv
<1> SUFFICES ASSUME ReportsInit PROVE ReportsInv
  OBVIOUS
<1>1. /\ log = <<>> /\ waiting = {} /\ clock = 0 /\ sent = [x \in Things |-> 0]
      /\ truth = [x \in Things |-> "new"] /\ view \in Views /\ limit \in GroupLimits
      /\ report = NoReport
  BY DEF ReportsInit
<1>2. LogTypes
  BY <1>1, EmptySeq, ReportsAssumption DEF LogTypes
<1>3. AllRecords = {}
  <2>1. Len(log) = 0
    BY <1>1, EmptySeq
  <2> QED  BY <1>1, <2>1 DEF AllRecords, Logged
<1>4. RecordsDated /\ LastWritten
  BY <1>1, <1>3 DEF RecordsDated, LastWritten
<1>5. SeriesWithinTotal
  <2>1. report.series = <<>> /\ report.total = 0
    BY <1>1 DEF NoReport
  <2>2. Points(report.series) = {}
    BY <2>1 DEF Points
  <2>3. SeriesSum = 0
    BY Zenon, <2>2, FS_EmptySet DEF SeriesSum
  <2> QED  BY <2>1, <2>3 DEF SeriesWithinTotal
<1>6. ReportFaithful
  BY <1>1, <1>5 DEF ReportFaithful, CountsTrue, PartsOfWhole, NoReport
<1> QED  BY <1>2, <1>4, <1>6 DEF ReportsInv, LogInv

\* Every step keeps the invariant.
LEMMA ReportsNextInv == ReportsInv /\ [ReportsNext]_reportsVars => ReportsInv'
<1> SUFFICES ASSUME ReportsInv, [ReportsNext]_reportsVars PROVE ReportsInv'
  OBVIOUS
<1>0. LogInv /\ ReportFaithful
  BY DEF ReportsInv
<1>1. CASE \E x \in Things, st \in Statuses, by \in Identifiers : Emit(x, st, by)
  <2>1. LogInv'
    BY <1>0, <1>1, EmitStep
  <2>2. report' = report /\ view' = view
    BY <1>1 DEF Emit, viewVars
  <2> QED  BY <1>0, <2>1, <2>2 DEF ReportsInv, ReportFaithful, CountsTrue, PartsOfWhole,
           SeriesWithinTotal, SeriesSum
<1>2. CASE \E r \in waiting : Arrive(r)
  <2>1. LogInv'
    BY <1>0, <1>2, ArriveStep
  <2>2. report' = report /\ view' = view
    BY <1>2 DEF Arrive, viewVars
  <2> QED  BY <1>0, <2>1, <2>2 DEF ReportsInv, ReportFaithful, CountsTrue, PartsOfWhole,
           SeriesWithinTotal, SeriesSum
<1>3. CASE ClockTick \/ UNCHANGED reportsVars
  <2>1. LogInv'
    BY <1>0, <1>3, LogKept DEF ClockTick, reportsVars, worldVars
  <2>2. report' = report /\ view' = view
    BY <1>3 DEF ClockTick, reportsVars, viewVars
  <2> QED  BY <1>0, <2>1, <2>2 DEF ReportsInv, ReportFaithful, CountsTrue, PartsOfWhole,
           SeriesWithinTotal, SeriesSum
<1>4. CASE collect_active \/ collect_reporting \/ collect_posture
  <2>1. LogInv'
    BY <1>0, <1>4, LogKept DEF collect_active, collect_reporting, collect_posture, Collects,
       worldVars
  <2> QED  BY <1>0, <1>4, <2>1, CollectStep DEF ReportsInv
<1> QED  BY <1>1, <1>2, <1>3, <1>4 DEF ReportsNext

\* A report is true of the log and of itself, for every log, window, clock and
\* group limit: once the records of the window have arrived, in whatever order,
\* collect_active counts the sessions that have not stopped and no other, and the
\* posture collector every endpoint once, with its latest result, however many
\* groups are cut off; the parts of posture make up no more than the whole; and
\* the published series never add up to more than the total beside them, and add
\* up to it unless a truncation is reported or two rows share their labels.
THEOREM ReportsFaithful == ReportsSpec => []ReportFaithful
<1>1. ReportsInv => ReportFaithful
  BY DEF ReportsInv
<1> QED  BY <1>1, ReportsInitInv, ReportsNextInv, PTL DEF ReportsSpec

-----------------------------------------------------------------------------
(* The four in one behaviour *)

AllInv ==
  /\ DetailInv /\ Bounds
  /\ MarksInv
  /\ SchemaInv /\ SchemaTypeOK
  /\ ReportsInv

\* One moves and the others stay: each keeps its own invariant.
LEMMA AllNextInv ==
  ASSUME AllInv, [AllNext]_<<vars, marksVars, reportsVars, schemaVars, part>>
  PROVE  AllInv'
<1>1. [Next]_vars /\ [MarksNext]_marksVars /\ [ReportsNext]_reportsVars /\ [SchemaNext]_schemaVars
  BY DEF AllNext
<1>2. (DetailInv /\ Bounds)'
  BY <1>1, DetailNextInv, BoundsNext DEF AllInv
<1>3. MarksInv'
  BY <1>1, MarksNextInv DEF AllInv
<1>4. (SchemaInv /\ SchemaTypeOK)'
  BY <1>1, SchemaNextInv, SchemaTypeNext DEF AllInv
<1>5. ReportsInv'
  BY <1>1, ReportsNextInv DEF AllInv
<1> QED  BY <1>2, <1>3, <1>4, <1>5 DEF AllInv

\* The collectors that MCCollectors puts in one run, for every value of its
\* constants: they keep their types and bounds (the budgets and ceilings of the
\* REST collectors, the owner of the write transaction, the columns of an
\* inspection), and what each promises of its publications, marks, admissions and
\* reports holds whichever of them moves; of sessions, as in PublicationIsFaithful,
\* where ISE lists their ids.
THEOREM CollectorsCorrect ==
  CollectorsSpec => /\ [](CollectorsTypeOK /\ PublicationFaithful /\ InspectionExact /\ ReportFaithful)
                    /\ HighWaterKept
<1>1. AllInit => AllInv
  BY DetailInitInv, BoundsInit, MarksInitInv, SchemaInitInv, SchemaTypeInit, ReportsInitInv
     DEF AllInit, AllInv
<1>2. AllInv => CollectorsTypeOK
  BY BoundsTypes DEF AllInv, MarksInv, CollectorsTypeOK
<1>3. AllInv => PublicationFaithful
  BY DEF AllInv, DetailInv, CacheInv, SessionInv, PublicationFaithful
<1>4. AllInv => InspectionExact
  BY BlockedFails DEF AllInv, SchemaInv, InspectionExact
<1>5. AllInv => ReportFaithful
  BY DEF AllInv, ReportsInv
<1>6. AllInv /\ [AllNext]_<<vars, marksVars, reportsVars, schemaVars, part>>
        => [\A u \in Units : MarkKept(u)]_marksVars
  BY MarkKeptStep DEF AllInv, AllNext
<1> QED  BY <1>1, <1>2, <1>3, <1>4, <1>5, <1>6, AllNextInv, PTL DEF CollectorsSpec, HighWaterKept
=============================================================================
