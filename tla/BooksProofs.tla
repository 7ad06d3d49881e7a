------------------------------- MODULE BooksProofs -------------------------------
(* Theorems about Books: for any questions, postings, other commits and tables at the     *)
(* start, any page size and any number of commits.                                        *)
EXTENDS Books, Sums

-------------------------------------------------------------------------------
(* Places in an order. *)

\* R orders the finite set S: of any two, one comes before the other.
TotalOrder(S, R) ==
  /\ IsFiniteSet(S)
  /\ \A a, b \in S : a = b \/ <<a, b>> \in R \/ <<b, a>> \in R
  /\ \A a, b \in S : <<a, b>> \in R => a # b /\ <<b, a>> \notin R
  /\ \A a, b, c \in S : <<a, b>> \in R /\ <<b, c>> \in R => <<a, c>> \in R

\* How many come before each member.
RankIn(S, R) == [r \in S |-> Cardinality({q \in S : <<q, r>> \in R})]

\* The members of the first k ranks.
FirstOf(S, R, k) == {r \in S : RankIn(S, R)[r] < k}

\* Every number up to the last is the rank of one member.
LEMMA Ranks ==
  ASSUME NEW S, NEW R, TotalOrder(S, R), NEW above, above = RankIn(S, R)
  PROVE  /\ above \in [S -> Nat]
         /\ \A a, b \in S : <<a, b>> \in R => above[a] < above[b]
         /\ Cardinality(S) \in Nat /\ \A r \in S : above[r] < Cardinality(S)
         /\ \A k \in Nat : k < Cardinality(S) => \E r \in S : above[r] = k
         /\ \A a, b \in S : above[a] = above[b] => a = b
<1> DEFINE Before(r) == {q \in S : <<q, r>> \in R}
           size == Cardinality(S)
<1>1. IsFiniteSet(S) /\ size \in Nat
  BY FS_CardinalityType DEF TotalOrder
<1>a. DOMAIN above = S /\ above = [r \in S |-> above[r]] /\ \A r \in S : above[r] = Cardinality(Before(r))
  BY DEF RankIn
<1>b. \A r \in S : Before(r) \in SUBSET (S \ {r})
  BY DEF TotalOrder
<1>c. \A a, b \in S : <<a, b>> \in R => a \notin Before(a) /\ Before(a) \cup {a} \in SUBSET Before(b)
  BY DEF TotalOrder
<1> HIDE DEF Before, size
<1>2. ASSUME NEW r \in S
      PROVE  IsFiniteSet(Before(r)) /\ above[r] \in Nat /\ above[r] < size
  <2>1. IsFiniteSet(S \ {r}) /\ Cardinality(S \ {r}) = size - 1
    BY <1>1, FS_RemoveElement DEF size
  <2>2. IsFiniteSet(Before(r)) /\ Cardinality(Before(r)) <= size - 1
    BY <1>b, <2>1, FS_Subset
  <2>3. Cardinality(Before(r)) \in Nat
    BY <2>2, FS_CardinalityType
  <2> QED
    BY <1>1, <1>a, <2>2, <2>3
<1>3. ASSUME NEW a \in S, NEW b \in S, <<a, b>> \in R
      PROVE  above[a] < above[b]
  <2>1. Cardinality(Before(a) \cup {a}) = Cardinality(Before(a)) + 1
    BY <1>c, <1>2, <1>3, FS_AddElement
  <2>2. Cardinality(Before(a) \cup {a}) <= Cardinality(Before(b))
    BY <1>c, <1>2, <1>3, FS_Subset
  <2>3. above[a] = Cardinality(Before(a)) /\ above[b] = Cardinality(Before(b)) /\ above[a] \in Nat /\ above[b] \in Nat
    BY <1>a, <1>2
  <2> HIDE DEF Before
  <2> QED
    BY <2>1, <2>2, <2>3
<1>d. ASSUME NEW a \in S, NEW b \in S, above[a] = above[b] PROVE a = b
  <2>1. ~(above[a] < above[b]) /\ ~(above[b] < above[a])
    BY <1>2, <1>d
  <2> QED
    BY <1>3, <2>1 DEF TotalOrder
<1>4. above \in Injection(S, 0 .. size - 1)
  <2>1. \A r \in S : above[r] \in 0 .. size - 1
    BY <1>1, <1>2
  <2> QED
    BY <1>a, <1>d, <2>1 DEF Injection, IsInjective
<1>5. above \in Surjection(S, 0 .. size - 1)
  <2>1. IsFiniteSet(0 .. size - 1) /\ Cardinality(0 .. size - 1) = size
    BY <1>1, FS_Interval
  <2> QED
    BY <1>4, <2>1, FS_Injection DEF size
<1>6. \A k \in Nat : k < size => \E r \in S : above[r] = k
  BY <1>1, <1>5 DEF Surjection
<1> QED
  BY <1>a, <1>d, <1>1, <1>2, <1>3, <1>6 DEF size

\* So the first k ranks are those of k members.
LEMMA FirstRanks ==
  ASSUME NEW S, NEW R, TotalOrder(S, R), NEW k \in Nat, k <= Cardinality(S)
  PROVE  Cardinality(FirstOf(S, R, k)) = k
<1> DEFINE above == RankIn(S, R)
           first == FirstOf(S, R, k)
           rank == [r \in first |-> above[r]]
<1>1. /\ above \in [S -> Nat] /\ Cardinality(S) \in Nat
      /\ \A i \in Nat : i < Cardinality(S) => \E r \in S : above[r] = i
      /\ \A a, b \in S : above[a] = above[b] => a = b
  BY Ranks
<1>a. first = {r \in S : above[r] < k}
  BY DEF FirstOf
<1> HIDE DEF above, first
<1>2. first \in SUBSET S /\ \A r \in first : above[r] \in 0 .. k - 1
  BY <1>1, <1>a
<1>3. ASSUME NEW i \in 0 .. k - 1 PROVE \E r \in first : above[r] = i
  <2>1. i \in Nat /\ i < k /\ i < Cardinality(S)
    BY <1>1
  <2> QED
    BY <1>1, <1>a, <2>1
<1>4. rank \in [first -> 0 .. k - 1] /\ DOMAIN rank = first
  BY <1>2
<1>5. rank \in Surjection(first, 0 .. k - 1)
  BY <1>3, <1>4 DEF Surjection
<1>6. rank \in Injection(first, 0 .. k - 1)
  BY <1>1, <1>2, <1>4 DEF Injection, IsInjective
<1>7. IsFiniteSet(0 .. k - 1) /\ Cardinality(0 .. k - 1) = k
  BY FS_Interval
<1> HIDE DEF rank
<1>8. Cardinality(first) = k
  BY <1>5, <1>6, <1>7, FS_Injection
<1> QED
  BY <1>8 DEF first

-------------------------------------------------------------------------------
(* The order of a list. *)

\* Two different tuples of numbers have a first place where they differ.
LEMMA FirstDifference ==
  ASSUME NEW n \in Nat, NEW x \in [1 .. n -> Int], NEW y \in [1 .. n -> Int], x # y
  PROVE  \E k \in 1 .. n : x[k] # y[k] /\ \A j \in 1 .. k - 1 : x[j] = y[j]
<1> DEFINE D == {k \in 1 .. n : x[k] # y[k]}
<1>1. D # {} /\ D \subseteq Nat
  OBVIOUS
<1>2. PICK k \in D : \A j \in D : ~(<<j, k>> \in OpToRel(<, Nat))
  BY <1>1, NatLessThanWellFounded, WFMin
<1>3. ASSUME NEW j \in 1 .. k - 1 PROVE j \notin D
  <2>1. <<j, k>> \in Nat \X Nat /\ j < k
    <3>1. k \in Nat /\ j \in Int /\ 1 <= j /\ j <= k - 1
      OBVIOUS
    <3> HIDE DEF D
    <3> QED
      BY <3>1
  <2>2. <<j, k>> \in OpToRel(<, Nat)
    BY <2>1 DEF OpToRel
  <2> QED
    BY <1>2, <2>2
<1> QED
  BY <1>3

\* Of two keys of one width that are not the same, one comes later.
LEMMA LaterTotal ==
  ASSUME NEW n \in Nat, NEW a \in KeySet(n), NEW b \in KeySet(n), a # b
  PROVE  Later(a, b) \/ Later(b, a)
<1>1. CASE a.at # b.at
  BY <1>1 DEF KeySet, Later
<1>2. CASE a.at = b.at
  <2>1. a.id # b.id
    <3>1. a = [at |-> a.at, id |-> a.id] /\ b = [at |-> b.at, id |-> b.id]
      BY DEF KeySet
    <3> QED
      BY <1>2, <3>1
  <2>2. PICK k \in 1 .. n : a.id[k] # b.id[k] /\ \A j \in 1 .. k - 1 : a.id[j] = b.id[j]
    <3>1. a.id \in [1 .. n -> Int] /\ b.id \in [1 .. n -> Int]
      BY DEF KeySet
    <3>2. \A x, y \in [1 .. n -> Int] :
            x # y => \E k \in 1 .. n : x[k] # y[k] /\ \A j \in 1 .. k - 1 : x[j] = y[j]
      BY FirstDifference
    <3> QED
      BY <2>1, <3>1, <3>2
  <2>3. k \in DOMAIN a.id /\ k \in DOMAIN b.id /\ a.id[k] \in Int /\ b.id[k] \in Int
    BY DEF KeySet
  <2>4. a.id[k] > b.id[k] \/ b.id[k] > a.id[k]
    BY <2>2, <2>3
  <2> QED
    BY <1>2, <2>2, <2>3, <2>4 DEF Later
<1> QED
  BY <1>1, <1>2

\* No key comes later than itself, nor than one that comes later than it.
LEMMA LaterStrict ==
  ASSUME NEW n \in Nat, NEW a \in KeySet(n), NEW b \in KeySet(n), Later(a, b)
  PROVE  ~Later(b, a) /\ a # b
<1> USE DEF KeySet, Later
<1>1. CASE a.at > b.at
  BY <1>1
<1>2. CASE a.at = b.at
  <2>1. PICK k \in 1 .. n : a.id[k] > b.id[k] /\ \A j \in 1 .. k - 1 : a.id[j] = b.id[j]
    BY <1>2
  <2>2. ASSUME NEW m \in 1 .. n, b.id[m] > a.id[m], \A j \in 1 .. m - 1 : b.id[j] = a.id[j]
        PROVE  FALSE
    BY <2>1, <2>2
  <2> QED
    BY <1>2, <2>1, <2>2
<1> QED
  BY <1>1, <1>2

\* What is later than a later key is later.
LEMMA LaterTransitive ==
  ASSUME NEW n \in Nat, NEW a \in KeySet(n), NEW b \in KeySet(n), NEW c \in KeySet(n),
         Later(a, b), Later(b, c)
  PROVE  Later(a, c)
<1>1. /\ a.at \in Int /\ b.at \in Int /\ c.at \in Int
      /\ DOMAIN a.id = 1 .. n /\ DOMAIN b.id = 1 .. n
      /\ \A k \in 1 .. n : a.id[k] \in Int /\ b.id[k] \in Int /\ c.id[k] \in Int
  BY DEF KeySet
<1>2. CASE a.at > b.at \/ b.at > c.at
  <2>1. a.at >= b.at /\ b.at >= c.at
    BY <1>1 DEF Later
  <2> QED
    BY <1>1, <1>2, <2>1 DEF Later
<1>3. CASE ~(a.at > b.at \/ b.at > c.at)
  <2>1. a.at = b.at /\ b.at = c.at
    BY <1>1, <1>3 DEF Later
  <2>2. PICK k \in 1 .. n : a.id[k] > b.id[k] /\ \A j \in 1 .. k - 1 : a.id[j] = b.id[j]
    BY <1>1, <1>3 DEF Later
  <2>3. PICK m \in 1 .. n : b.id[m] > c.id[m] /\ \A j \in 1 .. m - 1 : b.id[j] = c.id[j]
    BY <1>1, <1>3 DEF Later
  <2>4. CASE k <= m
    <3>1. b.id[k] >= c.id[k]
      <4>1. k = m \/ k \in 1 .. m - 1
        BY <2>4
      <4>2. b.id[k] > c.id[k] \/ b.id[k] = c.id[k]
        BY <2>3, <4>1
      <4> QED
        BY <1>1, <4>2
    <3>2. \A j \in 1 .. k - 1 : j \in 1 .. m - 1
      BY <2>4
    <3>3. a.id[k] > c.id[k] /\ \A j \in 1 .. k - 1 : a.id[j] = c.id[j]
      BY <1>1, <2>2, <2>3, <3>1, <3>2
    <3> QED
      BY <1>1, <2>1, <3>3 DEF Later
  <2>5. CASE m < k
    <3>1. m \in 1 .. k - 1 /\ \A j \in 1 .. m - 1 : j \in 1 .. k - 1
      BY <2>5
    <3>2. a.id[m] > c.id[m] /\ \A j \in 1 .. m - 1 : a.id[j] = c.id[j]
      BY <2>2, <2>3, <3>1
    <3> QED
      BY <1>1, <2>1, <3>2 DEF Later
  <2> QED
    BY <2>4, <2>5
<1> QED
  BY <1>2, <1>3

-------------------------------------------------------------------------------
(* A page. *)

\* Rows that can be listed: each has a key, and no two have one.
Listable(rows, n) ==
  /\ IsFiniteSet(rows)
  /\ \A r \in rows : Key(r) \in KeySet(n)
  /\ \A r, s \in rows : Key(r) = Key(s) => r = s

\* The order is one of keys.
LEMMA KeysOrder ==
  ASSUME NEW a, NEW b
  PROVE  /\ Later(a, b) <=> Later(Key(a), Key(b))
         /\ Later(a, b) <=> Later(a, Key(b))
         /\ Later(a, b) <=> Later(Key(a), b)
  BY DEF Later, Key

\* Rows of a list are in order: any two, and no row before itself.
LEMMA RowsOrder ==
  ASSUME NEW n \in Nat, NEW rows, Listable(rows, n)
  PROVE  /\ \A a, b \in rows : a = b \/ Later(a, b) \/ Later(b, a)
         /\ \A a, b \in rows : Later(a, b) => a # b /\ ~Later(b, a)
         /\ \A a, b, c \in rows : Later(a, b) /\ Later(b, c) => Later(a, c)
<1>1. ASSUME NEW a \in rows, NEW b \in rows PROVE a = b \/ Later(a, b) \/ Later(b, a)
  BY KeysOrder, LaterTotal DEF Listable
<1>2. ASSUME NEW a \in rows, NEW b \in rows, Later(a, b) PROVE a # b /\ ~Later(b, a)
  BY <1>2, KeysOrder, LaterStrict DEF Listable
<1>3. ASSUME NEW a \in rows, NEW b \in rows, NEW c \in rows, Later(a, b), Later(b, c)
      PROVE  Later(a, c)
  BY <1>3, KeysOrder, LaterTransitive DEF Listable
<1> QED
  BY <1>1, <1>2, <1>3

\* The numbers of rows before each row: every number up to the last is one row's.
LEMMA RowRanks ==
  ASSUME NEW n \in Nat, NEW rows, Listable(rows, n), NEW above,
         above = [r \in rows |-> Cardinality({q \in rows : Later(q, r)})]
  PROVE  /\ above \in [rows -> Nat]
         /\ \A a, b \in rows : Later(a, b) => above[a] < above[b]
         /\ Cardinality(rows) \in Nat /\ \A r \in rows : above[r] < Cardinality(rows)
         /\ \A k \in Nat : k < Cardinality(rows) => \E r \in rows : above[r] = k
<1> DEFINE R == {p \in rows \X rows : Later(p[1], p[2])}
<1>1. \A a, b \in rows : <<a, b>> \in R <=> Later(a, b)
  OBVIOUS
<1> HIDE DEF R
<1>2. TotalOrder(rows, R)
  <2>1. IsFiniteSet(rows)
    BY DEF Listable
  <2>2. ASSUME NEW a \in rows, NEW b \in rows PROVE a = b \/ <<a, b>> \in R \/ <<b, a>> \in R
    BY <1>1, RowsOrder
  <2>3. ASSUME NEW a \in rows, NEW b \in rows, <<a, b>> \in R PROVE a # b /\ <<b, a>> \notin R
    BY <1>1, <2>3, RowsOrder
  <2>4. ASSUME NEW a \in rows, NEW b \in rows, NEW c \in rows, <<a, b>> \in R, <<b, c>> \in R
        PROVE  <<a, c>> \in R
    <3>1. Later(a, b) /\ Later(b, c)
      BY <1>1, <2>4
    <3>2. Later(a, c)
      BY <3>1, RowsOrder
    <3> QED
      BY <1>1, <3>2
  <2> QED
    BY <2>1, <2>2, <2>3, <2>4 DEF TotalOrder
<1>3. above = RankIn(rows, R)
  <2>1. \A r \in rows : {q \in rows : <<q, r>> \in R} = {q \in rows : Later(q, r)}
    BY <1>1
  <2> QED
    BY <2>1 DEF RankIn
<1>4. /\ above \in [rows -> Nat]
      /\ \A a, b \in rows : <<a, b>> \in R => above[a] < above[b]
      /\ Cardinality(rows) \in Nat /\ \A r \in rows : above[r] < Cardinality(rows)
      /\ \A k \in Nat : k < Cardinality(rows) => \E r \in rows : above[r] = k
  BY <1>2, <1>3, Ranks
<1> QED
  BY <1>1, <1>4

\* A page shows the first rows after the cursor, and its own cursor is the last of them; the
\* rows it leaves out come later.  Without a cursor, it leaves none out.
LEMMA PageShows ==
  ASSUME NEW n \in Nat, None \notin KeySet(n), NEW rows, Listable(rows, n), NEW after,
         NEW limit \in Nat \ {0}
  PROVE  LET page == Page(rows, after, limit)
             rest == {r \in rows : after = None \/ Later(after, r)}
         IN  /\ page.rows \subseteq rest
             /\ page.next = None => page.rows = rest
             /\ page.next # None =>
                  /\ \E r \in page.rows : page.next = Key(r)
                  /\ \A r \in page.rows : Key(r) = page.next \/ Later(r, page.next)
                  /\ \A r \in rest \ page.rows : Later(page.next, r)
<1> DEFINE rest == {r \in rows : after = None \/ Later(after, r)}
           last == CHOOSE r \in rest : Cardinality({q \in rest : Later(q, r)}) = limit - 1
           page == Page(rows, after, limit)
<1>1. /\ page.rows = {r \in rest : Cardinality({q \in rest : Later(q, r)}) < limit}
      /\ page.next = IF Cardinality(rest) > limit THEN Key(last) ELSE None
  BY DEF Page
<1> HIDE DEF page
<1>2. Listable(rest, n)
  BY FS_Subset DEF Listable
<1> HIDE DEF rest
<1> DEFINE above == [r \in rest |-> Cardinality({q \in rest : Later(q, r)})]
<1>a. above = [r \in rest |-> Cardinality({q \in rest : Later(q, r)})]
  OBVIOUS
<1>b. \A r \in rest : Cardinality({q \in rest : Later(q, r)}) = above[r]
  OBVIOUS
<1> HIDE DEF above
<1>3. /\ above \in [rest -> Nat]
      /\ \A a, b \in rest : Later(a, b) => above[a] < above[b]
      /\ Cardinality(rest) \in Nat /\ \A r \in rest : above[r] < Cardinality(rest)
      /\ \A k \in Nat : k < Cardinality(rest) => \E r \in rest : above[r] = k
  BY <1>a, <1>2, RowRanks
<1>4. CASE Cardinality(rest) > limit
  <2>1. last \in rest /\ above[last] = limit - 1
    <3>1. \E r \in rest : above[r] = limit - 1
      BY <1>3, <1>4
    <3> QED
      BY <1>b, <3>1
  <2> HIDE DEF last
  <2>2. page.next = Key(last) /\ Key(last) # None /\ page.rows = {r \in rest : above[r] < limit}
    BY <1>b, <1>1, <1>2, <1>4, <2>1 DEF Listable
  <2>3. last \in page.rows
    BY <2>1, <2>2
  <2>4. ASSUME NEW r \in page.rows PROVE r = last \/ Later(r, last)
    <3>1. r \in rest /\ ~Later(last, r)
      BY <1>3, <2>1, <2>2
    <3> QED
      BY <1>2, <2>1, <3>1, RowsOrder
  <2>5. ASSUME NEW r \in rest \ page.rows PROVE Later(last, r)
    <3>1. r # last /\ ~Later(r, last)
      BY <1>3, <2>1, <2>2
    <3> QED
      BY <1>2, <2>1, <3>1, RowsOrder
  <2>6. \A r \in rest : (Later(r, last) <=> Later(r, Key(last))) /\ (Later(last, r) <=> Later(Key(last), r))
    BY KeysOrder
  <2> QED
    BY <2>1, <2>2, <2>3, <2>4, <2>5, <2>6 DEF rest, page
<1>5. CASE ~(Cardinality(rest) > limit)
  <2>1. \A r \in rest : above[r] < limit
    BY <1>3, <1>5
  <2>2. page.next = None /\ page.rows = rest
    BY <1>b, <1>1, <1>5, <2>1
  <2> QED
    BY <2>2 DEF rest, page
<1> QED
  BY <1>4, <1>5

-------------------------------------------------------------------------------
(* What a list has, of books that are in order. *)

\* A function has no more values than places.
LEMMA FiniteImage ==
  ASSUME NEW S, IsFiniteSet(S), NEW f
  PROVE  IsFiniteSet({f[x] : x \in S})
<1> DEFINE T == {f[x] : x \in S}
           g == [x \in S |-> f[x]]
<1>1. g \in Surjection(S, T)
  BY DEF Surjection
<1> HIDE DEF T, g
<1>2. IsFiniteSet(T)
  BY <1>1, FS_Surjection
<1> QED
  BY <1>2 DEF T

\* The rows of a table can be listed, all of them or some.
LEMMA KeyedListable ==
  ASSUME NEW n, NEW rows, Keyed(rows, n), NEW some, some \subseteq rows
  PROVE  Listable(some, n)
<1>1. IsFiniteSet(some)
  BY FS_Subset DEF Keyed
<1>2. \A r \in some : Key(r) \in KeySet(n)
  BY DEF Keyed, Key, KeySet
<1>3. \A r, s \in some : Key(r) = Key(s) => r = s
  <2>1. \A r, s \in some : Key(r) = Key(s) => r.id = s.id
    BY DEF Key
  <2> QED
    BY <2>1 DEF Keyed
<1> QED
  BY <1>1, <1>2, <1>3 DEF Listable

\* The rows of every list can be listed.
LEMMA ListsListable ==
  ASSUME NEW d, TablesOK(d), NEW list \in LIST, NEW filter
  PROVE  Listable(ListRows(d, list, filter), Width(list))
<1> DEFINE rows == ListRows(d, list, filter)
<1>1. CASE list = "settlements"
  <2>1. rows \subseteq d.statements /\ Width(list) = 1
    BY <1>1 DEF ListRows, Width
  <2> QED
    BY <2>1, KeyedListable DEF TablesOK
<1>2. CASE list = "discrepancies"
  <2>1. rows \subseteq d.discs /\ Width(list) = 3
    BY <1>2 DEF ListRows, Width
  <2> QED
    BY <2>1, KeyedListable DEF TablesOK
<1>3. CASE list = "notifications"
  <2>1. rows \subseteq d.notices /\ Width(list) = 1
    BY <1>3 DEF ListRows, Width
  <2> QED
    BY <2>1, KeyedListable DEF TablesOK
<1>4. CASE list = "movements"
  <2>1. rows \subseteq d.movements /\ Width(list) = 2
    BY <1>4 DEF ListRows, Width
  <2> QED
    BY <2>1, KeyedListable DEF TablesOK
<1>5. CASE list = "records"
  <2> DEFINE some == Records(d, filter)
             f == [e \in some |-> [at |-> e.day, id |-> e.id]]
  <2>1. rows = {[at |-> e.day, id |-> e.id] : e \in some} /\ Width(list) = 3
    BY <1>5 DEF ListRows, Width
  <2>2. some \in SUBSET d.ledger
    BY DEF Records
  <2>3. IsFiniteSet(some)
    BY <2>2, FS_Subset DEF TablesOK
  <2> HIDE DEF some
  <2>4. rows = {f[e] : e \in some}
    <3>1. {f[e] : e \in some} = {[at |-> e.day, id |-> e.id] : e \in some}
      OBVIOUS
    <3> HIDE DEF f, rows
    <3> QED
      BY <2>1, <3>1
  <2>5. IsFiniteSet(rows)
    <3> HIDE DEF f, rows
    <3> QED
      BY <2>3, <2>4, FiniteImage
  <2>6. \A r \in rows : Key(r) = r /\ r \in KeySet(3)
    <3>1. \A e \in some : e.day \in Int /\ e.id \in [1 .. 3 -> Int]
      BY <2>2 DEF TablesOK, EntryOK
    <3> HIDE DEF rows
    <3> QED
      BY <2>1, <3>1 DEF Key, KeySet
  <2> QED
    BY <2>1, <2>5, <2>6 DEF Listable
<1>6. CASE list = "returns"
  <2> DEFINE some == {r \in d.returns : filter = None \/ AwaitingCheck(d, r) > 0}
             f == [r \in some |-> [at |-> r.at, id |-> r.id, cost |-> ReturnCost(d, r)]]
  <2>1. rows = {[at |-> r.at, id |-> r.id, cost |-> ReturnCost(d, r)] : r \in some} /\ Width(list) = 1
    BY <1>6 DEF ListRows, Width
  <2>2. some \in SUBSET d.returns
    OBVIOUS
  <2>3. Listable(some, 1)
    BY <2>2, KeyedListable DEF TablesOK
  <2> HIDE DEF some
  <2>4. rows = {f[r] : r \in some} /\ \A r \in some : Key(f[r]) = Key(r)
    BY <2>1 DEF Key
  <2> HIDE DEF f, rows
  <2>5. IsFiniteSet(rows)
    BY <2>3, <2>4, FiniteImage DEF Listable
  <2>6. \A x \in rows : Key(x) \in KeySet(1)
    BY <2>3, <2>4 DEF Listable
  <2>7. ASSUME NEW x \in rows, NEW y \in rows, Key(x) = Key(y) PROVE x = y
    <3>1. PICK r \in some : x = f[r]
      BY <2>4
    <3>2. PICK s \in some : y = f[s]
      BY <2>4
    <3>3. r = s
      BY <2>3, <2>4, <2>7, <3>1, <3>2 DEF Listable
    <3> QED
      BY <3>1, <3>2, <3>3
  <2>8. Listable(rows, 1)
    BY <2>5, <2>6, <2>7 DEF Listable
  <2> QED
    BY <2>1, <2>8 DEF rows
<1>7. CASE list = "stock"
  <2> DEFINE all == {[sku |-> p.sku, state |-> StockState(d, p), days_left |-> DaysLeft(d, p)] : p \in d.positions}
             f == [p \in d.positions |-> [sku |-> p.sku, state |-> StockState(d, p), days_left |-> DaysLeft(d, p)]]
             some == Positions(d, filter)
             g == [p \in some |-> [at |-> 0, id |-> <<-p.sku>>]]
  <2>1. rows = {[at |-> 0, id |-> <<-p.sku>>] : p \in some} /\ Width(list) = 1
    BY <1>7 DEF ListRows, Width
  <2>2. some \in SUBSET all
    BY DEF Positions
  <2>3. all = {f[p] : p \in d.positions} /\ \A p \in all : p.sku \in Int
    <3>1. \A p \in d.positions : p.sku \in Int
      BY DEF TablesOK
    <3>2. \A p \in all : p.sku \in Int
      BY <3>1
    <3> QED
      BY <3>2
  <2>4. IsFiniteSet(all)
    <3> HIDE DEF f, all
    <3> QED
      BY <2>3, FiniteImage DEF TablesOK
  <2>5. IsFiniteSet(some) /\ \A p \in some : p.sku \in Int
    <3> HIDE DEF f, all, some
    <3> QED
      BY <2>2, <2>3, <2>4, FS_Subset
  <2> HIDE DEF some, all, f
  <2>6. rows = {g[p] : p \in some}
    BY <2>1
  <2>7. IsFiniteSet(rows)
    <3> HIDE DEF g, rows
    <3> QED
      BY <2>5, <2>6, FiniteImage
  <2>8. \A r \in rows : Key(r) = r /\ r \in KeySet(1)
    BY <2>1, <2>5 DEF Key, KeySet
  <2> QED
    BY <2>1, <2>7, <2>8 DEF Listable
<1> QED
  BY <1>1, <1>2, <1>3, <1>4, <1>5, <1>6, <1>7 DEF LIST

-------------------------------------------------------------------------------
(* Commits keep the books in order. *)

\* A table that is set; the others stay.
LEMMA SetTable ==
  ASSUME NEW d, d = [u \in TABLE |-> d[u]], NEW t \in TABLE, NEW v, NEW e, e = [d EXCEPT ![t] = v]
  PROVE  /\ e = [u \in TABLE |-> e[u]]
         /\ e[t] = v
         /\ \A u \in TABLE : u # t => e[u] = d[u]
  OBVIOUS

\* No list reads the other tables.
LEMMA OtherTables ==
  ASSUME NEW d, TablesOK(d), NEW e, e = [t \in TABLE |-> e[t]],
         \A t \in {"statements", "returns", "notices", "movements", "discs", "ledger", "positions"} :
           e[t] = d[t]
  PROVE  TablesOK(e)
  BY DEF TablesOK

\* Costs, runs, the connection and the settings.
LEMMA SettingsOK ==
  ASSUME NEW d, TablesOK(d), NEW t \in {"costs", "runs", "link", "others", "profile", "low_days"}, NEW v
  PROVE  TablesOK([d EXCEPT ![t] = v])
  BY SetTable, OtherTables DEF TablesOK, TABLE

\* Rows that change in other columns than the key and the time.
LEMMA KeyedMap ==
  ASSUME NEW n, NEW rows, Keyed(rows, n), NEW f,
         \A r \in rows : {"at", "id"} \subseteq DOMAIN f[r] /\ f[r].at = r.at /\ f[r].id = r.id
  PROVE  Keyed({f[r] : r \in rows}, n)
<1> DEFINE T == {f[r] : r \in rows}
<1>1. IsFiniteSet(T)
  BY FiniteImage DEF Keyed
<1>2. \A x \in T : {"at", "id"} \subseteq DOMAIN x /\ x.at \in Int /\ x.id \in [1 .. n -> Int]
  BY DEF Keyed
<1>3. ASSUME NEW x \in T, NEW y \in T, x.id = y.id PROVE x = y
  <2>1. PICK r \in rows : x = f[r]
    OBVIOUS
  <2>2. PICK s \in rows : y = f[s]
    OBVIOUS
  <2>3. r = s
    BY <1>3, <2>1, <2>2 DEF Keyed
  <2> QED
    BY <2>1, <2>2, <2>3
<1> QED
  BY <1>1, <1>2, <1>3 DEF Keyed

\* Rows that join under keys of their own.
LEMMA KeyedJoin ==
  ASSUME NEW n, NEW rows, Keyed(rows, n), NEW more, Keyed(more, n),
         \A r \in rows, s \in more : r.id # s.id
  PROVE  Keyed(rows \cup more, n)
<1>1. IsFiniteSet(rows \cup more)
  BY FS_Union DEF Keyed
<1> QED
  BY <1>1 DEF Keyed

\* One row that is replaced by itself with another status.
LEMMA KeyedReplace ==
  ASSUME NEW n, NEW rows, Keyed(rows, n), NEW r \in rows, NEW s,
         {"at", "id"} \subseteq DOMAIN s, s.at = r.at, s.id = r.id
  PROVE  Keyed((rows \ {r}) \cup {s}, n)
<1>1. IsFiniteSet((rows \ {r}) \cup {s})
  BY FS_RemoveElement, FS_AddElement DEF Keyed
<1> QED
  BY <1>1 DEF Keyed

\* A count of a variant's stock.
LEMMA CountOK ==
  ASSUME NEW d, TablesOK(d), NEW p, p.sku \in Int
  PROVE  TablesOK([d EXCEPT !.positions = {q \in @ : q.sku # p.sku} \cup {p}])
<1> DEFINE new == {q \in d.positions : q.sku # p.sku} \cup {p}
           e == [d EXCEPT !["positions"] = new]
<1>1. IsFiniteSet(new)
  BY FS_Subset, FS_AddElement DEF TablesOK
<1>2. \A q \in new : q.sku \in Int
  BY DEF TablesOK
<1>3. e = [t \in TABLE |-> e[t]] /\ e.positions = new /\ \A t \in TABLE : t # "positions" => e[t] = d[t]
  BY SetTable DEF TablesOK, TABLE
<1> HIDE DEF e, new
<1>4. TablesOK(e)
  BY <1>1, <1>2, <1>3 DEF TablesOK, TABLE
<1> QED
  BY <1>4 DEF e, new

\* A discrepancy is resolved, a notice is read or done.
LEMMA DecisionOK ==
  ASSUME NEW d, TablesOK(d), NEW status,
         NEW t \in {"discs", "notices"}, NEW r \in d[t]
  PROVE  TablesOK([d EXCEPT ![t] = (@ \ {r}) \cup {[r EXCEPT !.status = status]}])
<1> DEFINE s == [r EXCEPT !.status = status]
           new == (d[t] \ {r}) \cup {s}
           e == [d EXCEPT ![t] = new]
<1>1. {"at", "id"} \subseteq DOMAIN s /\ s.at = r.at /\ s.id = r.id
  BY DEF TablesOK, Keyed
<1>2. CASE t = "discs"
  <2>1. Keyed(new, 3)
    BY <1>1, <1>2, KeyedReplace DEF TablesOK
  <2>2. ASSUME NEW x \in new, x.id[1] \in DOMAIN STATEMENT
        PROVE  \E y \in d.statements : y.id = <<x.id[1]>>
    <3>1. PICK y \in d.discs : x.id = y.id
      BY <1>1, <1>2
    <3> QED
      BY <2>2, <3>1 DEF TablesOK
  <2>3. e = [u \in TABLE |-> e[u]] /\ e.discs = new /\ \A u \in TABLE : u # "discs" => e[u] = d[u]
    BY <1>2, SetTable DEF TablesOK, TABLE
  <2> HIDE DEF e, new
  <2>4. TablesOK(e)
    BY <2>1, <2>2, <2>3 DEF TablesOK, TABLE
  <2> QED
    BY <2>4 DEF e, new
<1>3. CASE t = "notices"
  <2>1. Keyed(new, 1)
    BY <1>1, <1>3, KeyedReplace DEF TablesOK
  <2>2. e = [u \in TABLE |-> e[u]] /\ e.notices = new /\ \A u \in TABLE : u # "notices" => e[u] = d[u]
    BY <1>3, SetTable DEF TablesOK, TABLE
  <2> HIDE DEF e, new
  <2>3. TablesOK(e)
    BY <2>1, <2>2 DEF TablesOK, TABLE
  <2> QED
    BY <2>3 DEF e, new
<1> QED
  BY <1>2, <1>3

\* A statement's invoice number is recorded.
LEMMA InvoiceOK ==
  ASSUME NEW d, TablesOK(d), NEW id, NEW number
  PROVE  TablesOK(RecordInvoice(d, id, number))
<1> DEFINE f == [s \in d.statements |-> IF s.id = id THEN [s EXCEPT !.invoice = number] ELSE s]
           new == {f[s] : s \in d.statements}
           e == [d EXCEPT !["statements"] = new]
<1>1. RecordInvoice(d, id, number) = e
  BY DEF RecordInvoice
<1>2. \A s \in d.statements : {"at", "id"} \subseteq DOMAIN f[s] /\ f[s].at = s.at /\ f[s].id = s.id
  BY DEF TablesOK, Keyed
<1> HIDE DEF f
<1>3. Keyed(new, 1)
  <2>1. Keyed(d.statements, 1)
    BY DEF TablesOK
  <2> QED
    BY <1>2, <2>1, KeyedMap
<1>4. \A s \in d.statements : \E x \in new : x.id = s.id
  BY <1>2
<1>5. e = [t \in TABLE |-> e[t]] /\ e.statements = new /\ \A t \in TABLE : t # "statements" => e[t] = d[t]
  BY SetTable DEF TablesOK, TABLE
<1> HIDE DEF e, new
<1>6. TablesOK(e)
  BY <1>3, <1>4, <1>5 DEF TablesOK, TABLE
<1> QED
  BY <1>1, <1>6

\* The entries of a figure over its lines.
LEMMA SpreadOK ==
  ASSUME NEW t \in DOMAIN TX, NEW category, NEW fee, NEW total, NEW f \in Int
  PROVE  /\ IsFiniteSet(Spread(t, category, fee, total, f))
         /\ \A e \in Spread(t, category, fee, total, f) : EntryOK(e)
<1> DEFINE lines == TX[t].lines
           parts == Allocate(total, [i \in DOMAIN lines |-> 1])
           entry == [i \in DOMAIN lines |->
                      [Entry(<<t, f, i>>, TX[t].order, category, fee, parts[i], ORDER[TX[t].order].day)
                         EXCEPT !.line = lines[i], !.sku = OrderLine[lines[i]].sku]]
           all == {entry[i] : i \in DOMAIN lines}
<1>1. Spread(t, category, fee, total, f) \in SUBSET all
  BY DEF Spread
<1>2. DOMAIN lines = 1 .. Len(lines) /\ Len(lines) \in Nat /\ ORDER[TX[t].order].day \in Int /\ t \in Int
  <2>1. lines \in Seq(DOMAIN OrderLine) /\ TX[t].order \in DOMAIN ORDER
    BY PostingAssumption DEF PostingAssumption
  <2>2. ORDER[TX[t].order].day \in Int /\ t \in Int
    BY <2>1, PostingAssumption DEF PostingAssumption
  <2> QED
    BY <2>1, <2>2
<1>3. ASSUME NEW i \in DOMAIN lines PROVE EntryOK(entry[i])
  <2>1. entry[i].id = <<t, f, i>> /\ entry[i].day = ORDER[TX[t].order].day /\ {"amount", "day", "id", "line"} \subseteq DOMAIN entry[i]
    BY DEF Entry
  <2>2. <<t, f, i>> \in [1 .. 3 -> Int]
    BY <1>2
  <2> HIDE DEF entry
  <2> QED
    BY <1>2, <2>1, <2>2 DEF EntryOK
<1>4. IsFiniteSet(DOMAIN lines)
  BY <1>2, FS_Interval
<1> HIDE DEF entry, lines
<1>5. IsFiniteSet(all)
  BY <1>4, FiniteImage
<1> QED
  BY <1>1, <1>3, <1>5, FS_Subset

\* Entries that join the ledger.
LEMMA LedgerJoin ==
  ASSUME NEW l, IsFiniteSet(l), \A e \in l : EntryOK(e),
         NEW more, IsFiniteSet(more), \A e \in more : EntryOK(e)
  PROVE  IsFiniteSet(l \cup more) /\ \A e \in l \cup more : EntryOK(e)
  BY FS_Union

\* The entries of a transaction.
LEMMA EntriesOK ==
  ASSUME NEW t \in DOMAIN TX
  PROVE  IsFiniteSet(EntriesOf(t)) /\ \A e \in EntriesOf(t) : EntryOK(e)
<1> DEFINE figures == TX[t].figures
           category(f) == CategoryOf(figures[f].field)
           fee(f) == IF category(f) \in REVENUE THEN None ELSE figures[f].field
           spread == [f \in DOMAIN figures |->
                       Spread(t, category(f), fee(f), FromDecimalString(figures[f].tenths), f)]
           cost == Spread(t, "cost_of_goods_sold", None, -TX[t].cost * Len(TX[t].lines), 0)
           all == {Spread(t, category(f), fee(f), FromDecimalString(figures[f].tenths), f) : f \in DOMAIN figures}
           parts == UNION all
<1>1. EntriesOf(t) = parts \cup cost
  BY DEF EntriesOf
<1>a. all = {spread[f] : f \in DOMAIN figures}
  OBVIOUS
<1>2. DOMAIN figures = 1 .. Len(figures) /\ Len(figures) \in Nat
  BY PostingAssumption DEF PostingAssumption
<1>3. \A f \in DOMAIN figures : IsFiniteSet(spread[f]) /\ \A e \in spread[f] : EntryOK(e)
  BY <1>2, SpreadOK
<1>4. IsFiniteSet(cost) /\ \A e \in cost : EntryOK(e)
  BY SpreadOK
<1>5. IsFiniteSet(DOMAIN figures)
  BY <1>2, FS_Interval
<1> HIDE DEF spread, cost, figures, all
<1>6. IsFiniteSet(all)
  BY <1>a, <1>5, FiniteImage
<1>7. \A l \in all : IsFiniteSet(l) /\ \A e \in l : EntryOK(e)
  BY <1>a, <1>3
<1>8. IsFiniteSet(parts) /\ \A e \in parts : EntryOK(e)
  BY <1>6, <1>7, FS_UNION
<1> HIDE DEF parts
<1> QED
  BY <1>1, <1>4, <1>8, LedgerJoin

\* An order is posted.
LEMMA OrderOK ==
  ASSUME NEW d, TablesOK(d), NEW o
  PROVE  TablesOK(PostOrder(d, o))
<1> DEFINE of == {t \in DOMAIN TX : TX[t].order = o}
           f == [t \in of |-> EntriesOf(t)]
           all == {EntriesOf(t) : t \in of}
           new == d.ledger \cup UNION all
           e == PostOrder(d, o)
<1>1. IsFiniteSet(of)
  BY FS_Subset, PostingAssumption DEF PostingAssumption
<1>2. all = {f[t] : t \in of}
  OBVIOUS
<1>3. \A l \in all : IsFiniteSet(l) /\ \A x \in l : EntryOK(x)
  BY EntriesOK
<1>4. IsFiniteSet(all)
  <2> HIDE DEF f, all, of
  <2> QED
    BY <1>1, <1>2, FiniteImage
<1>5. e = [t \in TABLE |-> e[t]] /\ e.ledger = new /\ \A t \in TABLE : t \notin {"ledger", "orders"} => e[t] = d[t]
  <2>1. d = [t \in TABLE |-> d[t]]
    BY DEF TablesOK
  <2> QED
    BY <2>1 DEF PostOrder, TABLE
<1> HIDE DEF all, e
<1>6. IsFiniteSet(UNION all) /\ \A x \in UNION all : EntryOK(x)
  BY <1>3, <1>4, FS_UNION
<1>7. IsFiniteSet(new) /\ \A x \in new : EntryOK(x)
  BY <1>6, LedgerJoin DEF TablesOK
<1> HIDE DEF new
<1>8. TablesOK(e)
  BY <1>5, <1>7 DEF TablesOK, TABLE
<1> QED
  BY <1>8 DEF e

\* A statement is posted that is not in the books.
LEMMA StatementOK ==
  ASSUME NEW d, TablesOK(d), NEW s \in DOMAIN STATEMENT, \A row \in d.statements : row.id # <<s>>
  PROVE  TablesOK(PostStatement(d, s))
<1> DEFINE time == STATEMENT[s].time
           month == MonthOf(time)
           xs == STATEMENT[s].extras
           settles(e) == e.order \in STATEMENT[s].orders /\ e.category # "cost_of_goods_sold"
           settled(e) == [e EXCEPT !.statement = s, !.month = month]
           anExtra(x) == settled(Entry(<<s, x, 0>>, xs[x].order, xs[x].category, xs[x].fee,
                                       FromDecimalString(xs[x].tenths), time))
           extra == [x \in DOMAIN xs |-> anExtra(x)]
           extras == {anExtra(x) : x \in DOMAIN xs}
           penalties == Within(extras, {"platform_adjustment"})
           derived == Amount({e \in d.ledger : settles(e)}) + Amount(penalties)
           payout == settled(Entry(<<s, 0, 0>>, None, "settlement", None, -derived, time))
           now == [e \in d.ledger |-> IF settles(e) THEN settled(e) ELSE e]
           old == {IF settles(e) THEN settled(e) ELSE e : e \in d.ledger}
           ledger == old \cup extras \cup {payout}
           row == [id |-> <<s>>, at |-> time, stated |-> STATEMENT[s].stated, invoice |-> None]
           disc == [e \in penalties |-> [id |-> e.id, at |-> time, status |-> "open"]]
           discs == {[id |-> e.id, at |-> time, status |-> "open"] : e \in penalties}
           new == PostStatement(d, s)
<1>1. /\ new = [t \in TABLE |-> new[t]]
      /\ new.ledger = ledger /\ new.statements = d.statements \cup {row} /\ new.discs = d.discs \cup discs
      /\ \A t \in TABLE : t \notin {"ledger", "orders", "statements", "discs"} => new[t] = d[t]
  <2>1. d = [t \in TABLE |-> d[t]]
    BY DEF TablesOK
  <2>2. PostStatement(d, s).ledger = ledger
    BY <2>1 DEF PostStatement, TABLE
  <2>3. PostStatement(d, s).statements = d.statements \cup {row} /\ PostStatement(d, s).discs = d.discs \cup discs
    BY <2>1 DEF PostStatement, TABLE
  <2>4. /\ new = [t \in TABLE |-> new[t]]
        /\ \A t \in TABLE : t \notin {"ledger", "orders", "statements", "discs"} => new[t] = d[t]
    BY <2>1 DEF PostStatement, TABLE
  <2> QED
    BY <2>2, <2>3, <2>4
<1>2. time \in Int /\ s \in Int /\ DOMAIN xs = 1 .. Len(xs) /\ Len(xs) \in Nat
  <2> DEFINE X == [category : EXTRA, order : STATEMENT[s].orders \cup {None}, fee : STRING, tenths : Int \ (-4 .. 4)]
  <2>1. time \in 1 .. Today /\ s \in Int /\ xs \in Seq(X)
    BY PostingAssumption DEF PostingAssumption
  <2> HIDE DEF xs, X, time
  <2>2. time \in Int
    BY <2>1, LedgerAssumption DEF LedgerAssumption
  <2> QED
    BY <2>1, <2>2
<1>3. ASSUME NEW x \in DOMAIN xs PROVE EntryOK(extra[x]) /\ extra[x].id = <<s, x, 0>>
  <2>1. extra[x].id = <<s, x, 0>> /\ extra[x].day = time /\ {"amount", "day", "id", "line"} \subseteq DOMAIN extra[x]
    BY DEF Entry
  <2>2. <<s, x, 0>> \in [1 .. 3 -> Int]
    BY <1>2
  <2> HIDE DEF extra
  <2> QED
    BY <1>2, <2>1, <2>2 DEF EntryOK
<1>4. EntryOK(payout)
  <2>1. payout.id = <<s, 0, 0>> /\ payout.day = time /\ {"amount", "day", "id", "line"} \subseteq DOMAIN payout
    BY DEF Entry
  <2>2. <<s, 0, 0>> \in [1 .. 3 -> Int]
    BY <1>2
  <2> HIDE DEF payout
  <2> QED
    BY <1>2, <2>1, <2>2 DEF EntryOK
<1>5. \A e \in d.ledger : EntryOK(now[e])
  BY DEF TablesOK, EntryOK
<1>a. extras = {extra[x] : x \in DOMAIN xs} /\ old = {now[e] : e \in d.ledger}
  OBVIOUS
<1>b. row.id = <<s>> /\ row.at = time /\ {"at", "id"} \subseteq DOMAIN row
  OBVIOUS
<1>c. penalties \in SUBSET extras
  BY DEF Within
<1>d. discs = {disc[e] : e \in penalties}
  OBVIOUS
<1>e. \A e \in penalties : disc[e].id = e.id /\ disc[e].at = time /\ {"at", "id"} \subseteq DOMAIN disc[e]
  OBVIOUS
<1> HIDE DEF new, payout, now, extra, extras, old, row, penalties, disc, discs
<1>6. IsFiniteSet(extras) /\ \A e \in extras : EntryOK(e)
  <2>1. IsFiniteSet(DOMAIN xs)
    BY <1>2, FS_Interval
  <2> QED
    BY <1>a, <1>3, <2>1, FiniteImage
<1>7. IsFiniteSet(ledger) /\ \A e \in ledger : EntryOK(e)
  <2>1. IsFiniteSet(old) /\ \A e \in old : EntryOK(e)
    BY <1>a, <1>5, FiniteImage DEF TablesOK
  <2>2. IsFiniteSet(old \cup extras) /\ \A e \in old \cup extras : EntryOK(e)
    BY <1>6, <2>1, LedgerJoin
  <2> QED
    BY <1>4, <2>2, FS_AddElement
<1>8. Keyed(d.statements \cup {row}, 1)
  <2>1. Keyed({row}, 1)
    <3>1. <<s>> \in [1 .. 1 -> Int]
      BY <1>2
    <3> QED
      BY <1>b, <1>2, <3>1, FS_Singleton DEF Keyed
  <2>2. \A r \in d.statements, q \in {row} : r.id # q.id
    BY <1>b
  <2>3. Keyed(d.statements, 1)
    BY DEF TablesOK
  <2> QED
    BY <2>1, <2>2, <2>3, KeyedJoin
<1>9. Keyed(discs, 3) /\ \A x \in discs : x.id[1] = s
  <2>2. IsFiniteSet(penalties)
    BY <1>c, <1>6, FS_Subset
  <2>3. \A e \in penalties : \E x \in DOMAIN xs : e = extra[x]
    BY <1>a, <1>c
  <2>5. \A e \in penalties : e.id \in [1 .. 3 -> Int] /\ e.id[1] = s
    BY <1>3, <2>3 DEF EntryOK
  <2>6. \A e, f \in penalties : e.id = f.id => e = f
    <3>1. ASSUME NEW x \in DOMAIN xs, NEW y \in DOMAIN xs, extra[x].id = extra[y].id PROVE x = y
      BY <1>3, <3>1
    <3> QED
      BY <2>3, <3>1
  <2>7. IsFiniteSet(discs)
    BY <1>d, <2>2, FiniteImage
  <2>8. \A x \in discs : {"at", "id"} \subseteq DOMAIN x /\ x.at \in Int /\ x.id \in [1 .. 3 -> Int] /\ x.id[1] = s
    BY <1>d, <1>e, <1>2, <2>5
  <2>9. \A x, y \in discs : x.id = y.id => x = y
    BY <1>d, <1>e, <2>6
  <2> QED
    BY <2>7, <2>8, <2>9 DEF Keyed
<1> HIDE DEF ledger
<1>10. \A x \in d.discs, y \in discs : x.id # y.id
  <2>1. ASSUME NEW x \in d.discs, x.id[1] = s PROVE FALSE
    BY <2>1 DEF TablesOK
  <2> QED
    BY <1>9, <2>1
<1>11. Keyed(d.discs \cup discs, 3)
  <2>1. Keyed(d.discs, 3)
    BY DEF TablesOK
  <2> QED
    BY <1>9, <1>10, <2>1, KeyedJoin
<1>12. \A x \in d.discs \cup discs : x.id[1] \in DOMAIN STATEMENT =>
         \E r \in d.statements \cup {row} : r.id = <<x.id[1]>>
  BY <1>b, <1>9 DEF TablesOK
<1>13. TablesOK(new)
  BY <1>1, <1>7, <1>8, <1>11, <1>12 DEF TablesOK, TABLE
<1> QED
  BY <1>13 DEF new

\* A return is posted that is not in the books.
LEMMA ReturnOK ==
  ASSUME NEW d, TablesOK(d), NEW r \in DOMAIN RETURN, \A row \in d.returns : row.id # <<r>>
  PROVE  TablesOK(PostReturn(d, r))
<1> DEFINE ret == RETURN[r]
           line == CHOOSE l \in DOMAIN OrderLine : OrderLine[l].order = ret.order
           type(i) == MovementOf(ret.kind, ret.items[i].check)
           items == DOMAIN ret.items
           lost == {i \in items : type(i) = "write_off" /\ ret.items[i].cost # 0}
           moved == {i \in items : type(i) # "none"}
           entry == [i \in lost |->
                      [Entry(<<r, i, 0>>, ret.order, "stock_written_off", None, -ret.items[i].cost, ret.completed)
                         EXCEPT !.line = line, !.sku = OrderLine[line].sku, !.ret = <<r>>]]
           entries == {entry[i] : i \in lost}
           row == [id |-> <<r>>, at |-> ret.requested, kind |-> ret.kind, order |-> ret.order,
                   requested |-> ret.requested, completed |-> ret.completed]
           move == [i \in moved |-> [id |-> <<r, i>>, at |-> ret.completed, sku |-> ret.items[i].sku, type |-> type(i)]]
           moves == {move[i] : i \in moved}
           new == PostReturn(d, r)
<1>1. /\ new = [t \in TABLE |-> new[t]]
      /\ new.ledger = d.ledger \cup entries /\ new.returns = d.returns \cup {row}
      /\ new.movements = d.movements \cup moves
      /\ \A t \in TABLE : t \notin {"ledger", "returns", "items", "movements"} => new[t] = d[t]
  <2>1. d = [t \in TABLE |-> d[t]]
    BY DEF TablesOK
  <2>2. PostReturn(d, r).ledger = d.ledger \cup entries
    BY <2>1 DEF PostReturn, TABLE
  <2>3. PostReturn(d, r).returns = d.returns \cup {row}
    BY <2>1 DEF PostReturn, TABLE
  <2>4. PostReturn(d, r).movements = d.movements \cup moves
    BY <2>1 DEF PostReturn, TABLE
  <2>5. /\ new = [t \in TABLE |-> new[t]]
        /\ \A t \in TABLE : t \notin {"ledger", "returns", "items", "movements"} => new[t] = d[t]
    BY <2>1 DEF PostReturn, TABLE
  <2> QED
    BY <2>2, <2>3, <2>4, <2>5
<1>2. ret.requested \in Int /\ ret.completed \in Int /\ r \in Int /\ items = 1 .. Len(ret.items) /\ Len(ret.items) \in Nat
  BY PostingAssumption DEF PostingAssumption
<1>3. IsFiniteSet(lost) /\ IsFiniteSet(moved)
  <2>1. IsFiniteSet(items)
    BY <1>2, FS_Interval
  <2> QED
    BY <2>1, FS_Subset
<1>4. ASSUME NEW i \in lost PROVE EntryOK(entry[i])
  <2>1. entry[i].id = <<r, i, 0>> /\ entry[i].day = ret.completed /\ {"amount", "day", "id", "line"} \subseteq DOMAIN entry[i]
    BY DEF Entry
  <2>2. <<r, i, 0>> \in [1 .. 3 -> Int]
    BY <1>2
  <2> HIDE DEF entry
  <2> QED
    BY <1>2, <2>1, <2>2 DEF EntryOK
<1>5. ASSUME NEW i \in moved
      PROVE  /\ {"at", "id"} \subseteq DOMAIN move[i] /\ move[i].at \in Int
             /\ move[i].id \in [1 .. 2 -> Int]
             /\ move[i].id[1] = r /\ move[i].id[2] = i
  BY <1>2
<1>a. row.id = <<r>> /\ row.at = ret.requested /\ {"at", "id"} \subseteq DOMAIN row
  OBVIOUS
<1> HIDE DEF new, entry, move, lost, moved, row
<1>6. IsFiniteSet(d.ledger \cup entries) /\ \A e \in d.ledger \cup entries : EntryOK(e)
  <2>1. IsFiniteSet(entries) /\ \A e \in entries : EntryOK(e)
    BY <1>3, <1>4, FiniteImage
  <2> HIDE DEF entries
  <2> QED
    BY <2>1, LedgerJoin DEF TablesOK
<1>7. Keyed(d.returns \cup {row}, 1)
  <2>1. Keyed({row}, 1)
    <3>1. <<r>> \in [1 .. 1 -> Int]
      BY <1>2
    <3> QED
      BY <1>a, <1>2, <3>1, FS_Singleton DEF Keyed
  <2>2. \A q \in d.returns, p \in {row} : q.id # p.id
    BY <1>a
  <2>3. Keyed(d.returns, 1)
    BY DEF TablesOK
  <2> QED
    BY <2>1, <2>2, <2>3, KeyedJoin
<1>8. Keyed(moves, 2) /\ \A m \in moves : m.id[1] = r
  <2>1. IsFiniteSet(moves)
    BY <1>3, FiniteImage
  <2>2. ASSUME NEW i \in moved, NEW j \in moved, move[i].id = move[j].id PROVE i = j
    <3>1. move[i].id[2] = i /\ move[j].id[2] = j
      BY <1>5
    <3> QED
      BY <2>2, <3>1
  <2>3. \A m \in moves : {"at", "id"} \subseteq DOMAIN m /\ m.at \in Int /\ m.id \in [1 .. 2 -> Int] /\ m.id[1] = r
    BY <1>5
  <2>4. ASSUME NEW x \in moves, NEW y \in moves, x.id = y.id PROVE x = y
    <3>1. PICK i \in moved : x = move[i]
      OBVIOUS
    <3>2. PICK j \in moved : y = move[j]
      OBVIOUS
    <3> QED
      BY <2>2, <2>4, <3>1, <3>2
  <2> QED
    BY <2>1, <2>3, <2>4 DEF Keyed
<1> HIDE DEF entries, moves
<1>9. \A x \in d.movements, y \in moves : x.id # y.id
  <2>1. ASSUME NEW x \in d.movements, x.id[1] = r PROVE FALSE
    BY <2>1 DEF TablesOK
  <2> QED
    BY <1>8, <2>1
<1>10. Keyed(d.movements \cup moves, 2)
  <2>1. Keyed(d.movements, 2)
    BY DEF TablesOK
  <2> QED
    BY <1>8, <1>9, <2>1, KeyedJoin
<1>11. \A m \in d.movements \cup moves : m.id[1] \in DOMAIN RETURN =>
         \E q \in d.returns \cup {row} : q.id = <<m.id[1]>>
  BY <1>a, <1>8 DEF TablesOK
<1>12. TablesOK(new)
  BY <1>1, <1>6, <1>7, <1>10, <1>11 DEF TablesOK, TABLE
<1> QED
  BY <1>12 DEF new

-------------------------------------------------------------------------------
(* Steps. *)

\* A sequence that grows is one of its own members, and keeps what it had.
LEMMA Growing ==
  ASSUME NEW s, s \in Seq(Range(s)), NEW x
  PROVE  /\ Append(s, x) \in Seq(Range(Append(s, x)))
         /\ Append(s, x) # <<>>
         /\ DOMAIN s = 1 .. Len(s) /\ Len(s) \in Nat /\ (s # <<>> => Len(s) > 0)
         /\ Len(Append(s, x)) = Len(s) + 1
         /\ DOMAIN Append(s, x) = 1 .. Len(s) + 1
         /\ Append(s, x)[Len(s) + 1] = x
         /\ \A i \in 1 .. Len(s) : Append(s, x)[i] = s[i]
<1> DEFINE t == Append(s, x)
           T == Range(s) \cup {x}
<1>1. s \in Seq(T) /\ x \in T
  OBVIOUS
<1>2. /\ t \in Seq(T) /\ Len(t) = Len(s) + 1 /\ Len(s) \in Nat /\ DOMAIN s = 1 .. Len(s)
      /\ DOMAIN t = 1 .. Len(s) + 1
      /\ t[Len(s) + 1] = x /\ \A i \in 1 .. Len(s) : t[i] = s[i]
  BY <1>1
<1>3. t # <<>> /\ (s # <<>> => Len(s) > 0)
  BY <1>1, <1>2
<1>4. t \in Seq(Range(t))
  BY <1>2 DEF Range
<1> QED
  BY <1>2, <1>3, <1>4

\* What a commit leaves is in order.
LEMMA CommitOK ==
  ASSUME HistoryOK, Commit
  PROVE  \E tables : TablesOK(tables) /\ commits' = Append(commits, tables) /\ UNCHANGED reader
<1>1. TablesOK(db)
  BY Growing DEF HistoryOK, db
<1>2. ASSUME NEW o \in DOMAIN ORDER, SyncOrder(o)
      PROVE  TablesOK(PostOrder(db, o)) /\ Write(PostOrder(db, o))
  BY <1>1, <1>2, OrderOK DEF SyncOrder
<1>3. ASSUME NEW s \in DOMAIN STATEMENT, SyncStatement(s)
      PROVE  TablesOK(PostStatement(db, s)) /\ Write(PostStatement(db, s))
  BY <1>1, <1>3, StatementOK DEF SyncStatement
<1>4. ASSUME NEW r \in DOMAIN RETURN, SyncReturn(r)
      PROVE  TablesOK(PostReturn(db, r)) /\ Write(PostReturn(db, r))
  BY <1>1, <1>4, ReturnOK DEF SyncReturn
<1>5. ASSUME NEW p \in PositionWrite, CountStock(p)
      PROVE  \E tables : TablesOK(tables) /\ Write(tables)
  BY <1>1, <1>5, CountOK, BooksAssumption DEF CountStock, BooksAssumption
<1>6. ASSUME NEW x \in db.discs, Resolve(x)
      PROVE  \E tables : TablesOK(tables) /\ Write(tables)
  BY <1>1, <1>6, DecisionOK DEF Resolve
<1>7. ASSUME NEW n \in db.notices, NEW status \in {"read", "done"}, Notice(n, status)
      PROVE  \E tables : TablesOK(tables) /\ Write(tables)
  BY <1>1, <1>7, DecisionOK DEF Notice
<1>8. ASSUME NEW s \in db.statements, NEW number \in InvoiceNumber, SaveInvoice(s, number)
      PROVE  \E tables : TablesOK(tables) /\ Write(tables)
  BY <1>1, <1>8, InvoiceOK DEF SaveInvoice
<1>9. ASSUME NEW c \in CostWrite, NewCost(c) PROVE \E tables : TablesOK(tables) /\ Write(tables)
  BY <1>1, <1>9, SettingsOK DEF NewCost
<1>10. ASSUME NEW run \in RunWrite, EndRun(run) PROVE \E tables : TablesOK(tables) /\ Write(tables)
  BY <1>1, <1>10, SettingsOK DEF EndRun
<1>11. ASSUME NEW link \in LinkWrite, Relink(link) PROVE \E tables : TablesOK(tables) /\ Write(tables)
  BY <1>1, <1>11, SettingsOK DEF Relink
<1>12. ASSUME NEW o \in SalesWrite, EnterSales(o) PROVE \E tables : TablesOK(tables) /\ Write(tables)
  BY <1>1, <1>12, SettingsOK DEF EnterSales, PutOtherSales
<1>13. ASSUME NEW p \in Profile, SaveProfile(p) PROVE \E tables : TablesOK(tables) /\ Write(tables)
  BY <1>1, <1>13, SettingsOK DEF SaveProfile, PutTaxProfile
<1>14. ASSUME NEW days \in LowDays, SaveSettings(days) PROVE \E tables : TablesOK(tables) /\ Write(tables)
  BY <1>1, <1>14, SettingsOK DEF SaveSettings, PutAlertSettings
<1>15. \E tables : TablesOK(tables) /\ Write(tables)
  BY <1>2, <1>3, <1>4, <1>5, <1>6, <1>7, <1>8, <1>9, <1>10, <1>11, <1>12, <1>13, <1>14 DEF Commit
<1> QED
  BY <1>15 DEF Write

\* The history stays in order, and what a page was read from stays what it was.
LEMMA CommitInv == ASSUME PagingInv, Commit PROVE PagingInv'
<1>1. PICK tables : TablesOK(tables) /\ commits' = Append(commits, tables) /\ UNCHANGED reader
  BY CommitOK DEF PagingInv
<1>2. /\ commits' \in Seq(Range(commits')) /\ commits' # <<>>
      /\ DOMAIN commits = 1 .. Len(commits) /\ Len(commits) \in Nat
      /\ DOMAIN commits' = 1 .. Len(commits) + 1
      /\ commits'[Len(commits) + 1] = tables
      /\ \A i \in DOMAIN commits : commits'[i] = commits[i]
  BY <1>1, Growing DEF PagingInv, HistoryOK
<1>3. HistoryOK'
  <2>1. ASSUME NEW i \in DOMAIN commits' PROVE TablesOK(commits'[i])
    <3>1. i \in DOMAIN commits \/ i = Len(commits) + 1
      BY <1>2
    <3> QED
      BY <1>1, <1>2, <3>1 DEF PagingInv, HistoryOK
  <2> QED
    BY <1>2, <2>1 DEF HistoryOK
<1>4. DOMAIN commits \subseteq DOMAIN commits'
  BY <1>2
<1>5. ReaderOK'
  BY <1>1, <1>4 DEF PagingInv, ReaderOK, Listing
<1>6. ASSUME Listing, NEW i \in DOMAIN reader.shown
      PROVE  Listed(i)' = Listed(i) /\ ShownOn(i)' = ShownOn(i) /\ Cursor(i)' = Cursor(i)
  <2>1. \A k \in 1 .. 2 : commits'[reader.shown[i].saw[k]] = commits[reader.shown[i].saw[k]]
    BY <1>2, <1>6 DEF PagingInv, ReaderOK
  <2> DEFINE read == reader.shown[i].saw[IF reader.asks.list = "records" THEN 2 ELSE 1]
  <2>2. commits'[read] = commits[read]
    BY <2>1
  <2>3. Listed(i)' = {Key(row) : row \in ListRows(commits'[read], reader.asks.list, reader.asks.filter)}
    BY <1>1 DEF Listed
  <2>4. Listed(i)' = Listed(i)
    BY <2>2, <2>3 DEF Listed
  <2> QED
    BY <1>1, <2>4 DEF ShownOn, Cursor
<1>7. PagesOK'
  BY <1>1, <1>6 DEF PagingInv, PagesOK, Listing, After, LastShown
<1> QED
  BY <1>3, <1>5, <1>7 DEF PagingInv

\* A question is asked, and nothing has been shown.
LEMMA AskInv == ASSUME PagingInv, NEW q \in Question, Ask(q) PROVE PagingInv'
<1>1. /\ reader' = [asks |-> q, saw |-> <<>>, shown |-> <<>>] /\ commits' = commits
  BY DEF Ask, NoReader
<1>2. HistoryOK'
  BY <1>1 DEF PagingInv, HistoryOK
<1>3. reader'.asks = q /\ reader'.saw = <<>> /\ reader'.shown = <<>>
  BY <1>1
<1>4. ReaderOK'
  BY <1>1, <1>3 DEF ReaderOK
<1>5. PagesOK'
  BY <1>3 DEF PagesOK
<1> QED
  BY <1>2, <1>4, <1>5 DEF PagingInv

\* A statement reads what is committed last.
LEMMA ReadInv == ASSUME PagingInv, Read PROVE PagingInv'
<1>1. /\ commits' = commits
      /\ reader'.asks = reader.asks /\ reader'.shown = reader.shown
      /\ reader'.saw = Append(reader.saw, Len(commits))
      /\ reader' = [asks |-> reader'.asks, saw |-> reader'.saw, shown |-> reader'.shown]
  BY DEF Read, PagingInv, ReaderOK
<1>2. HistoryOK'
  BY <1>1 DEF PagingInv, HistoryOK
<1>3. reader'.saw \in Seq(DOMAIN commits)
  <2>1. Len(commits) \in DOMAIN commits
    BY Growing DEF PagingInv, HistoryOK
  <2> QED
    BY <1>1, <2>1 DEF PagingInv, ReaderOK
<1>4. ReaderOK'
  BY <1>1, <1>3 DEF PagingInv, ReaderOK, Listing
<1>5. PagesOK'
  <2>1. \A i \in DOMAIN reader.shown : Listed(i)' = Listed(i) /\ ShownOn(i)' = ShownOn(i) /\ Cursor(i)' = Cursor(i)
    BY <1>1 DEF Listed, ShownOn, Cursor
  <2> QED
    BY <1>1, <2>1 DEF PagingInv, PagesOK, Listing, After, LastShown
<1> QED
  BY <1>2, <1>4, <1>5 DEF PagingInv

\* The seller leaves.
LEMMA LeaveInv == ASSUME PagingInv, Leave PROVE PagingInv'
<1>1. commits' = commits /\ reader' = NoReader
  BY DEF Leave
<1>2. HistoryOK'
  BY <1>1 DEF PagingInv, HistoryOK
<1>3. reader'.asks = None /\ reader'.saw = <<>> /\ reader'.shown = <<>>
  BY <1>1 DEF NoReader
<1> QED
  BY <1>1, <1>2, <1>3 DEF PagingInv, ReaderOK, PagesOK, NoReader, Listing

\* The page that a reply shows.
LEMMA ReplyShows ==
  ASSUME PagingInv, Reply, Listing, NEW m, m = Len(reader.shown) + 1
  PROVE  LET q == reader.asks
             at == reader.saw[IF q.list = "records" THEN 2 ELSE 1]
         IN  /\ at \in DOMAIN commits /\ reader.saw \in [1 .. 2 -> DOMAIN commits]
             /\ Listed(m)' = {Key(row) : row \in ListRows(commits[at], q.list, q.filter)}
             /\ ShownOn(m)' = {Key(row) : row \in Page(ListRows(commits[at], q.list, q.filter), After, q.limit).rows}
             /\ Cursor(m)' = Page(ListRows(commits[at], q.list, q.filter), After, q.limit).next
<1> DEFINE q == reader.asks
           pos == IF q.list = "records" THEN 2 ELSE 1
           at == reader.saw[pos]
           saw == [i \in DOMAIN reader.saw |-> commits[reader.saw[i]]]
           answer == Answer(q, saw, After)
           page == Page(ListRows(commits[at], q.list, q.filter), After, q.limit)
<1>1. Len(reader.saw) = 2
  BY DEF Reply, Statements, Listing
<1>2. reader.saw \in [1 .. 2 -> DOMAIN commits] /\ at \in DOMAIN commits /\ saw[pos] = commits[at]
  BY <1>1 DEF PagingInv, ReaderOK
<1>3. /\ commits' = commits /\ reader'.asks = q
      /\ reader'.shown = Append(reader.shown, [saw |-> reader.saw, answer |-> answer])
  BY DEF Reply, PagingInv, ReaderOK
<1>4. reader'.shown[m].saw = reader.saw /\ reader'.shown[m].answer = answer
  BY <1>3, Growing DEF PagingInv, ReaderOK
<1>5. answer = ListPage(q, saw, After)
  BY DEF Answer, Listing
<1> HIDE DEF answer
<1>6. answer.rows = page.rows /\ answer.next = page.next
  BY <1>2, <1>5 DEF ListPage
<1>7. Listed(m)' = {Key(row) : row \in ListRows(commits[at], q.list, q.filter)}
  BY <1>3, <1>4 DEF Listed
<1>8. ShownOn(m)' = {Key(row) : row \in answer.rows} /\ Cursor(m)' = answer.next
  BY <1>4 DEF ShownOn, Cursor
<1> QED
  BY <1>2, <1>6, <1>7, <1>8

\* A reply shows the next page.
LEMMA ReplyInv == ASSUME PagingInv, Reply PROVE PagingInv'
<1> PICK m : m = Len(reader.shown)
  OBVIOUS
<1> DEFINE n == Width(reader.asks.list)
<1>1. /\ commits' = commits
      /\ reader'.asks = reader.asks /\ reader'.saw = <<>>
      /\ reader' = [asks |-> reader'.asks, saw |-> reader'.saw, shown |-> reader'.shown]
      /\ \E page : page.saw = reader.saw /\ reader'.shown = Append(reader.shown, page)
  BY DEF Reply, PagingInv, ReaderOK
<1>2. HistoryOK'
  BY <1>1 DEF PagingInv, HistoryOK
<1>3. /\ reader'.shown \in Seq(Range(reader'.shown))
      /\ DOMAIN reader.shown = 1 .. m /\ m \in Nat /\ DOMAIN reader'.shown = 1 .. m + 1
      /\ Len(reader'.shown) = m + 1 /\ reader'.shown # <<>>
      /\ reader'.shown[m + 1].saw = reader.saw
      /\ \A i \in 1 .. m : reader'.shown[i] = reader.shown[i]
  BY <1>1, Growing DEF PagingInv, ReaderOK
<1>4. ReaderOK'
  <2>1. ASSUME Listing, NEW i \in 1 .. m + 1 PROVE reader'.shown[i].saw \in [1 .. 2 -> DOMAIN commits]
    <3>1. CASE i = m + 1
      BY <1>3, <2>1, <3>1, ReplyShows
    <3>2. CASE i \in 1 .. m
      BY <1>3, <2>1, <3>2 DEF PagingInv, ReaderOK
    <3> QED
      BY <1>3, <3>1, <3>2
  <2> QED
    BY <1>1, <1>3, <2>1 DEF PagingInv, ReaderOK, Listing
<1>5. ASSUME Listing PROVE PagesOK'
  <2> DEFINE q == reader.asks
             at == reader.saw[IF q.list = "records" THEN 2 ELSE 1]
             rows == ListRows(commits[at], q.list, q.filter)
             page == Page(rows, After, q.limit)
             rest == {r \in rows : After = None \/ Later(After, r)}
  <2>1. q \in Question /\ q.list \in LIST /\ q.limit \in Nat \ {0}
    BY <1>5, BooksAssumption DEF BooksAssumption, PagingInv, ReaderOK, Listing
  <2>2. n \in Nat /\ None \notin KeySet(n)
    BY ListsAssumption DEF ListsAssumption, Width
  <2>3. Listable(rows, n)
    BY <1>5, <2>1, ReplyShows, ListsListable DEF PagingInv, HistoryOK
  <2>4. /\ Listed(m + 1)' = {Key(r) : r \in rows}
        /\ ShownOn(m + 1)' = {Key(r) : r \in page.rows}
        /\ Cursor(m + 1)' = page.next
    BY <1>5, ReplyShows
  <2>5. /\ page.rows \subseteq rest
        /\ page.next = None => page.rows = rest
        /\ page.next # None =>
             /\ \E r \in page.rows : page.next = Key(r)
             /\ \A r \in page.rows : Key(r) = page.next \/ Later(r, page.next)
             /\ \A r \in rest \ page.rows : Later(page.next, r)
    <3> HIDE DEF rows, n
    <3> QED
      BY <2>1, <2>2, <2>3, PageShows
  <2>6. \A i \in 1 .. m : Listed(i)' = Listed(i) /\ ShownOn(i)' = ShownOn(i) /\ Cursor(i)' = Cursor(i)
    BY <1>1, <1>3 DEF Listed, ShownOn, Cursor
  <2>7. /\ m = 0 => After = None
        /\ m # 0 => After = Cursor(m) /\ After # None
        /\ After' = Cursor(m + 1)'
    BY <1>3, <1>5 DEF Reply, Done, After, LastShown, Cursor, Listing
  <2>8. \A i \in 1 .. m : ShownOn(i) \subseteq KeySet(n) /\ Cursor(i) # None /\ Cursor(i) \in ShownOn(i)
    BY <1>3, <1>5, <2>7 DEF PagingInv, PagesOK
  <2> HIDE DEF page, rows, n
  <2>9. \A r \in rest : Key(r) \in KeySet(n) /\ (m # 0 => Later(Cursor(m), Key(r)))
    BY <2>3, <2>7, KeysOrder DEF Listable
  <2>10. ASSUME NEW i \in 1 .. m, NEW k \in ShownOn(m + 1)' PROVE Later(Cursor(i), k)
    <3>1. PICK r \in page.rows : k = Key(r)
      BY <2>4
    <3>2. k \in KeySet(n) /\ Later(Cursor(m), k) /\ m \in 1 .. m
      BY <1>3, <2>5, <2>9, <3>1
    <3>3. CASE i = m
      BY <3>2, <3>3
    <3>4. CASE i < m
      <4>1. Later(Cursor(i), Cursor(m))
        BY <1>3, <1>5, <2>8, <3>2, <3>4 DEF PagingInv, PagesOK
      <4> QED
        BY <2>2, <2>8, <3>2, <4>1, LaterTransitive
    <3> QED
      BY <1>3, <3>3, <3>4
  <2>11. ASSUME NEW i \in 1 .. m + 1
         PROVE  /\ ShownOn(i)' \subseteq KeySet(n)
                /\ Cursor(i)' = None => i = m + 1
                /\ Cursor(i)' # None =>
                     /\ Cursor(i)' \in ShownOn(i)'
                     /\ \A k \in ShownOn(i)' : k = Cursor(i)' \/ Later(k, Cursor(i)')
                     /\ \A j \in 1 .. m + 1 : i < j => \A k \in ShownOn(j)' : Later(Cursor(i)', k)
    <3>1. CASE i = m + 1
      <4>1. ShownOn(m + 1)' \subseteq KeySet(n)
        BY <2>4, <2>5, <2>9
      <4>2. ASSUME Cursor(m + 1)' # None
            PROVE  /\ Cursor(m + 1)' \in ShownOn(m + 1)'
                   /\ \A k \in ShownOn(m + 1)' : k = Cursor(m + 1)' \/ Later(k, Cursor(m + 1)')
        BY <2>4, <2>5, <4>2, KeysOrder
      <4> QED
        BY <1>3, <3>1, <4>1, <4>2
    <3>2. CASE i \in 1 .. m
      <4>1. ASSUME NEW j \in 1 .. m + 1, i < j, NEW k \in ShownOn(j)' PROVE Later(Cursor(i), k)
        <5>1. CASE j = m + 1
          BY <2>10, <3>2, <4>1, <5>1
        <5>2. CASE j \in 1 .. m
          BY <1>3, <1>5, <2>6, <2>8, <3>2, <4>1, <5>2 DEF PagingInv, PagesOK
        <5> QED
          BY <1>3, <5>1, <5>2
      <4>2. \A k \in ShownOn(i) : k = Cursor(i) \/ Later(k, Cursor(i))
        BY <1>3, <1>5, <2>8, <3>2 DEF PagingInv, PagesOK
      <4> QED
        BY <2>6, <2>8, <3>2, <4>1, <4>2
    <3> QED
      BY <1>3, <3>1, <3>2
  <2>12. ASSUME NEW k \in Listed(1)', \A i \in 1 .. m + 1 : k \in Listed(i)'
         PROVE  (\E i \in 1 .. m + 1 : k \in ShownOn(i)') \/ (After' # None /\ Later(After', k))
    <3>1. PICK r \in rows : k = Key(r)
      BY <1>3, <2>4, <2>12
    <3>2. CASE r \in rest
      <4>1. CASE r \in page.rows
        BY <1>3, <2>4, <3>1, <4>1
      <4>2. CASE r \notin page.rows
        <5>1. page.next # None /\ Later(page.next, r)
          BY <2>5, <3>2, <4>2
        <5> QED
          BY <2>4, <2>7, <3>1, <5>1, KeysOrder
      <4> QED
        BY <4>1, <4>2
    <3>3. CASE r \notin rest
      <4>1. m # 0 /\ After # None /\ ~Later(After, k)
        BY <2>7, <3>1, <3>3, KeysOrder
      <4>2. k \in Listed(1) /\ \A i \in 1 .. m : k \in Listed(i)
        BY <1>3, <2>6, <2>12, <4>1
      <4>3. \E i \in 1 .. m : k \in ShownOn(i)
        BY <1>3, <1>5, <4>1, <4>2 DEF PagingInv, PagesOK
      <4> QED
        BY <1>3, <2>6, <4>3
    <3> QED
      BY <3>2, <3>3
  <2> QED
    BY <1>1, <1>3, <2>11, <2>12 DEF PagesOK, n
<1>6. PagesOK'
  BY <1>1, <1>5 DEF PagesOK, Listing
<1> QED
  BY <1>2, <1>4, <1>6 DEF PagingInv

\* Whatever step is taken.
LEMMA PagingStep == PagingInv /\ [Next]_vars => PagingInv'
<1> SUFFICES ASSUME PagingInv, [Next]_vars PROVE PagingInv'
  OBVIOUS
<1>1. CASE Commit
  BY <1>1, CommitInv
<1>2. ASSUME NEW q \in Question, Ask(q) PROVE PagingInv'
  BY <1>2, AskInv
<1>3. CASE Read
  BY <1>3, ReadInv
<1>4. CASE Reply
  BY <1>4, ReplyInv
<1>5. CASE Leave
  BY <1>5, LeaveInv
<1>6. CASE UNCHANGED vars
  BY <1>6 DEF vars, PagingInv, HistoryOK, ReaderOK, PagesOK, Listing, Listed, ShownOn, Cursor, After, LastShown
<1> QED
  BY <1>1, <1>2, <1>3, <1>4, <1>5, <1>6 DEF Next

\* The books are in order at the start, and nobody reads.
LEMMA PagingInit == Init => PagingInv
<1> SUFFICES ASSUME Init PROVE PagingInv
  OBVIOUS
<1>1. commits = <<Start>> /\ reader = NoReader
  BY DEF Init
<1>2. TablesOK(Start)
  BY BooksAssumption DEF BooksAssumption
<1>3. HistoryOK
  BY <1>1, <1>2 DEF HistoryOK, Range
<1>4. reader.asks = None /\ reader.saw = <<>> /\ reader.shown = <<>>
  BY <1>1 DEF NoReader
<1> QED
  BY <1>1, <1>3, <1>4 DEF PagingInv, ReaderOK, PagesOK, NoReader, Listing

\* Why the pages are exact: no later page goes back before a cursor, and none leaves a row
\* between two cursors out.
LEMMA PagesAreExact == PagingInv => PagingExact
<1> SUFFICES ASSUME PagingInv, Listing PROVE PagingExact
  BY DEF PagingExact
<1> DEFINE n == Width(reader.asks.list)
           pages == DOMAIN reader.shown
<1>1. pages = 1 .. Len(reader.shown) /\ Len(reader.shown) \in Nat
  BY Growing DEF PagingInv, ReaderOK
<1>2. n \in Nat
  BY DEF Width
<1>3. ASSUME NEW i \in pages, NEW j \in pages, i < j, NEW k \in ShownOn(i), k \in ShownOn(j)
      PROVE  FALSE
  <2>1. Cursor(i) # None /\ Cursor(i) \in ShownOn(i)
    BY <1>1, <1>3 DEF PagingInv, PagesOK
  <2>2. Later(Cursor(i), k) /\ (k = Cursor(i) \/ Later(k, Cursor(i)))
    BY <1>3, <2>1 DEF PagingInv, PagesOK
  <2>3. k \in KeySet(n) /\ Cursor(i) \in KeySet(n)
    BY <2>1 DEF PagingInv, PagesOK
  <2> QED
    BY <1>2, <2>2, <2>3, LaterStrict
<1>4. ASSUME NEW i \in pages, NEW j \in pages, i # j PROVE ShownOn(i) \cap ShownOn(j) = {}
  BY <1>1, <1>3, <1>4
<1>5. ASSUME Done, NEW k \in Listed(1), \A i \in pages : k \in Listed(i)
      PROVE  \E i \in pages : k \in ShownOn(i)
  <2>1. pages # {} /\ After = None
    BY <1>1, <1>5 DEF Done, Listing, PagingInv, ReaderOK
  <2> QED
    BY <1>5, <2>1 DEF PagingInv, PagesOK
<1> QED
  BY <1>4, <1>5 DEF PagingExact

\* PagingExact of Books: whatever is committed between two pages of a list, no row is on two
\* of them, and a row that was in the list all along is on one once the seller has the last.
THEOREM PagingExactHolds == Spec => []PagingExact
<1>1. Spec => []PagingInv
  BY PagingInit, PagingStep, PTL DEF Spec
<1> QED
  BY <1>1, PagesAreExact, PTL

-------------------------------------------------------------------------------
(* Sums of the model, which are folds of the community modules, are the sums of Sums. *)

\* The sum of a function.
LEMMA FunctionIsSum ==
  ASSUME NEW q, IsFiniteSet(DOMAIN q)
  PROVE  SumFunction(q) = SumOf(q, DOMAIN q)
<1> DEFINE S == DOMAIN q
           P(h) == h = [s \in SUBSET S |->
                    IF s = {} THEN 0
                    ELSE q[CHOOSE x \in s : TRUE] + h[s \ {CHOOSE x \in s : TRUE}]]
<1>1. ASSUME NEW h PROVE P(h) <=> Adds(q, S, h)
  BY DEF Adds, OneOf
<1>2. SumFunction(q) = (CHOOSE h : P(h))[S]
  BY DEF P, SumFunction, SumFunctionOnSet, FoldFunctionOnSet, MapThenFoldSet
<1> HIDE DEF P
<1>3. P(TheSums(q, S))
  BY <1>1, TheOnlySums
<1>4. Adds(q, S, CHOOSE h : P(h))
  BY <1>1, <1>3
<1> QED
  BY <1>2, <1>4, TheOnlySums DEF SumOf

\* The sum of entries.
LEMMA AmountIsSum ==
  ASSUME NEW S, IsFiniteSet(S), NEW q, \A e \in S : q[e] = e.amount
  PROVE  Amount(S) = SumOf(q, S)
<1> DEFINE P(h) == h = [s \in SUBSET S |->
                    IF s = {} THEN 0
                    ELSE (CHOOSE x \in s : TRUE).amount + h[s \ {CHOOSE x \in s : TRUE}]]
<1>1. ASSUME NEW h PROVE P(h) <=> Adds(q, S, h)
  <2>1. \A s \in SUBSET S : s # {} => q[OneOf(s)] = OneOf(s).amount
    BY OneIn
  <2> QED
    BY <2>1 DEF Adds, OneOf
<1>2. Amount(S) = (CHOOSE h : P(h))[S]
  BY DEF P, Amount, MapThenSumSet, MapThenFoldSet
<1> HIDE DEF P
<1>3. P(TheSums(q, S))
  BY <1>1, TheOnlySums
<1>4. Adds(q, S, CHOOSE h : P(h))
  BY <1>1, <1>3
<1> QED
  BY <1>2, <1>4, TheOnlySums DEF SumOf

-------------------------------------------------------------------------------
(* The pence of a figure. *)

\* Division with what is left over.
LEMMA Division ==
  ASSUME NEW a \in Int, NEW d \in Nat \ {0}
  PROVE  a \div d \in Int /\ a % d \in Int /\ a = d * (a \div d) + (a % d) /\ 0 <= a % d /\ a % d < d
  OBVIOUS

\* A factor above 0 keeps numbers in order.
LEMMA Factor ==
  ASSUME NEW d \in Nat \ {0}, NEW x \in Int, NEW y \in Int, d * x <= d * y
  PROVE  x <= y
  OBVIOUS

\* Every part of the largest remainder is the whole pence of its share, or one more.
LEMMA PartIsShare ==
  ASSUME NEW total \in Int, NEW n \in Nat \ {0}, NEW weights \in [1 .. n -> Nat],
         NEW all \in Nat \ {0}, all = SumFunction(weights), NEW i \in 1 .. n
  PROVE  Allocate(total, weights)[i] \in
           {(total * weights[i]) \div all, (total * weights[i]) \div all + 1}
<1>1. weights # <<>> /\ DOMAIN weights = 1 .. n
  OBVIOUS
<1> QED
  BY <1>1 DEF Allocate

\* allocate() of money.py, the largest remainder: whatever the total and the weights are, also a
\* negative total or weights that are all 0, the parts add up to the total.
THEOREM AllocateIsExact ==
  ASSUME NEW total \in Int, NEW n \in Nat \ {0}, NEW weights \in [1 .. n -> Nat]
  PROVE  /\ Allocate(total, weights) \in [1 .. n -> Int]
         /\ SumFunction(Allocate(total, weights)) = total
<1> DEFINE S == 1 .. n
           all == SumFunction(weights)
           base == [i \in S |-> (total * weights[i]) \div all]
           rest == [i \in S |-> (total * weights[i]) % all]
           left == total - SumFunction(base)
           place(i) == Cardinality({j \in S : rest[j] > rest[i] \/ (rest[j] = rest[i] /\ j < i)})
           parts == Allocate(total, weights)
<1>1. DOMAIN weights = S /\ weights # <<>> /\ IsFiniteSet(S) /\ Cardinality(S) = n
  BY FS_Interval
<1>2. parts = IF all = 0 THEN [i \in S |-> IF i = 1 THEN total ELSE 0]
              ELSE [i \in S |-> base[i] + IF place(i) < left THEN 1 ELSE 0]
  BY <1>1 DEF Allocate
<1>3. all = SumOf(weights, S) /\ all \in Int /\ 0 <= all
  <2>1. all = SumOf(weights, S)
    BY <1>1, FunctionIsSum
  <2>2. SumOf(weights, S) \in Int
    BY <1>1, SumType
  <2> DEFINE zero == [i \in S |-> 0]
  <2>3. SumOf(zero, S) = 0 * Cardinality(S)
    <3>1. \A i \in S : zero[i] = 0
      OBVIOUS
    <3> HIDE DEF zero, S
    <3> QED
      BY <1>1, <3>1, SumConstant
  <2>4. SumOf(zero, S) <= SumOf(weights, S)
    <3>1. \A i \in S : zero[i] \in Int /\ weights[i] \in Int /\ zero[i] <= weights[i]
      OBVIOUS
    <3> HIDE DEF zero, S
    <3> QED
      BY <1>1, <3>1, SumAtMost
  <2> HIDE DEF zero, all
  <2> QED
    BY <1>1, <2>1, <2>2, <2>3, <2>4
<1> HIDE DEF parts
<1>4. CASE all = 0
  <2> DEFINE q == [i \in S |-> IF i = 1 THEN total ELSE 0]
  <2>1. parts = q
    BY <1>2, <1>4
  <2>2. q \in [S -> Int] /\ DOMAIN q = S /\ \A i \in S : q[i] \in Int
    OBVIOUS
  <2>3. {1} \subseteq S /\ (\A i \in S \ {1} : q[i] = 0) /\ q[1] = total
    OBVIOUS
  <2> HIDE DEF q, S
  <2>4. SumFunction(q) = SumOf(q, {1})
    BY <1>1, <2>2, <2>3, FunctionIsSum, SumZeros
  <2>5. SumOf(q, {1}) = total * 1
    <3>1. IsFiniteSet({1}) /\ Cardinality({1}) = 1 /\ \A x \in {1} : q[x] = total
      BY <2>3, FS_Singleton
    <3>2. SumOf(q, {1}) = total * Cardinality({1})
      BY <3>1, SumConstant
    <3> QED
      BY <3>1, <3>2
  <2> QED
    BY <2>1, <2>2, <2>4, <2>5 DEF S, parts
<1>5. CASE all # 0
  <2>1. all \in Nat \ {0}
    BY <1>3, <1>5
  <2> HIDE DEF all
  <2>2. ASSUME NEW i \in S
        PROVE  /\ base[i] \in Int /\ rest[i] \in Int /\ 0 <= rest[i] /\ rest[i] <= all
               /\ total * weights[i] \in Int /\ total * weights[i] = all * base[i] + rest[i]
    <3> DEFINE a == total * weights[i]
    <3>1. a \in Int /\ base[i] = a \div all /\ rest[i] = a % all
      OBVIOUS
    <3> HIDE DEF a, base, rest
    <3>2. a = all * (a \div all) + (a % all) /\ a \div all \in Int /\ a % all \in Int /\ 0 <= a % all /\ a % all < all
      BY <2>1, <3>1, Division
    <3>3. a = all * base[i] + rest[i] /\ base[i] \in Int /\ rest[i] \in Int /\ 0 <= rest[i] /\ rest[i] <= all
      BY <2>1, <3>1, <3>2
    <3> QED
      BY <3>1, <3>3 DEF a
  <2>a. base = [i \in S |-> base[i]] /\ DOMAIN base = S
    OBVIOUS
  <2> DEFINE share == [i \in S |-> total * weights[i]]
             whole == [i \in S |-> all * base[i]]
             bound == [i \in S |-> all]
             zero == [i \in S |-> 0]
             extra == [i \in S |-> IF place(i) < left THEN 1 ELSE 0]
  <2>b. /\ \A i \in S : /\ weights[i] \in Int /\ share[i] = total * weights[i] /\ whole[i] = all * base[i]
                        /\ bound[i] = all /\ zero[i] = 0
        /\ extra = [i \in S |-> IF place(i) < left THEN 1 ELSE 0]
        /\ rest = [i \in S |-> rest[i]]
    OBVIOUS
  <2> HIDE DEF base, rest, share, whole, bound, zero, extra, place, left, S
  <2>3. SumOf(base, S) \in Int /\ SumOf(rest, S) \in Int
    BY <1>1, <2>2, SumType
  <2>4. total * all = all * SumOf(base, S) + SumOf(rest, S)
    <3>1. SumOf(share, S) = total * SumOf(weights, S)
      <4>1. \A x \in S : weights[x] \in Int /\ share[x] = total * weights[x]
        BY <2>b
      <4> QED
        BY <1>1, <4>1, SumTimes
    <3>2. SumOf(whole, S) = all * SumOf(base, S)
      <4>1. all \in Int /\ \A x \in S : base[x] \in Int /\ whole[x] = all * base[x]
        BY <2>1, <2>2, <2>b
      <4> QED
        BY <1>1, <4>1, SumTimes
    <3>3. SumOf(share, S) = SumOf(whole, S) + SumOf(rest, S)
      <4>1. \A i \in S : whole[i] \in Int /\ rest[i] \in Int /\ share[i] = whole[i] + rest[i]
        BY <2>1, <2>2, <2>b
      <4> QED
        BY <1>1, <4>1, SumPlus
    <3> QED
      BY <1>3, <3>1, <3>2, <3>3
  <2>5. 0 <= SumOf(rest, S) /\ SumOf(rest, S) <= all * n
    <3>1. SumOf(zero, S) = 0 * n /\ SumOf(bound, S) = all * n
      <4>1. all \in Int /\ 0 \in Int /\ (\A x \in S : zero[x] = 0) /\ (\A x \in S : bound[x] = all)
        BY <2>1, <2>b
      <4>2. SumOf(zero, S) = 0 * Cardinality(S)
        BY <1>1, <4>1, SumConstant
      <4>3. SumOf(bound, S) = all * Cardinality(S)
        BY <1>1, <4>1, SumConstant
      <4> QED
        BY <1>1, <4>2, <4>3
    <3>2. SumOf(zero, S) <= SumOf(rest, S) /\ SumOf(rest, S) <= SumOf(bound, S)
      <4>1. /\ \A i \in S : zero[i] \in Int /\ rest[i] \in Int /\ zero[i] <= rest[i]
            /\ \A i \in S : rest[i] \in Int /\ bound[i] \in Int /\ rest[i] <= bound[i]
        BY <2>1, <2>2, <2>b
      <4> QED
        BY <1>1, <4>1, SumAtMost
    <3> QED
      BY <3>1, <3>2
  <2>6. left = total - SumOf(base, S) /\ left \in Int
    BY <1>1, <2>a, <2>3, FunctionIsSum DEF left
  <2>7. left \in Nat /\ left <= n
    <3>1. all * left = SumOf(rest, S)
      BY <2>1, <2>3, <2>4, <2>6
    <3>2. all * 0 <= all * left /\ all * left <= all * n
      BY <2>1, <2>5, <3>1
    <3>3. 0 <= left /\ left <= n
      BY <2>1, <2>6, <3>2, Factor
    <3> QED
      BY <2>6, <3>3
  <2> DEFINE R == {p \in S \X S : rest[p[1]] > rest[p[2]] \/ (rest[p[1]] = rest[p[2]] /\ p[1] < p[2])}
             rank == [i \in S |-> Cardinality({j \in S : <<j, i>> \in R})]
  <2>8. \A i, j \in S : <<j, i>> \in R <=> rest[j] > rest[i] \/ (rest[j] = rest[i] /\ j < i)
    OBVIOUS
  <2>c. rank = RankIn(S, R) /\ rank = [i \in S |-> Cardinality({j \in S : <<j, i>> \in R})]
    BY DEF RankIn
  <2> HIDE DEF R, rank
  <2>9. \A i \in S : rank[i] = place(i)
    <3>1. ASSUME NEW i \in S
          PROVE  {j \in S : <<j, i>> \in R}
                   = {j \in S : rest[j] > rest[i] \/ (rest[j] = rest[i] /\ j < i)}
      BY <2>8
    <3> QED
      BY <2>c, <3>1 DEF place
  <2>10. \A i \in S : i \in Int
    BY DEF S
  <2>11. TotalOrder(S, R)
    <3>a. \A i \in S : rest[i] \in Int /\ i \in Int
      BY <2>2, <2>10
    <3>1. ASSUME NEW i \in S, NEW j \in S PROVE i = j \/ <<i, j>> \in R \/ <<j, i>> \in R
      BY <2>8, <3>a
    <3>2. ASSUME NEW i \in S, NEW j \in S, <<i, j>> \in R PROVE i # j /\ <<j, i>> \notin R
      BY <2>8, <3>a, <3>2
    <3>3. ASSUME NEW i \in S, NEW j \in S, NEW k \in S, <<i, j>> \in R, <<j, k>> \in R PROVE <<i, k>> \in R
      <4>1. rest[i] > rest[j] \/ (rest[i] = rest[j] /\ i < j)
        BY <2>8, <3>3
      <4>2. rest[j] > rest[k] \/ (rest[j] = rest[k] /\ j < k)
        BY <2>8, <3>3
      <4>3. /\ rest[i] \in Int /\ rest[j] \in Int /\ rest[k] \in Int
            /\ i \in Int /\ j \in Int /\ k \in Int
        BY <3>a
      <4>4. rest[i] > rest[k] \/ (rest[i] = rest[k] /\ i < k)
        BY <4>1, <4>2, <4>3
      <4> QED
        BY <2>8, <4>4
    <3> QED
      BY <1>1, <3>1, <3>2, <3>3 DEF TotalOrder
  <2> DEFINE first == {i \in S : rank[i] < left}
  <2>12. Cardinality(first) = left
    <3>1. first = FirstOf(S, R, left)
      BY <2>c DEF FirstOf
    <3>2. left \in Nat /\ left <= Cardinality(S)
      BY <1>1, <2>7
    <3> HIDE DEF first
    <3>3. Cardinality(FirstOf(S, R, left)) = left
      BY <2>11, <3>2, FirstRanks
    <3> QED
      BY <3>1, <3>3
  <2>13. SumOf(extra, S) = Cardinality(first)
    <3>1. first \subseteq S /\ \A i \in S : extra[i] = IF i \in first THEN 1 ELSE 0
      BY <2>b, <2>9
    <3> HIDE DEF first
    <3> QED
      BY <1>1, <3>1, SumCounts
  <2>14. parts = [i \in S |-> base[i] + extra[i]]
    BY <1>2, <1>5, <2>b
  <2>15. parts \in [S -> Int] /\ DOMAIN parts = S /\ \A i \in S : extra[i] \in Int /\ parts[i] = base[i] + extra[i]
    BY <2>2, <2>14, <2>b
  <2>16. SumOf(parts, S) = SumOf(base, S) + SumOf(extra, S)
    BY <1>1, <2>2, <2>15, SumPlus
  <2>17. SumFunction(parts) = SumOf(parts, S)
    BY <1>1, <2>15, FunctionIsSum
  <2> HIDE DEF first
  <2>18. SumFunction(parts) = total
    BY <2>3, <2>6, <2>12, <2>13, <2>16, <2>17
  <2> QED
    BY <2>15, <2>18 DEF S, parts
<1> QED
  BY <1>4, <1>5

\* Figures come as tenths of a penny and become whole pence.
LEMMA Pence == ASSUME NEW tenths \in Int PROVE FromDecimalString(tenths) \in Int
BY DEF FromDecimalString, RoundHalfUp

\* What is known of the lines of a transaction.
LEMMA LinesOfTransaction ==
  ASSUME NEW t \in DOMAIN TX
  PROVE  /\ DOMAIN TX[t].lines = 1 .. Len(TX[t].lines) /\ Len(TX[t].lines) \in Nat \ {0}
         /\ \A i, j \in DOMAIN TX[t].lines : TX[t].lines[i] = TX[t].lines[j] => i = j
<1>1. TX[t].lines \in Seq(DOMAIN OrderLine) /\ TX[t].lines # <<>> /\ IsInjective(TX[t].lines)
  BY PostingAssumption DEF PostingAssumption
<1> QED
  BY <1>1 DEF IsInjective

\* A figure in equal parts, one for each line of the transaction.
PartsOf(t, total) == Allocate(total, [i \in DOMAIN TX[t].lines |-> 1])

\* The parts add up to the figure, and no two are more than a penny apart.
LEMMA PartsAreExact ==
  ASSUME NEW t \in DOMAIN TX, NEW total \in Int
  PROVE  /\ PartsOf(t, total) \in [DOMAIN TX[t].lines -> Int]
         /\ SumFunction(PartsOf(t, total)) = total
         /\ \A i, j \in DOMAIN TX[t].lines : PartsOf(t, total)[i] - PartsOf(t, total)[j] <= 1
<1> DEFINE n == Len(TX[t].lines)
           S == DOMAIN TX[t].lines
           weights == [i \in S |-> 1]
           parts == PartsOf(t, total)
           all == SumFunction(weights)
<1>1. S = 1 .. n /\ n \in Nat \ {0}
  BY LinesOfTransaction
<1>2. weights \in [1 .. n -> Nat] /\ DOMAIN weights = S /\ \A i \in S : weights[i] = 1
  BY <1>1
<1>3. parts = Allocate(total, weights)
  BY DEF PartsOf
<1> HIDE DEF n, S, weights, parts
<1>4. parts \in [1 .. n -> Int] /\ SumFunction(parts) = total
  BY <1>1, <1>2, <1>3, AllocateIsExact
<1>5. all = n
  <2>1. IsFiniteSet(S) /\ Cardinality(S) = n
    BY <1>1, FS_Interval
  <2>2. SumOf(weights, S) = 1 * Cardinality(S)
    <3>1. 1 \in Int /\ IsFiniteSet(S) /\ \A x \in S : weights[x] = 1
      BY <1>2, <2>1
    <3> QED
      BY <3>1, SumConstant
  <2>3. IsFiniteSet(DOMAIN weights) /\ DOMAIN weights = S
    BY <1>2, <2>1
  <2>4. all = SumOf(weights, S)
    BY <2>3, FunctionIsSum
  <2> HIDE DEF all
  <2> QED
    BY <1>1, <2>1, <2>2, <2>4
<1>6. ASSUME NEW i \in S PROVE parts[i] \in {total \div n, total \div n + 1}
  <2>1. all \in Nat \ {0} /\ i \in 1 .. n
    BY <1>1, <1>5
  <2>2. parts[i] \in {(total * weights[i]) \div all, (total * weights[i]) \div all + 1}
    BY <1>1, <1>2, <1>3, <2>1, PartIsShare
  <2>3. total * weights[i] = total
    BY <1>2
  <2> QED
    BY <1>5, <2>2, <2>3
<1>7. ASSUME NEW i \in S, NEW j \in S PROVE parts[i] - parts[j] <= 1
  <2>1. total \div n \in Int
    BY <1>1, Division
  <2> DEFINE share == total \div n
  <2>2. parts[i] \in {share, share + 1} /\ parts[j] \in {share, share + 1} /\ share \in Int
    BY <1>6, <2>1
  <2> HIDE DEF share
  <2> QED
    BY <2>2
<1> QED
  BY <1>1, <1>4, <1>7 DEF S, parts

\* What spreading a figure leaves: for each part that is not 0 an entry of its own.
LEMMA SpreadParts ==
  ASSUME NEW t \in DOMAIN TX, NEW category, NEW fee, NEW total \in Int, NEW f \in Int,
         NEW entries, entries = Spread(t, category, fee, total, f)
  PROVE  /\ \A e \in entries : \E i \in DOMAIN TX[t].lines :
              /\ e.id = <<t, f, i>> /\ e.line = TX[t].lines[i]
              /\ e.amount = PartsOf(t, total)[i] /\ e.amount # 0
         /\ \A i \in DOMAIN TX[t].lines : PartsOf(t, total)[i] # 0 => \E e \in entries : e.id = <<t, f, i>>
         /\ \A e, g \in entries : e.id = g.id => e = g
<1> DEFINE lines == TX[t].lines
           parts == PartsOf(t, total)
           entry == [i \in DOMAIN lines |->
                      [Entry(<<t, f, i>>, TX[t].order, category, fee, parts[i], ORDER[TX[t].order].day)
                         EXCEPT !.line = lines[i], !.sku = OrderLine[lines[i]].sku]]
<1>1. entries = {e \in {entry[i] : i \in DOMAIN lines} : e.amount # 0}
  BY DEF Spread, PartsOf
<1>2. \A i \in DOMAIN lines : entry[i].id = <<t, f, i>> /\ entry[i].line = lines[i] /\ entry[i].amount = parts[i]
  BY DEF Entry
<1> HIDE DEF entry, parts, lines
<1>3. ASSUME NEW e \in entries
      PROVE  \E i \in DOMAIN lines : e = entry[i] /\ e.amount # 0
  BY <1>1
<1>4. \A i, j \in DOMAIN lines : entry[i].id = entry[j].id => i = j
  BY <1>2
<1>5. \A e, g \in entries : e.id = g.id => e = g
  BY <1>3, <1>4
<1>6. \A e \in entries : \E i \in DOMAIN lines :
        e.id = <<t, f, i>> /\ e.line = lines[i] /\ e.amount = parts[i] /\ e.amount # 0
  BY <1>2, <1>3
<1>7. ASSUME NEW i \in DOMAIN lines, parts[i] # 0 PROVE \E e \in entries : e.id = <<t, f, i>>
  BY <1>1, <1>2, <1>7
<1> QED
  BY <1>5, <1>6, <1>7 DEF lines, parts

\* The pence of a figure.
FigureOf(t, f) == FromDecimalString(TX[t].figures[f].tenths)

\* The entries of a transaction: the parts of each figure, and of the cost of goods.
LEMMA EntriesParts ==
  ASSUME NEW t \in DOMAIN TX
  PROVE  /\ \A e \in EntriesOf(t) : e.id[1] = t
         /\ \A e, g \in EntriesOf(t) : e.id = g.id => e = g
         /\ \A f \in DOMAIN TX[t].figures :
              /\ FigureOf(t, f) \in Int
              /\ \A e \in EntriesOf(t) : e.id[2] = f => \E i \in DOMAIN TX[t].lines :
                   /\ e.id = <<t, f, i>> /\ e.line = TX[t].lines[i]
                   /\ e.amount = PartsOf(t, FigureOf(t, f))[i] /\ e.amount # 0
              /\ \A i \in DOMAIN TX[t].lines : PartsOf(t, FigureOf(t, f))[i] # 0 =>
                   \E e \in EntriesOf(t) : e.id = <<t, f, i>>
<1> DEFINE lines == TX[t].lines
           figures == TX[t].figures
           category(f) == CategoryOf(figures[f].field)
           fee(f) == IF category(f) \in REVENUE THEN None ELSE figures[f].field
           spread == [f \in DOMAIN figures |-> Spread(t, category(f), fee(f), FigureOf(t, f), f)]
           total == -TX[t].cost * Len(lines)
           cost == Spread(t, "cost_of_goods_sold", None, total, 0)
<1>1. EntriesOf(t) = (UNION {spread[f] : f \in DOMAIN figures}) \cup cost
  <2>1. {spread[f] : f \in DOMAIN figures}
          = {Spread(t, category(f), fee(f), FromDecimalString(figures[f].tenths), f) : f \in DOMAIN figures}
    BY DEF FigureOf
  <2> QED
    BY <2>1 DEF EntriesOf
<1>2. DOMAIN figures = 1 .. Len(figures) /\ Len(figures) \in Nat /\ \A f \in DOMAIN figures : figures[f].tenths \in Int
  <2> DEFINE F == [field : STRING, tenths : Int]
  <2>1. figures \in Seq(F)
    BY PostingAssumption DEF PostingAssumption
  <2>2. \A x \in F : x.tenths \in Int
    OBVIOUS
  <2> HIDE DEF figures, F
  <2>3. DOMAIN figures = 1 .. Len(figures) /\ Len(figures) \in Nat /\ \A f \in DOMAIN figures : figures[f] \in F
    BY <2>1
  <2> QED
    BY <2>2, <2>3
<1>3. \A f \in DOMAIN figures : f \in Int /\ f # 0 /\ FigureOf(t, f) \in Int
  <2>1. ASSUME NEW f \in DOMAIN figures PROVE f \in Int /\ f # 0 /\ FigureOf(t, f) \in Int
    <3>1. FigureOf(t, f) = FromDecimalString(figures[f].tenths)
      BY DEF FigureOf
    <3>2. figures[f].tenths \in Int /\ f \in 1 .. Len(figures) /\ Len(figures) \in Nat
      BY <1>2
    <3> HIDE DEF figures
    <3>3. FromDecimalString(figures[f].tenths) \in Int
      BY <3>2, Pence
    <3> QED
      BY <3>1, <3>2, <3>3
  <2> QED
    BY <2>1
<1>4. total \in Int
  <2>1. TX[t].cost \in Int
    BY PostingAssumption DEF PostingAssumption
  <2>2. Len(lines) \in Int
    BY LinesOfTransaction
  <2> HIDE DEF lines
  <2>3. \A c, k \in Int : -c * k \in Int
    OBVIOUS
  <2> QED
    BY <2>1, <2>2, <2>3
<1>5. ASSUME NEW f \in DOMAIN figures
      PROVE  /\ \A e \in spread[f] : \E i \in DOMAIN lines :
                  /\ e.id = <<t, f, i>> /\ e.line = lines[i]
                  /\ e.amount = PartsOf(t, FigureOf(t, f))[i] /\ e.amount # 0
             /\ \A i \in DOMAIN lines : PartsOf(t, FigureOf(t, f))[i] # 0 => \E e \in spread[f] : e.id = <<t, f, i>>
             /\ \A e, g \in spread[f] : e.id = g.id => e = g
  <2>1. spread[f] = Spread(t, category(f), fee(f), FigureOf(t, f), f)
    OBVIOUS
  <2> HIDE DEF spread, category, fee, lines, figures
  <2> QED
    BY <1>3, <2>1, SpreadParts DEF lines
<1>6. /\ \A e \in cost : \E i \in DOMAIN lines : e.id = <<t, 0, i>>
      /\ \A e, g \in cost : e.id = g.id => e = g
  <2>1. 0 \in Int /\ cost = Spread(t, "cost_of_goods_sold", None, total, 0)
    OBVIOUS
  <2> HIDE DEF cost, total
  <2> QED
    BY <1>4, <2>1, SpreadParts
<1> HIDE DEF spread, cost, lines, figures
<1>7. \A e \in EntriesOf(t) : e \in cost \/ \E f \in DOMAIN figures : e \in spread[f]
  BY <1>1
<1>8. \A f \in DOMAIN figures : \A e \in spread[f] : e.id[1] = t /\ e.id[2] = f
  BY <1>5
<1>9. \A e \in cost : e.id[1] = t /\ e.id[2] = 0
  BY <1>6
<1>10. \A e \in EntriesOf(t) : e.id[1] = t
  BY <1>7, <1>8, <1>9
<1>11. \A f \in DOMAIN figures : \A e \in EntriesOf(t) : e.id[2] = f => e \in spread[f]
  BY <1>3, <1>7, <1>8, <1>9
<1>12. \A e \in EntriesOf(t) : e.id[2] = 0 => e \in cost
  BY <1>3, <1>7, <1>8
<1>13. ASSUME NEW e \in EntriesOf(t), NEW g \in EntriesOf(t), e.id = g.id PROVE e = g
  <2>1. CASE e \in cost
    BY <1>6, <1>9, <1>12, <1>13, <2>1
  <2>2. ASSUME NEW f \in DOMAIN figures, e \in spread[f] PROVE e = g
    BY <1>5, <1>8, <1>11, <1>13, <2>2
  <2> QED
    BY <1>7, <2>1, <2>2
<1>14. \A f \in DOMAIN figures : spread[f] \subseteq EntriesOf(t)
  BY <1>1
<1>15. ASSUME NEW f \in DOMAIN figures
       PROVE  /\ FigureOf(t, f) \in Int
              /\ \A e \in EntriesOf(t) : e.id[2] = f => \E i \in DOMAIN lines :
                   /\ e.id = <<t, f, i>> /\ e.line = lines[i]
                   /\ e.amount = PartsOf(t, FigureOf(t, f))[i] /\ e.amount # 0
              /\ \A i \in DOMAIN lines : PartsOf(t, FigureOf(t, f))[i] # 0 =>
                   \E e \in EntriesOf(t) : e.id = <<t, f, i>>
  BY <1>3, <1>5, <1>11, <1>14
<1> QED
  BY <1>10, <1>13, <1>15 DEF figures, lines

-------------------------------------------------------------------------------
(* What is posted stays as it was posted. *)

\* What is neither posted nor settled leaves the entries alone.
LEMMA PostedSame ==
  ASSUME NEW d, PostedOK(d), NEW e, e.ledger = d.ledger, e.orders = d.orders
  PROVE  PostedOK(e)
  BY DEF PostedOK

\* An order that is not in the books is posted: its entries come with it.
LEMMA OrderPosted ==
  ASSUME NEW d, TablesOK(d), PostedOK(d), NEW o, o \notin DOMAIN d.orders
  PROVE  PostedOK(PostOrder(d, o))
<1> DEFINE with == {t \in DOMAIN TX : TX[t].order = o}
           new == UNION {EntriesOf(t) : t \in with}
           e == PostOrder(d, o)
           Of(l, t) == {x \in l : x.id[1] = t}
<1>1. e.ledger = d.ledger \cup new /\ DOMAIN e.orders = DOMAIN d.orders \cup {o}
  <2>1. d = [t \in TABLE |-> d[t]]
    BY DEF TablesOK
  <2>2. e.ledger = d.ledger \cup new
    BY <2>1 DEF PostOrder, TABLE
  <2>3. DOMAIN e.orders = DOMAIN d.orders \cup {o}
    BY <2>1 DEF PostOrder, TABLE
  <2> QED
    BY <2>2, <2>3
<1>2. \A x \in new : \E t \in with : x \in EntriesOf(t)
  OBVIOUS
<1>3. \A t \in with : EntriesOf(t) \subseteq new
  OBVIOUS
<1>4. \A t \in DOMAIN TX : \A x \in EntriesOf(t) : x.id[1] = t
  BY EntriesParts
<1> HIDE DEF new, e
<1>5. ASSUME NEW t \in DOMAIN TX
      PROVE  /\ {Part(x) : x \in Of(e.ledger, t)} =
                  IF TX[t].order \in DOMAIN e.orders THEN {Part(x) : x \in EntriesOf(t)} ELSE {}
             /\ \A x, y \in Of(e.ledger, t) : x.id = y.id => x = y
  <2>1. /\ {Part(x) : x \in Of(d.ledger, t)} =
             IF TX[t].order \in DOMAIN d.orders THEN {Part(x) : x \in EntriesOf(t)} ELSE {}
        /\ \A x, y \in Of(d.ledger, t) : x.id = y.id => x = y
    BY DEF PostedOK
  <2>2. CASE TX[t].order = o
    <3>1. Of(d.ledger, t) = {}
      BY <2>1, <2>2
    <3>2. Of(e.ledger, t) = EntriesOf(t)
      BY <1>1, <1>2, <1>3, <1>4, <2>2, <3>1
    <3>3. \A x, y \in EntriesOf(t) : x.id = y.id => x = y
      BY EntriesParts
    <3> HIDE DEF Of
    <3> QED
      BY <1>1, <2>2, <3>2, <3>3
  <2>3. CASE TX[t].order # o
    <3>1. Of(e.ledger, t) = Of(d.ledger, t)
      BY <1>1, <1>2, <1>4, <2>3
    <3> HIDE DEF Of
    <3> QED
      BY <1>1, <2>1, <2>3, <3>1
  <2> QED
    BY <2>2, <2>3
<1> HIDE DEF with
<1>6. PostedOK(e)
  BY <1>5 DEF PostedOK
<1> QED
  BY <1>6 DEF e

\* A statement is posted: it settles entries, which stay what was posted, and has its own.
LEMMA StatementPosted ==
  ASSUME NEW d, TablesOK(d), PostedOK(d), NEW s \in DOMAIN STATEMENT
  PROVE  PostedOK(PostStatement(d, s))
<1> DEFINE time == STATEMENT[s].time
           month == MonthOf(time)
           xs == STATEMENT[s].extras
           settles(x) == x.order \in STATEMENT[s].orders /\ x.category # "cost_of_goods_sold"
           settled(x) == [x EXCEPT !.statement = s, !.month = month]
           anExtra(x) == settled(Entry(<<s, x, 0>>, xs[x].order, xs[x].category, xs[x].fee,
                                       FromDecimalString(xs[x].tenths), time))
           extras == {anExtra(x) : x \in DOMAIN xs}
           penalties == Within(extras, {"platform_adjustment"})
           derived == Amount({x \in d.ledger : settles(x)}) + Amount(penalties)
           payout == settled(Entry(<<s, 0, 0>>, None, "settlement", None, -derived, time))
           now == [x \in d.ledger |-> IF settles(x) THEN settled(x) ELSE x]
           old == {IF settles(x) THEN settled(x) ELSE x : x \in d.ledger}
           e == PostStatement(d, s)
           Of(l, t) == {x \in l : x.id[1] = t}
<1>1. e.ledger = old \cup extras \cup {payout} /\ DOMAIN e.orders = DOMAIN d.orders
  <2>1. d = [t \in TABLE |-> d[t]]
    BY DEF TablesOK
  <2>2. e.ledger = old \cup extras \cup {payout}
    BY <2>1 DEF PostStatement, TABLE
  <2>3. DOMAIN e.orders = DOMAIN d.orders
    BY <2>1 DEF PostStatement, TABLE
  <2> QED
    BY <2>2, <2>3
<1>2. old = {now[x] : x \in d.ledger}
  OBVIOUS
<1>3. \A x \in d.ledger : now[x].id = x.id /\ now[x].line = x.line /\ now[x].amount = x.amount
  <2>1. \A x \in d.ledger : {"id", "line", "amount"} \subseteq DOMAIN x
    BY DEF TablesOK, EntryOK
  <2> QED
    BY <2>1
<1>4. (\A x \in extras : x.id[1] = s) /\ payout.id[1] = s
  <2>1. \A x \in DOMAIN xs : anExtra(x).id = <<s, x, 0>>
    BY DEF Entry
  <2>2. payout.id = <<s, 0, 0>>
    BY DEF Entry
  <2> HIDE DEF anExtra, payout
  <2> QED
    BY <2>1, <2>2
<1>5. s \notin DOMAIN TX
  BY PostingAssumption DEF PostingAssumption
<1> HIDE DEF e, extras, payout, now, old
<1>6. ASSUME NEW t \in DOMAIN TX
      PROVE  /\ {Part(x) : x \in Of(e.ledger, t)} =
                  IF TX[t].order \in DOMAIN e.orders THEN {Part(x) : x \in EntriesOf(t)} ELSE {}
             /\ \A x, y \in Of(e.ledger, t) : x.id = y.id => x = y
  <2>1. /\ {Part(x) : x \in Of(d.ledger, t)} =
             IF TX[t].order \in DOMAIN d.orders THEN {Part(x) : x \in EntriesOf(t)} ELSE {}
        /\ \A x, y \in Of(d.ledger, t) : x.id = y.id => x = y
    BY DEF PostedOK
  <2>2. \A x \in Of(d.ledger, t) : now[x].id = x.id /\ Part(now[x]) = Part(x)
    BY <1>3 DEF Part
  <2>3. Of(e.ledger, t) = {now[x] : x \in Of(d.ledger, t)}
    BY <1>1, <1>2, <1>3, <1>4, <1>5
  <2> HIDE DEF Of
  <2>4. {Part(x) : x \in Of(e.ledger, t)} = {Part(x) : x \in Of(d.ledger, t)}
    BY <2>2, <2>3
  <2>5. ASSUME NEW x \in Of(e.ledger, t), NEW y \in Of(e.ledger, t), x.id = y.id PROVE x = y
    BY <2>1, <2>2, <2>3, <2>5
  <2> QED
    BY <1>1, <2>1, <2>4, <2>5
<1>7. PostedOK(e)
  BY <1>6 DEF PostedOK
<1> QED
  BY <1>7 DEF e

\* A return is posted: what it writes off is of no transaction.
LEMMA ReturnPosted ==
  ASSUME NEW d, TablesOK(d), PostedOK(d), NEW r \in DOMAIN RETURN
  PROVE  PostedOK(PostReturn(d, r))
<1> DEFINE ret == RETURN[r]
           line == CHOOSE l \in DOMAIN OrderLine : OrderLine[l].order = ret.order
           type(i) == MovementOf(ret.kind, ret.items[i].check)
           items == DOMAIN ret.items
           lost == {i \in items : type(i) = "write_off" /\ ret.items[i].cost # 0}
           entry == [i \in lost |->
                      [Entry(<<r, i, 0>>, ret.order, "stock_written_off", None, -ret.items[i].cost, ret.completed)
                         EXCEPT !.line = line, !.sku = OrderLine[line].sku, !.ret = <<r>>]]
           entries == {entry[i] : i \in lost}
           e == PostReturn(d, r)
           Of(l, t) == {x \in l : x.id[1] = t}
<1>1. e.ledger = d.ledger \cup entries /\ e.orders = d.orders
  <2>1. d = [t \in TABLE |-> d[t]]
    BY DEF TablesOK
  <2>2. e.ledger = d.ledger \cup entries
    BY <2>1 DEF PostReturn, TABLE
  <2>3. e.orders = d.orders
    BY <2>1 DEF PostReturn, TABLE
  <2> QED
    BY <2>2, <2>3
<1>2. \A x \in entries : x.id[1] = r
  <2>1. \A i \in lost : entry[i].id = <<r, i, 0>>
    BY DEF Entry
  <2> HIDE DEF entry, lost
  <2> QED
    BY <2>1
<1>3. r \notin DOMAIN TX
  BY PostingAssumption DEF PostingAssumption
<1> HIDE DEF e, entries
<1>4. \A t \in DOMAIN TX : Of(e.ledger, t) = Of(d.ledger, t)
  BY <1>1, <1>2, <1>3
<1> HIDE DEF Of
<1>5. PostedOK(e)
  BY <1>1, <1>4 DEF PostedOK, Of
<1> QED
  BY <1>5 DEF e

\* Whatever is committed, the ledger has what was posted.
LEMMA CommitPosted ==
  ASSUME HistoryOK, PostedOK(db), Commit
  PROVE  PostedOK(db)'
<1> DEFINE same(d) == d.ledger = db.ledger /\ d.orders = db.orders
<1>1. TablesOK(db) /\ db = [t \in TABLE |-> db[t]]
  <2>1. TablesOK(db)
    BY Growing DEF HistoryOK, db
  <2> QED
    BY <2>1 DEF TablesOK
<1>2. ASSUME NEW d, Write(d) PROVE db' = d
  <2>1. commits' = Append(commits, d)
    BY <1>2 DEF Write
  <2>2. Len(commits') = Len(commits) + 1 /\ commits'[Len(commits) + 1] = d
    BY <2>1, Growing DEF HistoryOK
  <2> QED
    BY <2>2 DEF db
<1>3. ASSUME NEW o \in DOMAIN ORDER, SyncOrder(o) PROVE PostedOK(db)'
  <2>1. Write(PostOrder(db, o)) /\ PostedOK(PostOrder(db, o))
    BY <1>1, <1>3, OrderPosted DEF SyncOrder
  <2> QED
    BY <1>2, <2>1
<1>4. ASSUME NEW s \in DOMAIN STATEMENT, SyncStatement(s) PROVE PostedOK(db)'
  <2>1. Write(PostStatement(db, s)) /\ PostedOK(PostStatement(db, s))
    BY <1>1, <1>4, StatementPosted DEF SyncStatement
  <2> QED
    BY <1>2, <2>1
<1>5. ASSUME NEW r \in DOMAIN RETURN, SyncReturn(r) PROVE PostedOK(db)'
  <2>1. Write(PostReturn(db, r)) /\ PostedOK(PostReturn(db, r))
    BY <1>1, <1>5, ReturnPosted DEF SyncReturn
  <2> QED
    BY <1>2, <2>1
<1>6. ASSUME NEW t \in TABLE \ {"ledger", "orders"}, NEW v, Write([db EXCEPT ![t] = v]) PROVE PostedOK(db)'
  <2>1. same([db EXCEPT ![t] = v])
    BY <1>1 DEF TABLE
  <2>2. PostedOK([db EXCEPT ![t] = v])
    BY <2>1, PostedSame
  <2> QED
    BY <1>2, <1>6, <2>2
<1> HIDE DEF same
<1>7. {"costs", "positions", "runs", "link", "discs", "notices", "others", "profile", "low_days", "statements"}
        \subseteq TABLE \ {"ledger", "orders"}
  BY DEF TABLE
<1>8. ASSUME NEW c \in CostWrite, NewCost(c) PROVE PostedOK(db)'
  BY <1>6, <1>7, <1>8 DEF NewCost
<1>9. ASSUME NEW p \in PositionWrite, CountStock(p) PROVE PostedOK(db)'
  BY <1>6, <1>7, <1>9 DEF CountStock
<1>10. ASSUME NEW run \in RunWrite, EndRun(run) PROVE PostedOK(db)'
  BY <1>6, <1>7, <1>10 DEF EndRun
<1>11. ASSUME NEW link \in LinkWrite, Relink(link) PROVE PostedOK(db)'
  BY <1>6, <1>7, <1>11 DEF Relink
<1>12. ASSUME NEW x \in db.discs, Resolve(x) PROVE PostedOK(db)'
  BY <1>6, <1>7, <1>12 DEF Resolve
<1>13. ASSUME NEW n \in db.notices, NEW status \in {"read", "done"}, Notice(n, status) PROVE PostedOK(db)'
  BY <1>6, <1>7, <1>13 DEF Notice
<1>14. ASSUME NEW o \in SalesWrite, EnterSales(o) PROVE PostedOK(db)'
  BY <1>6, <1>7, <1>14 DEF EnterSales, PutOtherSales
<1>15. ASSUME NEW p \in Profile, SaveProfile(p) PROVE PostedOK(db)'
  BY <1>6, <1>7, <1>15 DEF SaveProfile, PutTaxProfile
<1>16. ASSUME NEW days \in LowDays, SaveSettings(days) PROVE PostedOK(db)'
  BY <1>6, <1>7, <1>16 DEF SaveSettings, PutAlertSettings
<1>17. ASSUME NEW s \in db.statements, NEW number \in InvoiceNumber, SaveInvoice(s, number) PROVE PostedOK(db)'
  BY <1>6, <1>7, <1>17 DEF SaveInvoice, RecordInvoice
<1> QED
  BY <1>3, <1>4, <1>5, <1>8, <1>9, <1>10, <1>11, <1>12, <1>13, <1>14, <1>15, <1>16, <1>17 DEF Commit

\* Any step leaves the ledger with what was posted.
LEMMA SplitStep == PagingInv /\ SplitInv /\ [Next]_vars => SplitInv'
<1> SUFFICES ASSUME PagingInv, SplitInv, [Next]_vars PROVE SplitInv'
  OBVIOUS
<1>1. CASE Commit
  BY <1>1, CommitPosted DEF PagingInv, SplitInv
<1>2. CASE UNCHANGED commits
  BY <1>2 DEF SplitInv, db
<1> QED
  BY <1>1, <1>2 DEF Next, Ask, Read, Reply, Leave, vars

\* The books have what was posted at the start.
LEMMA SplitInit == Init => SplitInv
<1> SUFFICES ASSUME Init PROVE SplitInv
  OBVIOUS
<1>1. db = Start
  BY DEF Init, db
<1> QED
  BY <1>1, BooksAssumption DEF BooksAssumption, SplitInv

\* Entries that are the parts of a total: each that is not 0, once.
ArePartsOf(t, f, total, parts) ==
  /\ total \in Int /\ IsFiniteSet(parts)
  /\ \A e \in parts : \E i \in DOMAIN TX[t].lines :
       /\ e.id = <<t, f, i>> /\ e.line = TX[t].lines[i]
       /\ e.amount = PartsOf(t, total)[i] /\ e.amount # 0
  /\ \A i \in DOMAIN TX[t].lines : PartsOf(t, total)[i] # 0 => \E e \in parts : e.id = <<t, f, i>>
  /\ \A e, g \in parts : e.id = g.id => e = g

\* The entries of one line.
OnLine(entries, l) == {e \in entries : e.line = l}

\* Entries that are the parts of a total add up to it, and those of a line to its part.
LEMMA PartsAddUp ==
  ASSUME NEW t \in DOMAIN TX, NEW f, NEW total, NEW parts, ArePartsOf(t, f, total, parts)
  PROVE  /\ Amount(parts) = total
         /\ \A i \in DOMAIN TX[t].lines : Amount(OnLine(parts, TX[t].lines[i])) = PartsOf(t, total)[i]
<1> DEFINE S == DOMAIN TX[t].lines
           lines == TX[t].lines
           q == PartsOf(t, total)
           place == [e \in parts |-> e.id[3]]
           amount == [e \in parts |-> e.amount]
           some == {place[e] : e \in parts}
<1>0. /\ total \in Int /\ IsFiniteSet(parts)
      /\ \A e \in parts : \E i \in S :
           e.id = <<t, f, i>> /\ e.line = lines[i] /\ e.amount = q[i] /\ e.amount # 0
      /\ \A i \in S : q[i] # 0 => \E e \in parts : e.id = <<t, f, i>>
      /\ \A e, g \in parts : e.id = g.id => e = g
  BY DEF ArePartsOf
<1>1. /\ q \in [S -> Int] /\ DOMAIN q = S /\ SumFunction(q) = total
      /\ IsFiniteSet(S) /\ \A i, j \in S : lines[i] = lines[j] => i = j
  <2>1. IsFiniteSet(S)
    <3>1. S = 1 .. Len(lines) /\ 1 \in Int /\ Len(lines) \in Int
      BY LinesOfTransaction
    <3>2. IsFiniteSet(1 .. Len(lines))
      BY <3>1, FS_Interval
    <3> QED
      BY <3>1, <3>2
  <2>2. total \in Int
    BY <1>0
  <2>3. q \in [S -> Int] /\ SumFunction(q) = total
    BY <2>2, PartsAreExact
  <2>4. \A i, j \in S : lines[i] = lines[j] => i = j
    BY LinesOfTransaction
  <2> HIDE DEF q, lines, S
  <2> QED
    BY <2>1, <2>3, <2>4
<1>2. ASSUME NEW e \in parts
      PROVE  /\ place[e] \in S /\ e.id = <<t, f, place[e]>> /\ e.line = lines[place[e]]
             /\ e.amount = q[place[e]] /\ amount[e] = e.amount /\ e.amount # 0 /\ e.amount \in Int
  <2>1. PICK i \in S : e.id = <<t, f, i>> /\ e.line = lines[i] /\ e.amount = q[i] /\ e.amount # 0
    BY <1>0
  <2>2. place[e] = i /\ amount[e] = e.amount
    BY <2>1
  <2> HIDE DEF place, amount, q
  <2> QED
    BY <1>1, <2>1, <2>2
<1> HIDE DEF S, lines, q, place, amount
<1>3. \A e, g \in parts : place[e] = place[g] => e = g
  <2>1. ASSUME NEW e \in parts, NEW g \in parts, place[e] = place[g] PROVE e = g
    BY <1>0, <1>2, <2>1
  <2> QED
    BY <2>1
<1>4. \A i \in S : q[i] # 0 => i \in some
  <2>1. ASSUME NEW i \in S, q[i] # 0 PROVE i \in some
    <3>1. PICK e \in parts : e.id = <<t, f, i>>
      BY <1>0, <2>1
    <3>2. place[e] = i
      BY <1>2, <3>1
    <3> QED
      BY <3>2
  <2> QED
    BY <2>1
<1>5. some \subseteq S /\ IsFiniteSet(some)
  BY <1>1, <1>2, FS_Subset
<1>6. Amount(parts) = total
  <2>1. Amount(parts) = SumOf(amount, parts)
    BY <1>0, <1>2, AmountIsSum
  <2>2. SumOf(q, some) = SumOf(amount, parts)
    <3>1. /\ \A e \in parts : q[place[e]] \in Int
          /\ \A e \in parts : amount[e] = q[place[e]]
      BY <1>2
    <3> QED
      BY <1>0, <1>3, <1>5, <3>1, SumRenamed
  <2> HIDE DEF some
  <2>3. SumOf(q, S) = SumOf(q, some)
    <3>1. (\A i \in S : q[i] \in Int) /\ \A i \in S \ some : q[i] = 0
      BY <1>1, <1>4
    <3> QED
      BY <1>1, <1>5, <3>1, SumZeros
  <2>4. SumFunction(q) = SumOf(q, S)
    BY <1>1, FunctionIsSum
  <2> QED
    BY <1>1, <2>1, <2>2, <2>3, <2>4
<1>7. ASSUME NEW i \in S PROVE Amount(OnLine(parts, lines[i])) = q[i]
  <2> DEFINE here == OnLine(parts, lines[i])
  <2>1. here = {e \in parts : place[e] = i}
    BY <1>1, <1>2 DEF OnLine
  <2>2. IsFiniteSet(here) /\ here \subseteq parts
    BY <1>0, FS_Subset DEF OnLine
  <2> HIDE DEF here
  <2>3. Amount(here) = SumOf(amount, here)
    BY <1>2, <2>2, AmountIsSum
  <2>4. CASE i \in some
    <3>1. PICK e \in parts : place[e] = i
      BY <2>4
    <3>2. here = {e}
      BY <1>3, <2>1, <3>1
    <3>3. Cardinality(here) = 1
      BY <3>2, FS_Singleton
    <3>4. q[i] \in Int /\ \A x \in here : amount[x] = q[i]
      BY <1>1, <1>2, <3>1, <3>2
    <3>5. SumOf(amount, here) = q[i] * Cardinality(here)
      BY <2>2, <3>4, SumConstant
    <3> QED
      BY <2>3, <3>3, <3>4, <3>5 DEF here
  <2>5. CASE i \notin some
    <3>1. here = {}
      BY <2>1, <2>5
    <3>2. q[i] = 0
      BY <1>4, <2>5
    <3> QED
      BY <2>3, <3>1, <3>2, SumNothing DEF here
  <2> QED
    BY <2>4, <2>5
<1> QED
  BY <1>6, <1>7 DEF S, lines, q

\* Why a figure keeps its pence: what the ledger has of it is its parts, each once.
LEMMA FiguresKeepPence == PagingInv /\ SplitInv => SplitKeepsPence
<1> DEFINE OfFigure(t, f) == {e \in db.ledger : e.id[1] = t /\ e.id[2] = f}
<1> SUFFICES ASSUME PagingInv, SplitInv,
                    NEW t \in DOMAIN TX, TX[t].order \in DOMAIN db.orders,
                    NEW f \in DOMAIN TX[t].figures
             PROVE  /\ Amount(OfFigure(t, f)) = FigureOf(t, f)
                    /\ \A k, l \in Range(TX[t].lines) :
                         Amount(OnLine(OfFigure(t, f), k)) - Amount(OnLine(OfFigure(t, f), l)) <= 1
  BY DEF SplitKeepsPence, FigureOf, OnLine
<1> DEFINE S == DOMAIN TX[t].lines
           lines == TX[t].lines
           total == FigureOf(t, f)
           q == PartsOf(t, total)
           parts == OfFigure(t, f)
           of == {e \in db.ledger : e.id[1] = t}
           entries == EntriesOf(t)
<1>1. TablesOK(db)
  BY Growing DEF PagingInv, HistoryOK, db
<1>2. IsFiniteSet(parts) /\ parts = {e \in of : e.id[2] = f}
  <2>1. IsFiniteSet(db.ledger) /\ parts \subseteq db.ledger
    BY <1>1 DEF TablesOK
  <2> QED
    BY <2>1, FS_Subset
<1>3. /\ {Part(e) : e \in of} = {Part(e) : e \in entries}
      /\ \A e, g \in of : e.id = g.id => e = g
  BY DEF SplitInv, PostedOK
<1>4. /\ total \in Int
      /\ \A e \in entries : e.id[1] = t
      /\ \A e \in entries : e.id[2] = f => \E i \in S :
           e.id = <<t, f, i>> /\ e.line = lines[i] /\ e.amount = q[i] /\ e.amount # 0
      /\ \A i \in S : q[i] # 0 => \E e \in entries : e.id = <<t, f, i>>
  <2>1. \A e \in EntriesOf(t) : e.id[1] = t
    BY EntriesParts
  <2>2. /\ FigureOf(t, f) \in Int
        /\ \A e \in EntriesOf(t) : e.id[2] = f => \E i \in DOMAIN TX[t].lines :
             /\ e.id = <<t, f, i>> /\ e.line = TX[t].lines[i]
             /\ e.amount = PartsOf(t, FigureOf(t, f))[i] /\ e.amount # 0
        /\ \A i \in DOMAIN TX[t].lines : PartsOf(t, FigureOf(t, f))[i] # 0 =>
             \E e \in EntriesOf(t) : e.id = <<t, f, i>>
    BY EntriesParts
  <2> QED
    BY <2>1, <2>2
<1>5. /\ \A e \in of : \E g \in entries : Part(e) = Part(g)
      /\ \A g \in entries : \E e \in of : Part(e) = Part(g)
  BY <1>3
<1>6. \A e, g : Part(e) = Part(g) => e.id = g.id /\ e.line = g.line /\ e.amount = g.amount
  BY DEF Part
<1> HIDE DEF parts, of, entries, q, total, lines, S
<1>7. ASSUME NEW e \in parts
      PROVE  \E i \in S : e.id = <<t, f, i>> /\ e.line = lines[i] /\ e.amount = q[i] /\ e.amount # 0
  <2>1. e \in of /\ e.id[2] = f
    BY <1>2
  <2>2. PICK g \in entries : e.id = g.id /\ e.line = g.line /\ e.amount = g.amount
    BY <1>5, <1>6, <2>1
  <2> QED
    BY <1>4, <2>1, <2>2
<1>8. ASSUME NEW i \in S, q[i] # 0 PROVE \E e \in parts : e.id = <<t, f, i>>
  <2>1. PICK g \in entries : g.id = <<t, f, i>>
    BY <1>4, <1>8
  <2>2. PICK e \in of : e.id = g.id
    BY <1>5, <1>6
  <2>3. e.id[2] = f
    BY <2>1, <2>2
  <2> QED
    BY <1>2, <2>1, <2>2, <2>3
<1>9. \A e, g \in parts : e.id = g.id => e = g
  BY <1>2, <1>3
<1>10. /\ Amount(parts) = total
       /\ \A i \in S : Amount(OnLine(parts, lines[i])) = q[i]
  <2>1. ArePartsOf(t, f, total, parts)
    BY <1>2, <1>4, <1>7, <1>8, <1>9 DEF ArePartsOf, S, lines, q
  <2> QED
    BY <2>1, PartsAddUp DEF S, lines, q
<1>11. ASSUME NEW k \in Range(lines), NEW l \in Range(lines)
       PROVE  Amount(OnLine(parts, k)) - Amount(OnLine(parts, l)) <= 1
  <2>1. PICK i \in S : k = lines[i]
    BY DEF Range, S, lines
  <2>2. PICK j \in S : l = lines[j]
    BY DEF Range, S, lines
  <2>3. q[i] - q[j] <= 1
    BY <1>4, PartsAreExact DEF S, q
  <2> QED
    BY <1>10, <2>1, <2>2, <2>3
<1> QED
  BY <1>10, <1>11 DEF parts, total, lines

\* SplitKeepsPence of Books: in every state, settled or not, the entries of a figure of a posted
\* transaction add up to the pence of the figure, and no two of its lines are over a penny apart.
THEOREM SplitKeepsPenceHolds == Spec => []SplitKeepsPence
<1>1. Init => PagingInv /\ SplitInv
  BY PagingInit, SplitInit
<1>2. PagingInv /\ SplitInv /\ [Next]_vars => (PagingInv /\ SplitInv)'
  BY PagingStep, SplitStep
<1>3. Spec => [](PagingInv /\ SplitInv)
  BY <1>1, <1>2, PTL DEF Spec
<1> QED
  BY <1>3, FiguresKeepPence, PTL

-------------------------------------------------------------------------------
(* What the screens add up. *)

\* The sections by name.
LEMMA SectionsAre ==
  /\ DOMAIN SECTIONS = 1 .. 4
  /\ SECTIONS[1].categories = {"gross_sales", "seller_discount", "refund"}
  /\ SECTIONS[2].categories = TIKTOK_FEES \ {"platform_adjustment"}
  /\ SECTIONS[3].categories = {"seller_shipping"} /\ SECTIONS[3].key = "your_costs"
  /\ SECTIONS[4].categories = {"return_shipping", "stock_written_off"}
  /\ \A i \in {1, 2, 4} : SECTIONS[i].key # "your_costs"
BY DEF SECTIONS

\* What is posted of a variant, by name.
LEMMA VariantCategoriesAre ==
  VariantCategory = {"cost_of_goods_sold"} \cup SECTIONS[1].categories \cup SECTIONS[2].categories
                      \cup SECTIONS[4].categories
BY DEF VariantCategory

\* A field of TikTok's is of a category that a variant may have.
LEMMA FieldsHaveCategories == ASSUME NEW field PROVE CategoryOf(field) \in VariantCategory
<1>1. \A f \in DOMAIN FEE_MAP : FEE_MAP[f] \in SECTIONS[1].categories \cup SECTIONS[2].categories
  BY SectionsAre DEF FEE_MAP, TIKTOK_FEES
<1>2. \A f \in DOMAIN SHIP_MAP : SHIP_MAP[f] \in SECTIONS[2].categories \cup SECTIONS[4].categories
  BY SectionsAre DEF SHIP_MAP, TIKTOK_FEES
<1>3. "unmapped_fee" \in SECTIONS[2].categories
  BY SectionsAre DEF TIKTOK_FEES
<1> QED
  BY <1>1, <1>2, <1>3, VariantCategoriesAre DEF CategoryOf

\* Of these, the type says which count as proceeds and which as what returns lost.
LEMMA TypesAre ==
  ASSUME NEW c \in VariantCategory
  PROVE  ENTRY_TYPE(c) \in NET_PROCEEDS_TYPES <=> c \in SECTIONS[1].categories \cup SECTIONS[2].categories
<1>1. c \in {"cost_of_goods_sold", "gross_sales", "seller_discount", "refund", "return_shipping", "stock_written_off"}
        \/ c \in SECTIONS[2].categories
  BY VariantCategoriesAre, SectionsAre
<1>2. CASE c \in SECTIONS[2].categories
  BY <1>2, SectionsAre DEF TIKTOK_FEES, ENTRY_TYPE, NET_PROCEEDS_TYPES
<1>3. CASE c \in {"gross_sales", "seller_discount", "refund"}
  BY <1>3, SectionsAre DEF ENTRY_TYPE, NET_PROCEEDS_TYPES
<1>4. CASE c \in {"cost_of_goods_sold", "return_shipping", "stock_written_off"}
  BY <1>4, SectionsAre DEF ENTRY_TYPE, NET_PROCEEDS_TYPES, TIKTOK_FEES
<1> QED
  BY <1>1, <1>2, <1>3, <1>4

-------------------------------------------------------------------------------
(* Commits keep what the screens add up. *)

\* What neither posts, returns nor costs anything leaves the figures alone.
LEMMA FiguresSame ==
  ASSUME NEW d, FiguresOK(d), NEW e, e.ledger = d.ledger, e.items = d.items, e.costs = d.costs
  PROVE  FiguresOK(e)
BY DEF FiguresOK

\* An entry that can be added up.
Addable(e) ==
  /\ {"category", "fee", "sku", "type"} \subseteq DOMAIN e /\ e.amount \in Int
  /\ e.sku # None => /\ e.line \in DOMAIN OrderLine
                     /\ e.category \in VariantCategory /\ e.type = ENTRY_TYPE(e.category)

\* The entries of a transaction can.
LEMMA TransactionFigures ==
  ASSUME NEW t \in DOMAIN TX, NEW e \in EntriesOf(t)
  PROVE  Addable(e)
<1> DEFINE lines == TX[t].lines
           figures == TX[t].figures
           category(f) == CategoryOf(figures[f].field)
           fee(f) == IF category(f) \in REVENUE THEN None ELSE figures[f].field
           spread == [f \in DOMAIN figures |-> Spread(t, category(f), fee(f), FigureOf(t, f), f)]
           total == -TX[t].cost * Len(lines)
           cost == Spread(t, "cost_of_goods_sold", None, total, 0)
<1>1. ASSUME NEW c \in VariantCategory, NEW fees, NEW sum \in Int, NEW f,
             NEW x \in Spread(t, c, fees, sum, f)
      PROVE  Addable(x)
  <2> DEFINE parts == PartsOf(t, sum)
             entry == [i \in DOMAIN lines |->
                        [Entry(<<t, f, i>>, TX[t].order, c, fees, parts[i], ORDER[TX[t].order].day)
                           EXCEPT !.line = lines[i], !.sku = OrderLine[lines[i]].sku]]
  <2>1. PICK i \in DOMAIN lines : x = entry[i]
    BY DEF Spread, PartsOf
  <2>2. parts[i] \in Int
    BY PartsAreExact
  <2>3. lines[i] \in DOMAIN OrderLine
    BY LinesOfTransaction, PostingAssumption DEF PostingAssumption
  <2> HIDE DEF parts, lines
  <2>4. /\ {"category", "fee", "sku", "type"} \subseteq DOMAIN x /\ x.amount = parts[i]
        /\ x.line = lines[i] /\ x.category = c /\ x.type = ENTRY_TYPE(c)
    BY <2>1 DEF Entry
  <2> QED
    BY <2>2, <2>3, <2>4 DEF Addable
<1>2. EntriesOf(t) = (UNION {spread[f] : f \in DOMAIN figures}) \cup cost
  <2>1. {spread[f] : f \in DOMAIN figures}
          = {Spread(t, category(f), fee(f), FromDecimalString(figures[f].tenths), f) : f \in DOMAIN figures}
    BY DEF FigureOf
  <2> QED
    BY <2>1 DEF EntriesOf
<1>3. total \in Int
  <2>1. TX[t].cost \in Int
    BY PostingAssumption DEF PostingAssumption
  <2>2. Len(lines) \in Int
    BY LinesOfTransaction
  <2> HIDE DEF lines
  <2>3. \A c, k \in Int : -c * k \in Int
    OBVIOUS
  <2> QED
    BY <2>1, <2>2, <2>3
<1>4. CASE e \in cost
  BY <1>1, <1>3, <1>4 DEF VariantCategory
<1>5. ASSUME NEW f \in DOMAIN figures, e \in spread[f] PROVE Addable(e)
  <2>1. FigureOf(t, f) \in Int
    BY EntriesParts
  <2>2. category(f) \in VariantCategory
    BY FieldsHaveCategories
  <2> HIDE DEF category, fee
  <2> QED
    BY <1>1, <1>5, <2>1, <2>2
<1> HIDE DEF spread, cost, figures
<1> QED
  BY <1>2, <1>4, <1>5

\* What is added up is a number.
LEMMA AmountType ==
  ASSUME NEW S, IsFiniteSet(S), \A e \in S : e.amount \in Int
  PROVE  Amount(S) \in Int
<1> DEFINE q == [e \in S |-> e.amount]
<1>1. \A e \in S : q[e] = e.amount /\ q[e] \in Int
  OBVIOUS
<1> HIDE DEF q
<1> QED
  BY <1>1, AmountIsSum, SumType

\* The books can be added up when their entries can.
LEMMA FiguresAre ==
  ASSUME NEW d
  PROVE  FiguresOK(d) <=> /\ \A e \in d.ledger : Addable(e)
                          /\ IsFiniteSet(d.items) /\ \A i \in d.items : i.quantity \in Int
                          /\ \A c \in d.costs : "cost" \in DOMAIN c /\ c.cost \in Int
BY DEF FiguresOK, Addable

\* An order is posted.
LEMMA OrderFigures ==
  ASSUME NEW d, TablesOK(d), FiguresOK(d), NEW o
  PROVE  FiguresOK(PostOrder(d, o))
<1> DEFINE with == {t \in DOMAIN TX : TX[t].order = o}
           new == UNION {EntriesOf(t) : t \in with}
           e == PostOrder(d, o)
<1>1. e.ledger = d.ledger \cup new /\ e.items = d.items /\ e.costs = d.costs
  <2>1. d = [t \in TABLE |-> d[t]]
    BY DEF TablesOK
  <2>2. e.ledger = d.ledger \cup new
    BY <2>1 DEF PostOrder, TABLE
  <2>3. e.items = d.items /\ e.costs = d.costs
    BY <2>1 DEF PostOrder, TABLE
  <2> QED
    BY <2>2, <2>3
<1>2. \A x \in new : \E t \in with : x \in EntriesOf(t)
  OBVIOUS
<1>3. \A x \in new : Addable(x)
  <2>1. \A t \in with : t \in DOMAIN TX
    OBVIOUS
  <2> HIDE DEF with, new
  <2> QED
    BY <1>2, <2>1, TransactionFigures
<1> HIDE DEF new, e
<1>4. FiguresOK(e)
  BY <1>1, <1>3, FiguresAre
<1> QED
  BY <1>4 DEF e

\* A statement is posted.
LEMMA StatementFigures ==
  ASSUME NEW d, TablesOK(d), FiguresOK(d), NEW s \in DOMAIN STATEMENT
  PROVE  FiguresOK(PostStatement(d, s))
<1> DEFINE time == STATEMENT[s].time
           month == MonthOf(time)
           xs == STATEMENT[s].extras
           settles(x) == x.order \in STATEMENT[s].orders /\ x.category # "cost_of_goods_sold"
           settled(x) == [x EXCEPT !.statement = s, !.month = month]
           anExtra(x) == settled(Entry(<<s, x, 0>>, xs[x].order, xs[x].category, xs[x].fee,
                                       FromDecimalString(xs[x].tenths), time))
           extras == {anExtra(x) : x \in DOMAIN xs}
           penalties == Within(extras, {"platform_adjustment"})
           mine == {x \in d.ledger : settles(x)}
           derived == Amount(mine) + Amount(penalties)
           payout == settled(Entry(<<s, 0, 0>>, None, "settlement", None, -derived, time))
           now == [x \in d.ledger |-> IF settles(x) THEN settled(x) ELSE x]
           old == {IF settles(x) THEN settled(x) ELSE x : x \in d.ledger}
           e == PostStatement(d, s)
<1>1. e.ledger = old \cup extras \cup {payout} /\ e.items = d.items /\ e.costs = d.costs
  <2>1. d = [t \in TABLE |-> d[t]]
    BY DEF TablesOK
  <2>2. e.ledger = old \cup extras \cup {payout}
    BY <2>1 DEF PostStatement, TABLE
  <2>3. e.items = d.items /\ e.costs = d.costs
    BY <2>1 DEF PostStatement, TABLE
  <2> QED
    BY <2>2, <2>3
<1>2. old = {now[x] : x \in d.ledger}
  OBVIOUS
<1>a. \A x \in d.ledger : Addable(x) /\ {"id", "line", "amount"} \subseteq DOMAIN x
  BY FiguresAre DEF TablesOK, EntryOK
<1>3. ASSUME NEW x \in d.ledger PROVE Addable(now[x])
  <2>1. /\ {"category", "fee", "sku", "type", "amount", "line"} \subseteq DOMAIN x /\ x.amount \in Int
        /\ x.sku # None => /\ x.line \in DOMAIN OrderLine
                           /\ x.category \in VariantCategory /\ x.type = ENTRY_TYPE(x.category)
    BY <1>a DEF Addable
  <2>2. /\ DOMAIN now[x] = DOMAIN x /\ now[x].amount = x.amount /\ now[x].sku = x.sku
        /\ now[x].line = x.line /\ now[x].category = x.category /\ now[x].type = x.type
    BY <2>1
  <2> HIDE DEF now
  <2> QED
    BY <2>1, <2>2 DEF Addable
<1>4. DOMAIN xs = 1 .. Len(xs) /\ Len(xs) \in Nat /\ \A x \in DOMAIN xs : xs[x].tenths \in Int
  <2> DEFINE X == [category : EXTRA, order : STATEMENT[s].orders \cup {None}, fee : STRING, tenths : Int \ (-4 .. 4)]
  <2>1. xs \in Seq(X)
    BY PostingAssumption DEF PostingAssumption
  <2>2. \A x \in X : x.tenths \in Int
    OBVIOUS
  <2> HIDE DEF xs, X
  <2>3. DOMAIN xs = 1 .. Len(xs) /\ Len(xs) \in Nat /\ \A x \in DOMAIN xs : xs[x] \in X
    BY <2>1
  <2> QED
    BY <2>2, <2>3
<1>5. ASSUME NEW x \in DOMAIN xs PROVE Addable(anExtra(x))
  <2> DEFINE pence == FromDecimalString(xs[x].tenths)
  <2>1. pence \in Int
    BY <1>4, Pence
  <2> HIDE DEF pence
  <2>2. /\ {"category", "fee", "sku", "type"} \subseteq DOMAIN anExtra(x)
        /\ anExtra(x).amount = pence /\ anExtra(x).sku = None
    BY DEF Entry, pence
  <2> HIDE DEF anExtra
  <2> QED
    BY <2>1, <2>2 DEF Addable
<1>6. \A x \in extras : Addable(x)
  BY <1>5
<1>7. IsFiniteSet(extras)
  <2> DEFINE f == [x \in DOMAIN xs |-> anExtra(x)]
  <2>1. extras = {f[x] : x \in DOMAIN xs}
    OBVIOUS
  <2>2. IsFiniteSet(DOMAIN xs)
    BY <1>4, FS_Interval
  <2> HIDE DEF f, extras, xs
  <2> QED
    BY <2>1, <2>2, FiniteImage
<1>8. derived \in Int
  <2>1. IsFiniteSet(mine) /\ IsFiniteSet(penalties)
    <3>1. IsFiniteSet(d.ledger) /\ mine \in SUBSET d.ledger /\ penalties \in SUBSET extras
      BY DEF TablesOK, Within
    <3> HIDE DEF mine, penalties, extras
    <3> QED
      BY <1>7, <3>1, FS_Subset
  <2>2. (\A x \in mine : x.amount \in Int) /\ \A x \in penalties : x.amount \in Int
    BY <1>a, <1>6 DEF Addable, Within
  <2> HIDE DEF mine, penalties
  <2>3. Amount(mine) \in Int /\ Amount(penalties) \in Int
    BY <2>1, <2>2, AmountType
  <2> QED
    BY <2>3
<1> HIDE DEF derived
<1>9. Addable(payout)
  <2>1. /\ {"category", "fee", "sku", "type"} \subseteq DOMAIN payout
        /\ payout.amount = -derived /\ payout.sku = None
    BY DEF Entry
  <2> HIDE DEF payout
  <2> QED
    BY <1>8, <2>1 DEF Addable
<1> HIDE DEF e, extras, payout, now, old
<1>10. FiguresOK(e)
  BY <1>1, <1>2, <1>3, <1>6, <1>9, FiguresAre
<1> QED
  BY <1>10 DEF e

\* A return is posted.
LEMMA ReturnFigures ==
  ASSUME NEW d, TablesOK(d), FiguresOK(d), NEW r \in DOMAIN RETURN
  PROVE  FiguresOK(PostReturn(d, r))
<1> DEFINE ret == RETURN[r]
           line == CHOOSE l \in DOMAIN OrderLine : OrderLine[l].order = ret.order
           type(i) == MovementOf(ret.kind, ret.items[i].check)
           items == DOMAIN ret.items
           lost == {i \in items : type(i) = "write_off" /\ ret.items[i].cost # 0}
           entry == [i \in lost |->
                      [Entry(<<r, i, 0>>, ret.order, "stock_written_off", None, -ret.items[i].cost, ret.completed)
                         EXCEPT !.line = line, !.sku = OrderLine[line].sku, !.ret = <<r>>]]
           entries == {entry[i] : i \in lost}
           item == [i \in items |-> [ret |-> <<r>>, sku |-> ret.items[i].sku, quantity |-> 1,
                                     check |-> ret.items[i].check]]
           back == {item[i] : i \in items}
           e == PostReturn(d, r)
<1>1. e.ledger = d.ledger \cup entries /\ e.items = d.items \cup back /\ e.costs = d.costs
  <2>1. d = [t \in TABLE |-> d[t]]
    BY DEF TablesOK
  <2>2. e.ledger = d.ledger \cup entries
    BY <2>1 DEF PostReturn, TABLE
  <2>3. e.items = d.items \cup back
    BY <2>1 DEF PostReturn, TABLE
  <2>4. e.costs = d.costs
    BY <2>1 DEF PostReturn, TABLE
  <2> QED
    BY <2>2, <2>3, <2>4
<1>2. items = 1 .. Len(ret.items) /\ Len(ret.items) \in Nat /\ \A i \in items : ret.items[i].cost \in Int
  <2> DEFINE X == [sku : Sku, check : STRING, cost : Int]
  <2>1. ret.items \in Seq(X)
    BY PostingAssumption DEF PostingAssumption
  <2>2. \A x \in X : x.cost \in Int
    OBVIOUS
  <2> HIDE DEF ret, X
  <2>3. items = 1 .. Len(ret.items) /\ Len(ret.items) \in Nat /\ \A i \in items : ret.items[i] \in X
    BY <2>1
  <2> QED
    BY <2>2, <2>3
<1>b. \A i \in items : -ret.items[i].cost \in Int
  <2> HIDE DEF items, ret
  <2>1. ASSUME NEW i \in items PROVE -ret.items[i].cost \in Int
    BY <1>2
  <2> QED
    BY <2>1
<1>3. line \in DOMAIN OrderLine
  BY PostingAssumption DEF PostingAssumption
<1>4. ASSUME NEW x \in entries PROVE Addable(x)
  <2>1. PICK i \in lost : x = entry[i]
    OBVIOUS
  <2> DEFINE pence == -ret.items[i].cost
  <2>2. pence \in Int
    BY <1>b
  <2> HIDE DEF pence
  <2>3. /\ {"category", "fee", "sku", "type"} \subseteq DOMAIN x /\ x.amount = pence /\ x.line = line
        /\ x.category = "stock_written_off" /\ x.type = ENTRY_TYPE("stock_written_off")
    BY <2>1 DEF Entry, pence
  <2>4. "stock_written_off" \in VariantCategory
    BY VariantCategoriesAre, SectionsAre
  <2> HIDE DEF line, entries, entry, lost
  <2> QED
    BY <1>3, <2>2, <2>3, <2>4 DEF Addable
<1>5. IsFiniteSet(back) /\ \A x \in back : x.quantity \in Int
  <2>1. IsFiniteSet(items)
    BY <1>2, FS_Interval
  <2>2. \A i \in items : item[i].quantity = 1
    OBVIOUS
  <2> HIDE DEF item, items
  <2> QED
    BY <2>1, <2>2, FiniteImage
<1> HIDE DEF e, entries, back
<1>6. IsFiniteSet(d.items \cup back)
  BY <1>5, FS_Union, FiguresAre
<1>7. FiguresOK(e)
  BY <1>1, <1>4, <1>5, <1>6, FiguresAre
<1> QED
  BY <1>7 DEF e

\* Whatever is committed, the books can be added up.
LEMMA CommitFigures ==
  ASSUME HistoryOK, FiguresOK(db), Commit
  PROVE  FiguresOK(db)'
<1> DEFINE same(d) == d.ledger = db.ledger /\ d.items = db.items /\ d.costs = db.costs
<1>1. TablesOK(db) /\ db = [t \in TABLE |-> db[t]]
  <2>1. TablesOK(db)
    BY Growing DEF HistoryOK, db
  <2> QED
    BY <2>1 DEF TablesOK
<1>2. ASSUME NEW d, Write(d) PROVE db' = d
  <2>1. commits' = Append(commits, d)
    BY <1>2 DEF Write
  <2>2. Len(commits') = Len(commits) + 1 /\ commits'[Len(commits) + 1] = d
    BY <2>1, Growing DEF HistoryOK
  <2> QED
    BY <2>2 DEF db
<1>3. ASSUME NEW o \in DOMAIN ORDER, SyncOrder(o) PROVE FiguresOK(db)'
  <2>1. Write(PostOrder(db, o)) /\ FiguresOK(PostOrder(db, o))
    BY <1>1, <1>3, OrderFigures DEF SyncOrder
  <2> QED
    BY <1>2, <2>1
<1>4. ASSUME NEW s \in DOMAIN STATEMENT, SyncStatement(s) PROVE FiguresOK(db)'
  <2>1. Write(PostStatement(db, s)) /\ FiguresOK(PostStatement(db, s))
    BY <1>1, <1>4, StatementFigures DEF SyncStatement
  <2> QED
    BY <1>2, <2>1
<1>5. ASSUME NEW r \in DOMAIN RETURN, SyncReturn(r) PROVE FiguresOK(db)'
  <2>1. Write(PostReturn(db, r)) /\ FiguresOK(PostReturn(db, r))
    BY <1>1, <1>5, ReturnFigures DEF SyncReturn
  <2> QED
    BY <1>2, <2>1
<1>6. ASSUME NEW t \in TABLE \ {"ledger", "items", "costs"}, NEW v, Write([db EXCEPT ![t] = v]) PROVE FiguresOK(db)'
  <2>1. same([db EXCEPT ![t] = v])
    BY <1>1 DEF TABLE
  <2>2. FiguresOK([db EXCEPT ![t] = v])
    BY <2>1, FiguresSame
  <2> QED
    BY <1>2, <1>6, <2>2
<1> HIDE DEF same
<1>7. {"positions", "runs", "link", "discs", "notices", "others", "profile", "low_days", "statements"}
        \subseteq TABLE \ {"ledger", "items", "costs"}
  BY DEF TABLE
<1>8. ASSUME NEW c \in CostWrite, NewCost(c) PROVE FiguresOK(db)'
  <2> DEFINE older == {IF x.sku = c.sku THEN [x EXCEPT !.current = FALSE] ELSE x : x \in db.costs}
             newer == [sku |-> c.sku, cost |-> c.cost, from |-> c.from, current |-> TRUE]
             e == [db EXCEPT !.costs = older \cup {newer}]
  <2>1. Write(e)
    BY <1>8 DEF NewCost
  <2>2. e.ledger = db.ledger /\ e.items = db.items /\ e.costs = older \cup {newer}
    BY <1>1 DEF TABLE
  <2>3. \A x \in db.costs : "cost" \in DOMAIN x /\ x.cost \in Int
    BY FiguresAre
  <2>4. "cost" \in DOMAIN newer /\ newer.cost \in Int
    BY BooksAssumption DEF BooksAssumption
  <2>5. ASSUME NEW y \in older PROVE "cost" \in DOMAIN y /\ y.cost \in Int
    <3>1. PICK x \in db.costs : y = IF x.sku = c.sku THEN [x EXCEPT !.current = FALSE] ELSE x
      OBVIOUS
    <3> HIDE DEF older
    <3> QED
      BY <2>3, <3>1
  <2> HIDE DEF older, newer, e
  <2>7. FiguresOK(e)
    BY <2>2, <2>4, <2>5, FiguresAre
  <2> QED
    BY <1>2, <2>1, <2>7
<1>9. ASSUME NEW p \in PositionWrite, CountStock(p) PROVE FiguresOK(db)'
  BY <1>6, <1>7, <1>9 DEF CountStock
<1>10. ASSUME NEW run \in RunWrite, EndRun(run) PROVE FiguresOK(db)'
  BY <1>6, <1>7, <1>10 DEF EndRun
<1>11. ASSUME NEW link \in LinkWrite, Relink(link) PROVE FiguresOK(db)'
  BY <1>6, <1>7, <1>11 DEF Relink
<1>12. ASSUME NEW x \in db.discs, Resolve(x) PROVE FiguresOK(db)'
  BY <1>6, <1>7, <1>12 DEF Resolve
<1>13. ASSUME NEW n \in db.notices, NEW status \in {"read", "done"}, Notice(n, status) PROVE FiguresOK(db)'
  BY <1>6, <1>7, <1>13 DEF Notice
<1>14. ASSUME NEW o \in SalesWrite, EnterSales(o) PROVE FiguresOK(db)'
  BY <1>6, <1>7, <1>14 DEF EnterSales, PutOtherSales
<1>15. ASSUME NEW p \in Profile, SaveProfile(p) PROVE FiguresOK(db)'
  BY <1>6, <1>7, <1>15 DEF SaveProfile, PutTaxProfile
<1>16. ASSUME NEW days \in LowDays, SaveSettings(days) PROVE FiguresOK(db)'
  BY <1>6, <1>7, <1>16 DEF SaveSettings, PutAlertSettings
<1>17. ASSUME NEW s \in db.statements, NEW number \in InvoiceNumber, SaveInvoice(s, number) PROVE FiguresOK(db)'
  BY <1>6, <1>7, <1>17 DEF SaveInvoice, RecordInvoice
<1> QED
  BY <1>3, <1>4, <1>5, <1>8, <1>9, <1>10, <1>11, <1>12, <1>13, <1>14, <1>15, <1>16, <1>17 DEF Commit

-------------------------------------------------------------------------------
(* The units and the cost of a product. *)

\* The larger of two numbers is a number.
LEMMA LargerOfTwo == ASSUME NEW a \in Int, NEW b \in Int PROVE Max({a, b}) \in Int
<1>1. \E x \in {a, b} : \A y \in {a, b} : x >= y
  <2>1. CASE a >= b
    BY <2>1
  <2>2. CASE b >= a
    BY <2>2
  <2> QED
    BY <2>1, <2>2
<1> QED
  BY <1>1 DEF Max

\* The units sold of a variant are a sum.
LEMMA SoldIsSum ==
  ASSUME NEW d, NEW period, NEW sku, NEW S,
         S = {e.line : e \in {e \in Scoped(d, period) : e.category = "gross_sales" /\ e.sku = sku}},
         IsFiniteSet(S), NEW q, \A l \in S : q[l] = OrderLine[l].quantity
  PROVE  Sold(d, period, sku) = SumOf(q, S)
<1> DEFINE P(h) == h = [s \in SUBSET S |->
                    IF s = {} THEN 0
                    ELSE OrderLine[CHOOSE x \in s : TRUE].quantity + h[s \ {CHOOSE x \in s : TRUE}]]
<1>1. ASSUME NEW h PROVE P(h) <=> Adds(q, S, h)
  <2>1. \A s \in SUBSET S : s # {} => q[OneOf(s)] = OrderLine[OneOf(s)].quantity
    BY OneIn
  <2> QED
    BY <2>1 DEF Adds, OneOf
<1>2. Sold(d, period, sku) = (CHOOSE h : P(h))[S]
  BY DEF P, Sold, MapThenSumSet, MapThenFoldSet
<1> HIDE DEF P
<1>3. P(TheSums(q, S))
  BY <1>1, TheOnlySums
<1>4. Adds(q, S, CHOOSE h : P(h))
  BY <1>1, <1>3
<1> QED
  BY <1>2, <1>4, TheOnlySums DEF SumOf

\* The units returned of a variant are a sum.
LEMMA ReturnedIsSum ==
  ASSUME NEW d, NEW period, NEW sku, NEW S,
         S = {i \in d.items : /\ i.sku = sku
                              /\ ReturnDay(d, i) # 0
                              /\ period.from <= ReturnDay(d, i) /\ ReturnDay(d, i) <= period.to},
         IsFiniteSet(S), NEW q, \A i \in S : q[i] = i.quantity
  PROVE  Returned(d, period, sku) = SumOf(q, S)
<1> DEFINE P(h) == h = [s \in SUBSET S |->
                    IF s = {} THEN 0
                    ELSE (CHOOSE x \in s : TRUE).quantity + h[s \ {CHOOSE x \in s : TRUE}]]
<1>1. ASSUME NEW h PROVE P(h) <=> Adds(q, S, h)
  <2>1. \A s \in SUBSET S : s # {} => q[OneOf(s)] = OneOf(s).quantity
    BY OneIn
  <2> QED
    BY <2>1 DEF Adds, OneOf
<1>2. Returned(d, period, sku) = (CHOOSE h : P(h))[S]
  BY DEF P, Returned, MapThenSumSet, MapThenFoldSet
<1> HIDE DEF P
<1>3. P(TheSums(q, S))
  BY <1>1, TheOnlySums
<1>4. Adds(q, S, CHOOSE h : P(h))
  BY <1>1, <1>3
<1> QED
  BY <1>2, <1>4, TheOnlySums DEF SumOf

\* What the units of a variant that were sold and kept have cost.
CostOf(d, period, s) ==
  (CHOOSE c \in CostInForce(d, period, s) : TRUE).cost
    * Max({Sold(d, period, s) - Returned(d, period, s), 0})

\* The cost of what was retained is a sum.
LEMMA RetainedIsSum ==
  ASSUME NEW d, NEW period, NEW product, NEW S,
         S = SkusSold(d, period, product) \ WithoutCost(d, period, product),
         IsFiniteSet(S), NEW q, \A s \in S : q[s] = CostOf(d, period, s)
  PROVE  Retained(d, period, product) = SumOf(q, S)
<1> DEFINE P(h) == h = [s \in SUBSET S |->
                    IF s = {} THEN 0
                    ELSE CostOf(d, period, CHOOSE x \in s : TRUE) + h[s \ {CHOOSE x \in s : TRUE}]]
<1>1. ASSUME NEW h PROVE P(h) <=> Adds(q, S, h)
  <2>1. \A s \in SUBSET S : s # {} => q[OneOf(s)] = CostOf(d, period, OneOf(s))
    BY OneIn
  <2> QED
    BY <2>1 DEF Adds, OneOf
<1>2. Retained(d, period, product) = (CHOOSE h : P(h))[S]
  BY DEF P, Retained, CostOf, MapThenSumSet, MapThenFoldSet
<1> HIDE DEF P
<1>3. P(TheSums(q, S))
  BY <1>1, TheOnlySums
<1>4. Adds(q, S, CHOOSE h : P(h))
  BY <1>1, <1>3
<1> QED
  BY <1>2, <1>4, TheOnlySums DEF SumOf

\* The units of a variant, sold and returned, are numbers.
LEMMA UnitsType ==
  ASSUME NEW d, TablesOK(d), FiguresOK(d), NEW period, NEW sku
  PROVE  Sold(d, period, sku) \in Int /\ Returned(d, period, sku) \in Int
<1>1. Sold(d, period, sku) \in Int
  <2> DEFINE some == {e \in Scoped(d, period) : e.category = "gross_sales" /\ e.sku = sku}
             f == [e \in some |-> e.line]
             S == {e.line : e \in some}
             q == [l \in S |-> OrderLine[l].quantity]
  <2>1. IsFiniteSet(some)
    <3>1. IsFiniteSet(d.ledger) /\ some \in SUBSET d.ledger
      BY DEF TablesOK, Scoped
    <3> HIDE DEF some
    <3> QED
      BY <3>1, FS_Subset
  <2>2. S = {f[e] : e \in some}
    OBVIOUS
  <2>3. \A e \in some : f[e] \in DOMAIN OrderLine
    BY DEF FiguresOK, Scoped
  <2>4. \A l \in S : q[l] = OrderLine[l].quantity
    OBVIOUS
  <2>a. S = {e.line : e \in {e \in Scoped(d, period) : e.category = "gross_sales" /\ e.sku = sku}}
    OBVIOUS
  <2> HIDE DEF some, f, S, q
  <2>5. IsFiniteSet(S)
    BY <2>1, <2>2, FiniteImage
  <2>6. \A l \in S : q[l] \in Int
    BY <2>2, <2>3, <2>4, LedgerAssumption DEF LedgerAssumption
  <2>7. Sold(d, period, sku) = SumOf(q, S)
    BY <2>a, <2>4, <2>5, SoldIsSum
  <2> QED
    BY <2>5, <2>6, <2>7, SumType
<1>2. Returned(d, period, sku) \in Int
  <2> DEFINE S == {i \in d.items : /\ i.sku = sku
                                   /\ ReturnDay(d, i) # 0
                                   /\ period.from <= ReturnDay(d, i) /\ ReturnDay(d, i) <= period.to}
             q == [i \in S |-> i.quantity]
  <2>1. S \in SUBSET d.items /\ IsFiniteSet(d.items) /\ \A i \in d.items : i.quantity \in Int
    BY DEF FiguresOK
  <2>2. \A i \in S : q[i] = i.quantity
    OBVIOUS
  <2>a. S = {i \in d.items : /\ i.sku = sku
                             /\ ReturnDay(d, i) # 0
                             /\ period.from <= ReturnDay(d, i) /\ ReturnDay(d, i) <= period.to}
    OBVIOUS
  <2> HIDE DEF S, q
  <2>3. IsFiniteSet(S) /\ \A i \in S : q[i] \in Int
    BY <2>1, <2>2, FS_Subset
  <2>4. Returned(d, period, sku) = SumOf(q, S)
    BY <2>a, <2>2, <2>3, ReturnedIsSum
  <2> QED
    BY <2>3, <2>4, SumType
<1> QED
  BY <1>1, <1>2

\* The cost of what was retained is a number.
LEMMA RetainedType ==
  ASSUME NEW d, TablesOK(d), FiguresOK(d), NEW period, NEW product
  PROVE  Retained(d, period, product) \in Int
<1> DEFINE S == SkusSold(d, period, product) \ WithoutCost(d, period, product)
           q == [s \in S |-> CostOf(d, period, s)]
<1>1. IsFiniteSet(S)
  <2>1. S \in SUBSET Sku /\ IsFiniteSet(Sku)
    BY LedgerAssumption DEF LedgerAssumption, SkusSold, Sku
  <2> HIDE DEF S
  <2> QED
    BY <2>1, FS_Subset
<1>2. \A s \in S : q[s] = CostOf(d, period, s)
  OBVIOUS
<1>3. ASSUME NEW s \in S PROVE q[s] \in Int
  <2> DEFINE c == CHOOSE c \in CostInForce(d, period, s) : TRUE
             units == Sold(d, period, s) - Returned(d, period, s)
  <2>1. CostInForce(d, period, s) # {}
    BY DEF WithoutCost
  <2>2. CostInForce(d, period, s) \subseteq d.costs
    BY DEF CostInForce
  <2>3. c \in d.costs
    BY <2>1, <2>2
  <2>4. c.cost \in Int
    BY <2>3 DEF FiguresOK
  <2>5. units \in Int
    BY UnitsType
  <2>6. q[s] = c.cost * Max({units, 0})
    BY <1>2 DEF CostOf
  <2> HIDE DEF c, units, q
  <2>7. Max({units, 0}) \in Int
    BY <2>5, LargerOfTwo
  <2> QED
    BY <2>4, <2>6, <2>7
<1>4. S = SkusSold(d, period, product) \ WithoutCost(d, period, product)
  OBVIOUS
<1> HIDE DEF S, q
<1>5. Retained(d, period, product) = SumOf(q, S)
  BY <1>1, <1>2, <1>4, RetainedIsSum
<1> QED
  BY <1>1, <1>3, <1>5, SumType

-------------------------------------------------------------------------------
(* The lines of entries. *)

\* A line is of a category and TikTok's name for the fee.
KeyOf(e) == [category |-> e.category, fee |-> e.fee]
InKey(own, g) == {e \in own : KeyOf(e) = g}
LineOf(own, g) == [category |-> g.category, fee |-> g.fee, amount |-> Amount(InKey(own, g))]

\* A line is what the entries of its key come to, unless it is nothing.
LEMMA LinesAre ==
  ASSUME NEW own, NEW l
  PROVE  l \in LinesOf(own) <=> \E e \in own : l = LineOf(own, KeyOf(e)) /\ l.amount # 0
<1>1. ASSUME l \in LinesOf(own) PROVE \E e \in own : l = LineOf(own, KeyOf(e)) /\ l.amount # 0
  <2>1. PICK g \in {KeyOf(e) : e \in own} : /\ l = [category |-> g.category, fee |-> g.fee, amount |-> Amount(InKey(own, g))]
                                            /\ Amount(InKey(own, g)) # 0
    BY <1>1, Zenon DEF LinesOf, KeyOf, InKey
  <2>2. PICK e \in own : g = KeyOf(e)
    OBVIOUS
  <2>3. l.amount = Amount(InKey(own, g))
    BY <2>1
  <2> QED
    BY <2>1, <2>2, <2>3, Zenon DEF LineOf
<1>2. ASSUME NEW e \in own, l = LineOf(own, KeyOf(e)), l.amount # 0 PROVE l \in LinesOf(own)
  <2> DEFINE g == KeyOf(e)
  <2>1. g \in {KeyOf(x) : x \in own}
    OBVIOUS
  <2>2. l.amount = Amount(InKey(own, g))
    BY <1>2 DEF LineOf
  <2>3. l = [category |-> g.category, fee |-> g.fee, amount |-> Amount(InKey(own, g))]
    BY <1>2 DEF LineOf
  <2>4. Amount(InKey(own, g)) # 0
    BY <1>2, <2>2
  <2> QED
    BY <2>1, <2>3, <2>4, Zenon DEF LinesOf, KeyOf, InKey
<1> QED
  BY <1>1, <1>2

\* The lines of entries add up to the entries, in any categories.
LEMMA LinesAddUp ==
  ASSUME NEW own, IsFiniteSet(own), \A e \in own : e.amount \in Int, NEW C
  PROVE  /\ Amount(Within(LinesOf(own), C)) = Amount(Within(own, C))
         /\ IsFiniteSet(Within(LinesOf(own), C))
         /\ \A l \in Within(LinesOf(own), C) : l.amount \in Int
<1> DEFINE S == Within(own, C)
           f == [e \in S |-> KeyOf(e)]
           q == [e \in S |-> e.amount]
           G == {f[e] : e \in S}
           h == [g \in G |-> SumOf(q, GroupOf(S, f, g))]
           Z == {g \in G : h[g] # 0}
           line == [g \in Z |-> LineOf(own, g)]
           L == Within(LinesOf(own), C)
           p == [l \in L |-> l.amount]
<1>1. IsFiniteSet(S) /\ \A e \in S : q[e] \in Int /\ q[e] = e.amount
  <2>1. S \in SUBSET own
    BY DEF Within
  <2> QED
    BY <2>1, FS_Subset
<1>2. \A e : e \in S <=> e \in own /\ KeyOf(e).category \in C
  BY DEF Within, KeyOf
<1>3. \A e \in S : f[e] = KeyOf(e)
  OBVIOUS
<1>4. \A g : g \in G <=> \E e \in S : g = KeyOf(e)
  OBVIOUS
<1>5. \A g \in G : h[g] = SumOf(q, GroupOf(S, f, g))
  OBVIOUS
<1>6. \A g : g \in Z <=> g \in G /\ h[g] # 0
  OBVIOUS
<1>7. \A g \in Z : line[g] = LineOf(own, g)
  OBVIOUS
<1>8. \A l \in L : p[l] = l.amount
  OBVIOUS
<1>9. \A l : l \in L <=> l \in LinesOf(own) /\ l.category \in C
  BY DEF Within
<1>a. L = Within(LinesOf(own), C) /\ S = Within(own, C) /\ G = {f[e] : e \in S}
  OBVIOUS
<1> HIDE DEF S, f, q, G, h, Z, line, L, p
<1>10. IsFiniteSet(G)
  BY <1>1, <1>a, FiniteImage
<1>11. ASSUME NEW g \in G
       PROVE  /\ IsFiniteSet(GroupOf(S, f, g)) /\ GroupOf(S, f, g) \subseteq S
              /\ InKey(own, g) = GroupOf(S, f, g) /\ g.category \in C
  <2>1. GroupOf(S, f, g) \in SUBSET S
    BY DEF GroupOf
  <2>2. PICK x \in S : g = KeyOf(x)
    BY <1>4
  <2>3. g.category \in C
    BY <1>2, <2>2
  <2>4. ASSUME NEW e \in InKey(own, g) PROVE e \in GroupOf(S, f, g)
    <3>1. e \in own /\ KeyOf(e) = g
      BY DEF InKey
    <3>2. e \in S
      BY <1>2, <2>3, <3>1
    <3> QED
      BY <1>3, <3>1, <3>2 DEF GroupOf
  <2>5. ASSUME NEW e \in GroupOf(S, f, g) PROVE e \in InKey(own, g)
    BY <1>2, <1>3 DEF GroupOf, InKey
  <2> QED
    BY <1>1, <2>1, <2>3, <2>4, <2>5, FS_Subset
<1>12. ASSUME NEW g \in G PROVE h[g] \in Int /\ Amount(InKey(own, g)) = h[g]
  <2>1. /\ IsFiniteSet(GroupOf(S, f, g))
        /\ \A e \in GroupOf(S, f, g) : q[e] \in Int /\ q[e] = e.amount
    BY <1>1, <1>11
  <2> DEFINE T == GroupOf(S, f, g)
  <2>2. h[g] = SumOf(q, T) /\ InKey(own, g) = T
    BY <1>5, <1>11
  <2> HIDE DEF T
  <2>3. Amount(T) = SumOf(q, T) /\ SumOf(q, T) \in Int
    BY <2>1, AmountIsSum, SumType DEF T
  <2> QED
    BY <2>2, <2>3
<1>13. ASSUME NEW g \in Z
       PROVE  /\ line[g].amount = h[g] /\ line[g].category = g.category /\ line[g].fee = g.fee
              /\ line[g].amount # 0
  <2>1. g \in G /\ h[g] # 0
    BY <1>6
  <2>2. h[g] = Amount(InKey(own, g))
    BY <1>12, <2>1
  <2>3. line[g] = LineOf(own, g)
    BY <1>7
  <2>4. line[g] = [category |-> g.category, fee |-> g.fee, amount |-> h[g]]
    BY <2>2, <2>3 DEF LineOf
  <2>5. line[g].amount = h[g] /\ line[g].category = g.category /\ line[g].fee = g.fee
    BY <2>4
  <2> QED
    BY <2>1, <2>5
<1>14. ASSUME NEW l \in L PROVE \E g \in Z : l = line[g]
  <2>1. l \in LinesOf(own) /\ l.category \in C
    BY <1>9
  <2>2. PICK e \in own : l = LineOf(own, KeyOf(e)) /\ l.amount # 0
    BY <2>1, LinesAre
  <2>3. l.category = KeyOf(e).category /\ l.amount = Amount(InKey(own, KeyOf(e)))
    BY <2>2 DEF LineOf
  <2>4. KeyOf(e) \in G
    BY <1>2, <1>4, <2>1, <2>3
  <2>5. KeyOf(e) \in Z
    BY <1>6, <1>12, <2>2, <2>3, <2>4
  <2> QED
    BY <1>7, <2>2, <2>5
<1>15. ASSUME NEW g \in Z PROVE line[g] \in L
  <2>1. g \in G
    BY <1>6
  <2>2. PICK e \in S : g = KeyOf(e)
    BY <1>4, <2>1
  <2>3. e \in own
    BY <1>2
  <2>4. line[g] \in LinesOf(own)
    BY <1>7, <1>13, <2>2, <2>3, LinesAre
  <2> QED
    BY <1>9, <1>11, <1>13, <2>1, <2>4
<1>16. L = {line[g] : g \in Z}
  BY <1>14, <1>15
<1>17. ASSUME NEW g \in Z, NEW k \in Z, line[g] = line[k] PROVE g = k
  <2>1. g.category = k.category /\ g.fee = k.fee
    BY <1>13, <1>17
  <2>2. PICK d, e \in S : g = KeyOf(d) /\ k = KeyOf(e)
    BY <1>4, <1>6
  <2> QED
    BY <2>1, <2>2 DEF KeyOf
<1>18. Z \subseteq G /\ \A g \in G \ Z : h[g] = 0
  BY <1>6
<1>19. IsFiniteSet(Z)
  BY <1>10, <1>18, FS_Subset
<1>20. IsFiniteSet(L)
  BY <1>16, <1>19, FiniteImage
<1>21. \A l \in L : l.amount \in Int
  BY <1>6, <1>12, <1>13, <1>14
<1>22. SumOf(h, G) = SumOf(q, S)
  <2>1. \A x \in S : f[x] \in G
    BY <1>3, <1>4
  <2> QED
    BY <1>1, <1>5, <1>10, <2>1, SumGrouped
<1>23. SumOf(h, G) = SumOf(h, Z)
  BY <1>10, <1>12, <1>18, SumZeros
<1>24. SumOf(p, L) = SumOf(h, Z)
  <2>1. \A g \in Z : p[line[g]] \in Int /\ h[g] = p[line[g]]
    BY <1>8, <1>13, <1>15, <1>21
  <2>2. IsFiniteSet({line[g] : g \in Z})
    BY <1>16, <1>20
  <2>3. SumOf(p, {line[g] : g \in Z}) = SumOf(h, Z)
    BY <1>17, <1>19, <2>1, <2>2, SumRenamed
  <2> QED
    BY <1>16, <2>3
<1>25. Amount(L) = SumOf(p, L)
  BY <1>8, <1>20, AmountIsSum
<1>26. Amount(S) = SumOf(q, S)
  BY <1>1, AmountIsSum
<1> QED
  BY <1>a, <1>20, <1>21, <1>22, <1>23, <1>24, <1>25, <1>26

-------------------------------------------------------------------------------
(* The ranking has an order. *)

\* A row that can be placed.
RowOK(row) == row.cost_known \in BOOLEAN /\ row.kept \in Int

\* Rows are above each other by whether their cost is known, and then by what they kept.
LEMMA AboveKept ==
  ASSUME NEW a, NEW b, RowOK(a), RowOK(b)
  PROVE  Above(a, b, "kept") <=> IF a.cost_known # b.cost_known THEN a.cost_known
                                 ELSE a.cost_known /\ a.kept > b.kept
<1>1. /\ Figure(a, "kept") = IF a.cost_known THEN a.kept ELSE 0
      /\ Figure(b, "kept") = IF b.cost_known THEN b.kept ELSE 0
  BY DEF Figure
<1>2. a.cost_known \in BOOLEAN /\ b.cost_known \in BOOLEAN
  BY DEF RowOK
<1>3. Above(a, b, "kept") = IF (~a.cost_known) # (~b.cost_known) THEN ~b.cost_known
                            ELSE Figure(a, "kept") > Figure(b, "kept")
  BY DEF Above
<1>4. CASE a.cost_known # b.cost_known
  BY <1>2, <1>3, <1>4
<1>5. CASE a.cost_known /\ b.cost_known
  BY <1>1, <1>3, <1>5
<1>6. CASE ~a.cost_known /\ ~b.cost_known
  <2>1. Figure(a, "kept") = 0 /\ Figure(b, "kept") = 0
    BY <1>1, <1>6
  <2>2. ~(0 > 0)
    OBVIOUS
  <2>3. a.cost_known = b.cost_known
    BY <1>2, <1>6
  <2> QED
    BY <1>3, <1>6, <2>1, <2>2, <2>3
<1> QED
  BY <1>2, <1>4, <1>5, <1>6

\* It is a weak order.
LEMMA AboveOrders ==
  ASSUME NEW a, NEW b, NEW c, RowOK(a), RowOK(b), RowOK(c)
  PROVE  /\ ~Above(a, a, "kept")
         /\ Above(a, b, "kept") => ~Above(b, a, "kept")
         /\ ~Above(a, b, "kept") /\ ~Above(b, c, "kept") => ~Above(a, c, "kept")
BY AboveKept DEF RowOK

\* The last of finitely many rows.
LEMMA LastRow ==
  ASSUME NEW rows, IsFiniteSet(rows), rows # {}, \A r \in rows : RowOK(r)
  PROVE  \E z \in rows : \A r \in rows : ~Above(z, r, "kept")
<1> DEFINE Last(R, z) == z \in R /\ \A r \in R : ~Above(z, r, "kept")
           T == {R \in SUBSET rows : R # {} /\ ~ \E z : Last(R, z)}
<1>1. ASSUME T # {} PROVE FALSE
  <2>1. PICK R \in T : \A t \in T : t \subseteq R => t = R
    <3>1. T \subseteq SUBSET rows
      OBVIOUS
    <3> HIDE DEF T
    <3> QED
      BY <1>1, <3>1, Smallest
  <2>2. R # {} /\ \A z : ~Last(R, z)
    BY <2>1
  <2> DEFINE x == OneOf(R)
             rest == R \ {x}
  <2>3. x \in R /\ x \in rows /\ rest \in SUBSET rows /\ rest \notin T
    BY <2>1, <2>2, OneIn
  <2>4. rest # {}
    <3>1. ASSUME rest = {} PROVE FALSE
      <4>1. \A r \in R : r = x
        BY <3>1
      <4>2. ~Above(x, x, "kept")
        BY <2>3, AboveOrders
      <4> QED
        BY <2>2, <2>3, <4>1, <4>2
    <3> QED
      BY <3>1
  <2>5. PICK y : Last(rest, y)
    BY <2>3, <2>4
  <2>6. CASE Above(x, y, "kept")
    <3>1. ~Above(y, x, "kept")
      BY <2>3, <2>5, <2>6, AboveOrders
    <3>2. Last(R, y)
      BY <2>5, <3>1
    <3> QED
      BY <2>2, <3>2
  <2>7. CASE ~Above(x, y, "kept")
    <3>1. ASSUME NEW r \in R PROVE ~Above(x, r, "kept")
      <4>1. CASE r = x
        BY <2>3, <4>1, AboveOrders
      <4>2. CASE r # x
        <5>1. ~Above(y, r, "kept") /\ y \in rows /\ r \in rows
          BY <2>1, <2>5, <4>2
        <5> QED
          BY <2>3, <2>7, <5>1, AboveOrders
      <4> QED
        BY <4>1, <4>2
    <3> QED
      BY <2>2, <2>3, <3>1
  <2> QED
    BY <2>6, <2>7
<1>2. T = {}
  BY <1>1
<1> QED
  BY <1>2

\* The rows in an order that the ranking allows.
InRank(R, s) ==
  /\ s \in [1 .. Cardinality(R) -> R]
  /\ IsInjective(s)
  /\ \A i, j \in DOMAIN s : Above(s[i], s[j], "kept") => i < j

\* Finitely many rows have an order that the ranking allows.
LEMMA RankExists ==
  ASSUME NEW rows, IsFiniteSet(rows), \A r \in rows : RowOK(r)
  PROVE  \E s : InRank(rows, s)
<1> DEFINE T == {R \in SUBSET rows : ~ \E s : InRank(R, s)}
<1>1. ASSUME T # {} PROVE FALSE
  <2>1. PICK R \in T : \A t \in T : t \subseteq R => t = R
    <3>1. T \subseteq SUBSET rows
      OBVIOUS
    <3> HIDE DEF T
    <3> QED
      BY <1>1, <3>1, Smallest
  <2>2. R \in SUBSET rows /\ \A s : ~InRank(R, s)
    BY <2>1
  <2>3. IsFiniteSet(R) /\ Cardinality(R) \in Nat
    BY <2>2, FS_Subset, FS_CardinalityType
  <2>4. R # {}
    <3>1. ASSUME R = {} PROVE FALSE
      <4>1. Cardinality(R) = 0
        BY <3>1, FS_EmptySet
      <4>2. 1 .. 0 = {}
        OBVIOUS
      <4>3. InRank(R, [i \in {} |-> 0])
        BY <3>1, <4>1, <4>2 DEF InRank, IsInjective, Injection
      <4> QED
        BY <2>2, <4>3
    <3> QED
      BY <3>1
  <2>5. PICK z \in R : \A r \in R : ~Above(z, r, "kept")
    BY <2>2, <2>3, <2>4, LastRow
  <2> DEFINE rest == R \ {z}
             n == Cardinality(R)
  <2>6. IsFiniteSet(rest) /\ Cardinality(rest) = n - 1
    BY <2>3, FS_RemoveElement
  <2>7. n \in Nat /\ n # 0
    BY <2>3, <2>4, FS_EmptySet
  <2>8. rest \notin T /\ rest \in SUBSET rows
    BY <2>1, <2>2
  <2>9. PICK s : InRank(rest, s)
    BY <2>8
  <2> DEFINE p == [i \in 1 .. n |-> IF i = n THEN z ELSE s[i]]
  <2>10. s \in [1 .. (n - 1) -> rest] /\ IsInjective(s) /\ \A i, j \in 1 .. (n - 1) : Above(s[i], s[j], "kept") => i < j
    BY <2>6, <2>9 DEF InRank
  <2>11. \A i, j \in 1 .. (n - 1) : s[i] = s[j] => i = j
    BY <2>10 DEF IsInjective, Injection
  <2>a. n = Cardinality(R) /\ \A r : r \in rest <=> r \in R /\ r # z
    OBVIOUS
  <2> HIDE DEF rest, n
  <2>12. DOMAIN p = 1 .. n /\ p[n] = z /\ \A i \in 1 .. n : i # n => p[i] = s[i] /\ p[i] \in rest /\ i \in 1 .. (n - 1)
    BY <2>7, <2>10
  <2>b. p = [i \in 1 .. n |-> p[i]]
    OBVIOUS
  <2> HIDE DEF p
  <2>13. \A i \in 1 .. n : p[i] \in R
    BY <2>12, <2>a, <2>5
  <2>14. ASSUME NEW i \in 1 .. n, NEW j \in 1 .. n, p[i] = p[j] PROVE i = j
    BY <2>11, <2>12, <2>14, <2>a
  <2>15. ASSUME NEW i \in 1 .. n, NEW j \in 1 .. n, Above(p[i], p[j], "kept") PROVE i < j
    <3>1. i # n
      BY <2>5, <2>12, <2>13, <2>15
    <3>2. CASE j = n
      BY <2>7, <3>1, <3>2
    <3>3. CASE j # n
      BY <2>10, <2>12, <2>15, <3>1, <3>3
    <3> QED
      BY <3>2, <3>3
  <2>16. p \in [1 .. Cardinality(R) -> R]
    BY <2>b, <2>13, <2>a
  <2>17. IsInjective(p)
    BY <2>12, <2>14 DEF IsInjective, Injection
  <2>18. InRank(R, p)
    BY <2>12, <2>15, <2>16, <2>17 DEF InRank
  <2> QED
    BY <2>2, <2>18
<1>2. T = {}
  BY <1>1
<1> QED
  BY <1>2

\* A page of the ranking has rows of it.
LEMMA RankedPage ==
  ASSUME NEW rows, IsFiniteSet(rows), \A r \in rows : RowOK(r), NEW loose, NEW limit, NEW offset
  PROVE  Ranked(rows, loose, "kept", limit, offset).products \subseteq rows
<1> DEFINE order == CHOOSE s \in [1 .. Cardinality(rows) -> rows] :
                      /\ IsInjective(s)
                      /\ \A i, j \in DOMAIN s : Above(s[i], s[j], "kept") => i < j
<1>1. order \in [1 .. Cardinality(rows) -> rows]
  BY RankExists DEF InRank
<1>2. Ranked(rows, loose, "kept", limit, offset).products
        = {order[i] : i \in {i \in DOMAIN order : offset < i /\ i <= offset + limit}}
  BY DEF Ranked
<1> HIDE DEF order
<1> QED
  BY <1>1, <1>2

-------------------------------------------------------------------------------
(* The sections of a detail. *)

\* What is in a section of a product that sold, and what the sections come to so far.
CostLine(lines, row) ==
  [category |-> "cost_of_goods_sold", fee |-> None, amount |-> -RetainedOf(row, lines)]
SectionOf(lines, row, i) ==
  Within(lines, SECTIONS[i].categories)
    \cup IF SECTIONS[i].key = "your_costs" /\ row.cost_known THEN {CostLine(lines, row)} ELSE {}
Reached(lines, row, i) == MapThenSumSet(LAMBDA j : Amount(SectionOf(lines, row, j)), 1 .. i)

\* The sections shown are those with lines.
LEMMA DetailedIs ==
  ASSUME NEW lines, NEW row
  PROVE  LET d == Detailed(lines, row)
         IN  /\ d.row = row
             /\ DOMAIN d.sections = {i \in DOMAIN SECTIONS : SectionOf(lines, row, i) # {}}
             /\ \A i \in DOMAIN d.sections : d.sections[i].subtotal = Reached(lines, row, i)
<1> DEFINE each(amount) == amount \div Max({row.units, 1})
<1>1. Detailed(lines, row) =
        [row      |-> row,
         sections |-> [i \in {i \in DOMAIN SECTIONS : SectionOf(lines, row, i) # {}} |->
                         [lines |-> SectionOf(lines, row, i), subtotal |-> Reached(lines, row, i),
                          per_unit |-> {[l EXCEPT !.amount = each(@)] : l \in SectionOf(lines, row, i)},
                          subtotal_per_unit |-> each(Reached(lines, row, i))]]]
  BY Zenon DEF Detailed, SectionOf, Reached, CostLine
<1> HIDE DEF each
<1> QED
  BY <1>1

\* What the sections come to is a sum.
LEMMA ReachedIsSum ==
  ASSUME NEW lines, NEW row, NEW i \in Nat, NEW q, \A j \in 1 .. i : q[j] = Amount(SectionOf(lines, row, j))
  PROVE  Reached(lines, row, i) = SumOf(q, 1 .. i)
<1> DEFINE S == 1 .. i
           P(h) == h = [s \in SUBSET S |->
                    IF s = {} THEN 0
                    ELSE Amount(SectionOf(lines, row, CHOOSE x \in s : TRUE)) + h[s \ {CHOOSE x \in s : TRUE}]]
<1>1. ASSUME NEW h PROVE P(h) <=> Adds(q, S, h)
  <2>1. \A s \in SUBSET S : s # {} => q[OneOf(s)] = Amount(SectionOf(lines, row, OneOf(s)))
    BY OneIn
  <2> QED
    BY <2>1 DEF Adds, OneOf
<1>2. Reached(lines, row, i) = (CHOOSE h : P(h))[S]
  BY DEF P, Reached, MapThenSumSet, MapThenFoldSet
<1>3. IsFiniteSet(S)
  BY FS_Interval
<1> HIDE DEF P
<1>4. P(TheSums(q, S))
  BY <1>1, <1>3, TheOnlySums
<1>5. Adds(q, S, CHOOSE h : P(h))
  BY <1>1, <1>4
<1> QED
  BY <1>2, <1>3, <1>5, TheOnlySums DEF SumOf

\* The sections of a product whose cost is known come to what its lines have of what counts as
\* proceeds, less what the row says of it, and to what the row kept.
LEMMA SectionsReach ==
  ASSUME NEW own, IsFiniteSet(own), \A e \in own : e.amount \in Int /\ e.category # "seller_shipping",
         NEW row, row.cost_known = TRUE, row.kept \in Int, row.net_proceeds \in Int,
         NEW i \in {3, 4},
         i = 3 => SectionOf(LinesOf(own), row, 4) = {}
  PROVE  Reached(LinesOf(own), row, i)
           = (Amount(Within(own, SECTIONS[1].categories)) + Amount(Within(own, SECTIONS[2].categories)))
               - row.net_proceeds + row.kept
<1> DEFINE lines == LinesOf(own)
           part(j) == SectionOf(lines, row, j)
           a(j) == Amount(Within(own, SECTIONS[j].categories))
           q == [j \in 1 .. 4 |-> Amount(part(j))]
<1>1. \A j \in 1 .. 4 : a(j) \in Int /\ Amount(Within(lines, SECTIONS[j].categories)) = a(j)
  <2>1. ASSUME NEW C PROVE Amount(Within(own, C)) \in Int
    <3>1. Within(own, C) \in SUBSET own
      BY DEF Within
    <3>2. IsFiniteSet(Within(own, C)) /\ \A e \in Within(own, C) : e.amount \in Int
      BY <3>1, FS_Subset
    <3> QED
      BY <3>2, AmountType
  <2>2. ASSUME NEW C PROVE Amount(Within(lines, C)) = Amount(Within(own, C))
    BY LinesAddUp
  <2> QED
    BY <2>1, <2>2
<1>2. q[1] = a(1) /\ q[2] = a(2) /\ q[4] = a(4)
  <2>1. ASSUME NEW j \in {1, 2, 4} PROVE part(j) = Within(lines, SECTIONS[j].categories)
    <3>1. SECTIONS[j].key # "your_costs"
      BY SectionsAre
    <3> QED
      BY <3>1 DEF SectionOf
  <2>2. q[1] = Amount(part(1)) /\ q[2] = Amount(part(2)) /\ q[4] = Amount(part(4))
    OBVIOUS
  <2> HIDE DEF q, part, lines, a
  <2>3. ASSUME NEW j \in {1, 2, 4} PROVE Amount(part(j)) = a(j)
    BY <1>1, <2>1
  <2> QED
    BY <2>2, <2>3
<1>3. q[3] = -(row.net_proceeds - row.kept + a(4))
  <2>1. Within(lines, SECTIONS[3].categories) = {}
    <3>1. \A l \in lines : l.category # "seller_shipping"
      <4>1. ASSUME NEW l \in lines PROVE l.category # "seller_shipping"
        <5>1. PICK e \in own : l = LineOf(own, KeyOf(e))
          BY LinesAre
        <5>2. l.category = e.category
          BY <5>1 DEF LineOf, KeyOf
        <5> QED
          BY <5>2
      <4> QED
        BY <4>1
    <3> QED
      BY <3>1, SectionsAre DEF Within
  <2> DEFINE l == CostLine(lines, row)
             one == [x \in {l} |-> l.amount]
  <2>2. part(3) = {l}
    BY <2>1, SectionsAre DEF SectionOf
  <2>3. l.amount = -(row.net_proceeds - row.kept + a(4))
    <3>1. Amount(Within(lines, {"return_shipping", "stock_written_off"})) = a(4)
      <4>1. Amount(Within(lines, SECTIONS[4].categories)) = a(4)
        BY <1>1
      <4> QED
        BY <4>1, SectionsAre
    <3>2. RetainedOf(row, lines) = row.net_proceeds - row.kept + a(4)
      BY <3>1 DEF RetainedOf
    <3> QED
      BY <3>2 DEF CostLine
  <2>4. l.amount \in Int
    BY <1>1, <2>3
  <2>5. \A x \in {l} : one[x] = x.amount
    OBVIOUS
  <2>6. q[3] = Amount(part(3))
    OBVIOUS
  <2> HIDE DEF l, one, part, q
  <2>7. IsFiniteSet({l})
    BY FS_Singleton
  <2>8. Amount({l}) = SumOf(one, {l})
    BY <2>5, <2>7, AmountIsSum
  <2>9. SumOf(one, {l}) = l.amount + SumOf(one, {})
    <3>1. {l} \ {l} = {} /\ l \in {l}
      OBVIOUS
    <3>2. \A x \in {l} : one[x] \in Int
      BY <2>4, <2>5
    <3>3. one[l] = l.amount
      BY <2>5
    <3> QED
      BY <2>7, <3>1, <3>2, <3>3, SumAny
  <2>10. SumOf(one, {}) = 0
    BY SumNothing
  <2>11. q[3] = SumOf(one, {l})
    BY <2>2, <2>6, <2>8
  <2>12. SumOf(one, {l}) = l.amount
    BY <2>4, <2>9, <2>10
  <2> QED
    BY <2>3, <2>11, <2>12
<1>4. i = 3 => a(4) = 0
  <2>1. ASSUME i = 3 PROVE Within(lines, SECTIONS[4].categories) = {}
    BY <2>1, SectionsAre DEF SectionOf
  <2>2. Amount({}) = 0
    <3> DEFINE q0 == [x \in {} |-> 0]
    <3>1. \A e \in {} : q0[e] = e.amount
      OBVIOUS
    <3> HIDE DEF q0
    <3> QED
      BY <3>1, FS_EmptySet, AmountIsSum, SumNothing
  <2> QED
    BY <1>1, <2>1, <2>2
<1>5. Reached(lines, row, i) = SumOf(q, 1 .. i)
  <2>1. \A j \in 1 .. i : q[j] = Amount(SectionOf(lines, row, j))
    OBVIOUS
  <2> HIDE DEF q
  <2> QED
    BY <2>1, ReachedIsSum
<1>a. \A j \in 1 .. 4 : a(j) = Amount(Within(own, SECTIONS[j].categories))
  OBVIOUS
<1> HIDE DEF q, a, part, lines
<1>6. \A j \in 1 .. 4 : q[j] \in Int
  <2>1. a(1) \in Int /\ a(2) \in Int /\ a(4) \in Int
    BY <1>1
  <2>2. \A j \in 1 .. 4 : j = 1 \/ j = 2 \/ j = 3 \/ j = 4
    OBVIOUS
  <2> QED
    BY <1>2, <1>3, <2>1, <2>2
<1>7. \A n \in 1 .. 4 : SumOf(q, 1 .. n) = q[n] + SumOf(q, 1 .. (n - 1)) /\ SumOf(q, 1 .. n) \in Int
  <2>1. ASSUME NEW n \in 1 .. 4 PROVE SumOf(q, 1 .. n) = q[n] + SumOf(q, 1 .. (n - 1)) /\ SumOf(q, 1 .. n) \in Int
    <3>1. n \in 1 .. n /\ (1 .. n) \ {n} = 1 .. (n - 1)
      OBVIOUS
    <3>a. IsFiniteSet(1 .. n)
      BY FS_Interval
    <3>2. \A x \in 1 .. n : q[x] \in Int
      BY <1>6
    <3>3. SumOf(q, 1 .. n) = q[n] + SumOf(q, (1 .. n) \ {n})
      BY <3>1, <3>a, <3>2, SumAny
    <3> QED
      BY <3>1, <3>a, <3>2, <3>3, SumType
  <2> QED
    BY <2>1
<1>8. SumOf(q, 1 .. 0) = 0
  <2>1. 1 .. 0 = {}
    OBVIOUS
  <2> QED
    BY <2>1, SumNothing
<1>9. SumOf(q, 1 .. 3) = q[1] + q[2] + q[3] /\ SumOf(q, 1 .. 4) = q[1] + q[2] + q[3] + q[4]
  <2>1. /\ SumOf(q, 1 .. 1) = q[1] + SumOf(q, 1 .. 0)
        /\ SumOf(q, 1 .. 2) = q[2] + SumOf(q, 1 .. 1)
        /\ SumOf(q, 1 .. 3) = q[3] + SumOf(q, 1 .. 2)
        /\ SumOf(q, 1 .. 4) = q[4] + SumOf(q, 1 .. 3)
    BY <1>7
  <2> QED
    BY <1>6, <1>8, <2>1
<1>10. a(1) \in Int /\ a(2) \in Int /\ a(4) \in Int
  BY <1>1
<1>11. SumOf(q, 1 .. i) = (a(1) + a(2)) - row.net_proceeds + row.kept
  <2>1. CASE i = 3
    BY <1>2, <1>3, <1>4, <1>9, <1>10, <2>1
  <2>2. CASE i = 4
    BY <1>2, <1>3, <1>9, <1>10, <2>2
  <2> QED
    BY <2>1, <2>2
<1> QED
  BY <1>5, <1>11, <1>a DEF lines

-------------------------------------------------------------------------------
(* A product's row and its detail. *)

\* The entries of a product in a period.
OwnOf(d, period, product) == {e \in Scoped(d, period) : ProductOf[e.sku] = product}

\* They can be added up, and none is of what the seller pays for shipping.
LEMMA OwnFigures ==
  ASSUME NEW d, TablesOK(d), FiguresOK(d), NEW period, NEW product
  PROVE  /\ IsFiniteSet(OwnOf(d, period, product))
         /\ \A e \in OwnOf(d, period, product) :
              e.amount \in Int /\ e.category \in VariantCategory /\ e.type = ENTRY_TYPE(e.category)
<1>1. OwnOf(d, period, product) \in SUBSET d.ledger /\ IsFiniteSet(d.ledger)
  BY DEF OwnOf, Scoped, TablesOK
<1>2. ASSUME NEW e \in OwnOf(d, period, product)
      PROVE  e.amount \in Int /\ e.category \in VariantCategory /\ e.type = ENTRY_TYPE(e.category)
  <2>1. e \in d.ledger /\ e.sku # None
    BY DEF OwnOf, Scoped
  <2>2. Addable(e)
    BY <2>1, FiguresAre
  <2> QED
    BY <2>1, <2>2 DEF Addable
<1> QED
  BY <1>1, <1>2, FS_Subset

\* Some of them add up to a number.
LEMMA SomeOfOwn ==
  ASSUME NEW d, TablesOK(d), FiguresOK(d), NEW period, NEW product,
         NEW S, S \subseteq OwnOf(d, period, product)
  PROVE  IsFiniteSet(S) /\ Amount(S) \in Int
<1>1. IsFiniteSet(S) /\ \A e \in S : e.amount \in Int
  BY OwnFigures, FS_Subset
<1> QED
  BY <1>1, AmountType

\* What counts as proceeds is in the first two sections.
LEMMA ProceedsOf ==
  ASSUME NEW d, TablesOK(d), FiguresOK(d), NEW period, NEW product
  PROVE  LET own == OwnOf(d, period, product)
         IN  Amount({e \in own : e.type \in NET_PROCEEDS_TYPES})
               = Amount(Within(own, SECTIONS[1].categories)) + Amount(Within(own, SECTIONS[2].categories))
<1> DEFINE own == OwnOf(d, period, product)
           A == Within(own, SECTIONS[1].categories)
           B == Within(own, SECTIONS[2].categories)
           q == [e \in A \cup B |-> e.amount]
<1>1. {e \in own : e.type \in NET_PROCEEDS_TYPES} = A \cup B
  <2>1. ASSUME NEW e \in own PROVE e.type \in NET_PROCEEDS_TYPES <=> e \in A \cup B
    <3>1. e.category \in VariantCategory /\ e.type = ENTRY_TYPE(e.category)
      BY OwnFigures
    <3>2. e.type \in NET_PROCEEDS_TYPES <=> e.category \in SECTIONS[1].categories \cup SECTIONS[2].categories
      BY <3>1, TypesAre
    <3> QED
      BY <3>2 DEF Within
  <2>2. A \subseteq own /\ B \subseteq own
    BY DEF Within
  <2> QED
    BY <2>1, <2>2
<1>2. A \cap B = {}
  <2>1. SECTIONS[1].categories \cap SECTIONS[2].categories = {}
    BY SectionsAre DEF TIKTOK_FEES
  <2> QED
    BY <2>1 DEF Within
<1>3. IsFiniteSet(A) /\ IsFiniteSet(B) /\ IsFiniteSet(A \cup B) /\ \A e \in A \cup B : e.amount \in Int
  <2>1. A \subseteq own /\ B \subseteq own
    BY DEF Within
  <2> QED
    BY <2>1, OwnFigures, FS_Subset, FS_Union
<1>4. \A e \in A \cup B : q[e] = e.amount
  OBVIOUS
<1> HIDE DEF A, B, q
<1>5. SumOf(q, A \cup B) = SumOf(q, A) + SumOf(q, B)
  BY <1>2, <1>3, <1>4, SumUnion
<1>6. Amount(A \cup B) = SumOf(q, A \cup B) /\ Amount(A) = SumOf(q, A) /\ Amount(B) = SumOf(q, B)
  BY <1>3, <1>4, AmountIsSum
<1> QED
  BY <1>1, <1>5, <1>6 DEF A, B

\* A row can be placed, and says what its product's entries come to.
LEMMA RowFigures ==
  ASSUME NEW d, TablesOK(d), FiguresOK(d), NEW period, NEW product
  PROVE  LET row == ProductRow(d, period, product)
             own == OwnOf(d, period, product)
         IN  /\ RowOK(row) /\ row.product = product /\ row.net_proceeds \in Int
             /\ row.net_proceeds
                  = Amount(Within(own, SECTIONS[1].categories)) + Amount(Within(own, SECTIONS[2].categories))
<1> DEFINE own == OwnOf(d, period, product)
           np == Amount({e \in own : e.type \in NET_PROCEEDS_TYPES})
           lost == Amount({e \in own : e.type \in RETURN_LOSS_TYPES})
           row == ProductRow(d, period, product)
<1>1. np \in Int /\ lost \in Int
  BY SomeOfOwn
<1>2. Retained(d, period, product) \in Int
  BY RetainedType
<1>3. /\ row.product = product /\ row.net_proceeds = np
      /\ row.kept = np - Retained(d, period, product) + lost
      /\ row.cost_known = (SkusSold(d, period, product) # {} /\ WithoutCost(d, period, product) = {})
  BY DEF ProductRow, OwnOf
<1>4. row.cost_known \in BOOLEAN
  BY <1>3
<1> HIDE DEF np, lost, row, own
<1>5. RowOK(row)
  BY <1>1, <1>2, <1>3, <1>4 DEF RowOK
<1> QED
  BY <1>1, <1>3, <1>5, ProceedsOf DEF row, own, np

\* The headline of a product whose cost is known is its row.
LEMMA HeadlineIs ==
  ASSUME NEW d, TablesOK(d), FiguresOK(d), NEW looseDb, NEW period, NEW product, NEW limit,
         Headline(Ranking(d, looseDb, period, "kept", limit, 0), product).cost_known
  PROVE  Headline(Ranking(d, looseDb, period, "kept", limit, 0), product) = ProductRow(d, period, product)
<1> DEFINE rows == ProductRows(d, period)
           ranking == Ranking(d, looseDb, period, "kept", limit, 0)
           found == {row \in ranking.products : row.product = product}
<1>1. IsFiniteSet(rows)
  <2> DEFINE S == Scoped(d, period)
             f == [e \in S |-> ProductRow(d, period, ProductOf[e.sku])]
  <2>1. S \in SUBSET d.ledger /\ IsFiniteSet(d.ledger)
    BY DEF Scoped, TablesOK
  <2>2. rows = {f[e] : e \in S}
    BY DEF ProductRows
  <2> HIDE DEF S, f, rows
  <2> QED
    BY <2>1, <2>2, FS_Subset, FiniteImage
<1>2. ASSUME NEW row \in rows PROVE RowOK(row) /\ row = ProductRow(d, period, row.product)
  <2>1. PICK p : row = ProductRow(d, period, p)
    BY DEF ProductRows
  <2> QED
    BY <2>1, RowFigures
<1>3. ranking.products \subseteq rows
  <2> HIDE DEF rows
  <2>1. \A loose : Ranked(rows, loose, "kept", limit, 0).products \subseteq rows
    BY <1>1, <1>2, RankedPage
  <2> QED
    BY <2>1 DEF Ranking, rows
<1>4. CASE found = {}
  BY <1>4 DEF Headline
<1>5. CASE found # {}
  <2>1. PICK row \in found : Headline(ranking, product) = row
    BY <1>5 DEF Headline
  <2> HIDE DEF ranking, rows
  <2>2. row \in rows /\ row.product = product
    BY <1>3
  <2> QED
    BY <1>2, <2>1, <2>2 DEF ranking
<1> QED
  BY <1>4, <1>5

\* A detail read of one ledger ends at its headline.
LEMMA DetailEnds ==
  ASSUME NEW linesDb, TablesOK(linesDb), FiguresOK(linesDb),
         NEW rowsDb, TablesOK(rowsDb), FiguresOK(rowsDb), linesDb.ledger = rowsDb.ledger,
         NEW looseDb, NEW period, NEW product,
         Detail(linesDb, rowsDb, looseDb, period, product).row.cost_known
  PROVE  LET shown == Detail(linesDb, rowsDb, looseDb, period, product)
         IN  shown.sections[Max(DOMAIN shown.sections)].subtotal = shown.row.kept
<1> DEFINE own == OwnOf(linesDb, period, product)
           row == Headline(Ranking(rowsDb, looseDb, period, "kept", MAX_LIMIT, 0), product)
           lines == LinesOf(own)
           shown == Detail(linesDb, rowsDb, looseDb, period, product)
           seen == DOMAIN shown.sections
<1>1. shown = Detailed(lines, row)
  BY DEF Detail, OwnOf
<1>2. /\ shown.row = row
      /\ seen = {i \in DOMAIN SECTIONS : SectionOf(lines, row, i) # {}}
      /\ \A i \in seen : shown.sections[i].subtotal = Reached(lines, row, i)
  BY <1>1, DetailedIs
<1>3. row = ProductRow(rowsDb, period, product)
  BY <1>2, HeadlineIs
<1>4. own = OwnOf(rowsDb, period, product)
  BY DEF OwnOf, Scoped
<1>5. /\ RowOK(row) /\ row.net_proceeds \in Int
      /\ row.net_proceeds
           = Amount(Within(own, SECTIONS[1].categories)) + Amount(Within(own, SECTIONS[2].categories))
  BY <1>3, <1>4, RowFigures
<1>6. row.cost_known = TRUE /\ row.kept \in Int
  BY <1>2, <1>5 DEF RowOK
<1>7. IsFiniteSet(own) /\ \A e \in own : e.amount \in Int /\ e.category # "seller_shipping"
  <2>1. "seller_shipping" \notin VariantCategory
    BY VariantCategoriesAre, SectionsAre DEF TIKTOK_FEES
  <2> QED
    BY <2>1, OwnFigures
<1>8. 3 \in seen /\ seen \subseteq 1 .. 4
  <2>1. SectionOf(lines, row, 3) # {}
    BY <1>6, SectionsAre DEF SectionOf
  <2> QED
    BY <1>2, <2>1, SectionsAre
<1>9. 4 \notin seen => SectionOf(lines, row, 4) = {}
  BY <1>2, SectionsAre
<1> DEFINE last == IF 4 \in seen THEN 4 ELSE 3
<1>a. \A i \in {3, 4} : (i = 3 => SectionOf(lines, row, 4) = {}) =>
        Reached(lines, row, i)
           = (Amount(Within(own, SECTIONS[1].categories)) + Amount(Within(own, SECTIONS[2].categories)))
               - row.net_proceeds + row.kept
  <2> HIDE DEF own, row
  <2> QED
    BY <1>5, <1>6, <1>7, SectionsReach
<1> HIDE DEF seen
<1>10. Max(seen) = last
  <2>1. last \in seen /\ \A i \in seen : last >= i
    BY <1>8
  <2>2. \A i \in seen : (\A j \in seen : i >= j) => i = last
    BY <1>8, <2>1
  <2> HIDE DEF last
  <2> QED
    BY <2>1, <2>2 DEF Max
<1> HIDE DEF shown, lines, row, own
<1>11. last \in {3, 4} /\ last \in seen /\ (last = 3 => SectionOf(lines, row, 4) = {})
  BY <1>8, <1>9
<1> HIDE DEF last
<1>12. shown.sections[last].subtotal = Reached(lines, row, last)
  BY <1>2, <1>11
<1>13. Reached(lines, row, last) = row.kept
  <2>1. Reached(lines, row, last) = row.net_proceeds - row.net_proceeds + row.kept
    <3>1. Reached(lines, row, last)
           = (Amount(Within(own, SECTIONS[1].categories)) + Amount(Within(own, SECTIONS[2].categories)))
               - row.net_proceeds + row.kept
      BY <1>11, <1>a
    <3> QED
      BY <1>5, <3>1
  <2> QED
    BY <1>5, <1>6, <2>1
<1> QED
  BY <1>2, <1>10, <1>12, <1>13 DEF shown, seen

-------------------------------------------------------------------------------
(* Details are answered from books that add up. *)

\* At the start the books can be added up, and nothing has been shown.
LEMMA DetailInit == ASSUME Init PROVE DetailInv
<1>1. commits = <<Start>> /\ reader.asks = None
  BY DEF Init, NoReader
<1> QED
  BY <1>1, BooksAssumption DEF BooksAssumption, DetailInv

\* A commit keeps them, and what a detail was read from stays what it was.
LEMMA CommitDetail == ASSUME PagingInv, DetailInv, Commit PROVE DetailInv'
<1>1. PICK tables : commits' = Append(commits, tables) /\ UNCHANGED reader
  BY CommitOK DEF PagingInv
<1>2. /\ DOMAIN commits = 1 .. Len(commits) /\ Len(commits) \in Nat /\ Len(commits) > 0
      /\ DOMAIN commits' = 1 .. Len(commits) + 1 /\ Len(commits') = Len(commits) + 1
      /\ \A i \in DOMAIN commits : commits'[i] = commits[i]
  BY <1>1, Growing DEF PagingInv, HistoryOK
<1>3. FiguresOK(db)'
  <2>1. FiguresOK(db)
    BY <1>2 DEF DetailInv, db
  <2> QED
    BY <2>1, CommitFigures DEF PagingInv
<1>4. ASSUME NEW i \in DOMAIN commits' PROVE FiguresOK(commits'[i])
  <2>1. CASE i \in DOMAIN commits
    BY <1>2, <2>1 DEF DetailInv
  <2>2. CASE i = Len(commits) + 1
    BY <1>2, <1>3, <2>2 DEF db
  <2> QED
    BY <1>2, <2>1, <2>2
<1>5. ASSUME reader.asks # None /\ reader.asks.op = "get_product", NEW i \in DOMAIN reader.shown
      PROVE  LET page == reader.shown[i]
             IN  /\ page.saw \in [1 .. 5 -> DOMAIN commits']
                 /\ page.answer = GetProduct([k \in 1 .. 5 |-> commits'[page.saw[k]]], reader.asks)
  <2> DEFINE page == reader.shown[i]
  <2>1. /\ page.saw \in [1 .. 5 -> DOMAIN commits]
        /\ page.answer = GetProduct([k \in 1 .. 5 |-> commits[page.saw[k]]], reader.asks)
    BY <1>5 DEF DetailInv
  <2>2. [k \in 1 .. 5 |-> commits'[page.saw[k]]] = [k \in 1 .. 5 |-> commits[page.saw[k]]]
    BY <1>2, <2>1
  <2>3. page.saw \in [1 .. 5 -> DOMAIN commits']
    BY <1>2, <2>1
  <2> QED
    BY <2>1, <2>2, <2>3
<1> QED
  BY <1>1, <1>4, <1>5 DEF DetailInv

\* A reply shows what the handler makes of the books that its statements saw.
LEMMA ReplyDetail == ASSUME PagingInv, DetailInv, Reply PROVE DetailInv'
<1> DEFINE q == reader.asks
           saw == [i \in DOMAIN reader.saw |-> commits[reader.saw[i]]]
           answer == Answer(q, saw, After)
<1>1. /\ commits' = commits /\ reader'.asks = q
      /\ reader'.shown = Append(reader.shown, [saw |-> reader.saw, answer |-> answer])
  BY DEF Reply, PagingInv, ReaderOK
<1> PICK m : m = Len(reader.shown)
  OBVIOUS
<1>2. /\ DOMAIN reader.shown = 1 .. m /\ m \in Nat /\ DOMAIN reader'.shown = 1 .. m + 1
      /\ reader'.shown[m + 1].saw = reader.saw /\ reader'.shown[m + 1].answer = answer
      /\ \A i \in 1 .. m : reader'.shown[i] = reader.shown[i]
  BY <1>1, Growing DEF PagingInv, ReaderOK
<1>3. ASSUME q # None /\ q.op = "get_product"
      PROVE  /\ reader.saw \in [1 .. 5 -> DOMAIN commits]
             /\ answer = GetProduct([k \in 1 .. 5 |-> commits[reader.saw[k]]], q)
  <2>1. Len(reader.saw) = 5
    BY <1>3 DEF Reply, Statements
  <2>2. reader.saw \in [1 .. 5 -> DOMAIN commits]
    <3>1. reader.saw \in Seq(DOMAIN commits)
      BY DEF PagingInv, ReaderOK
    <3>2. ASSUME NEW D, NEW s \in Seq(D), Len(s) = 5 PROVE s \in [1 .. 5 -> D]
      <4>1. Len(s) \in Nat /\ s \in [1 .. Len(s) -> D]
        OBVIOUS
      <4> QED
        BY <3>2, <4>1
    <3> QED
      BY <2>1, <3>1, <3>2
  <2>3. answer = GetProduct(saw, q)
    BY <1>3 DEF Answer
  <2> QED
    BY <2>2, <2>3
<1> HIDE DEF answer, saw
<1>4. ASSUME q # None /\ q.op = "get_product", NEW i \in 1 .. m + 1
      PROVE  LET page == reader'.shown[i]
             IN  /\ page.saw \in [1 .. 5 -> DOMAIN commits]
                 /\ page.answer = GetProduct([k \in 1 .. 5 |-> commits[page.saw[k]]], q)
  <2>1. CASE i = m + 1
    BY <1>2, <1>3, <1>4, <2>1
  <2>2. CASE i \in 1 .. m
    BY <1>2, <1>4, <2>2 DEF DetailInv
  <2> QED
    BY <1>2, <2>1, <2>2
<1> QED
  BY <1>1, <1>2, <1>4 DEF DetailInv

\* Every step keeps it.
LEMMA DetailStep == ASSUME PagingInv, DetailInv, [Next]_vars PROVE DetailInv'
<1>1. CASE UNCHANGED vars
  BY <1>1 DEF vars, DetailInv
<1>2. CASE Commit
  BY <1>2, CommitDetail
<1>3. ASSUME NEW q \in Question, Ask(q) PROVE DetailInv'
  <2>1. commits' = commits /\ reader'.shown = <<>>
    BY <1>3 DEF Ask, NoReader
  <2> QED
    BY <2>1 DEF DetailInv
<1>4. CASE Read
  <2>1. commits' = commits /\ reader'.asks = reader.asks /\ reader'.shown = reader.shown
    BY <1>4 DEF Read, PagingInv, ReaderOK
  <2> QED
    BY <2>1 DEF DetailInv
<1>5. CASE Reply
  BY <1>5, ReplyDetail
<1>6. CASE Leave
  <2>1. commits' = commits /\ reader'.asks = None
    BY <1>6 DEF Leave, NoReader
  <2> QED
    BY <2>1 DEF DetailInv
<1> QED
  BY <1>1, <1>2, <1>3, <1>4, <1>5, <1>6 DEF Next

\* So every detail ends at its headline, when both were read of one ledger.
LEMMA DetailsEnd == ASSUME PagingInv, DetailInv PROVE DetailEndsAtKept
<1> SUFFICES ASSUME reader.asks # None, reader.asks.op = "get_product", Done,
                    LastShown.answer.detail.row.cost_known,
                    commits[LastShown.saw[1]].ledger = commits[LastShown.saw[4]].ledger
             PROVE  LET shown == LastShown.answer.detail
                    IN  shown.sections[Max(DOMAIN shown.sections)].subtotal = shown.row.kept
  BY DEF DetailEndsAtKept
<1> DEFINE q == reader.asks
           saw == LastShown.saw
           read == [k \in 1 .. 5 |-> commits[saw[k]]]
<1>1. Len(reader.shown) \in DOMAIN reader.shown
  BY Growing DEF PagingInv, ReaderOK, Done
<1>2. saw \in [1 .. 5 -> DOMAIN commits] /\ LastShown.answer = GetProduct(read, q)
  BY <1>1 DEF DetailInv, LastShown
<1>3. LastShown.answer.detail = Detail(read[1], read[4], read[5], q.period, q.product)
  BY <1>2 DEF GetProduct
<1>4. /\ read[1] = commits[saw[1]] /\ read[4] = commits[saw[4]]
      /\ saw[1] \in DOMAIN commits /\ saw[4] \in DOMAIN commits
  BY <1>2
<1> HIDE DEF read, saw
<1>5. /\ TablesOK(read[1]) /\ FiguresOK(read[1]) /\ TablesOK(read[4]) /\ FiguresOK(read[4])
      /\ read[1].ledger = read[4].ledger
  BY <1>4 DEF PagingInv, HistoryOK, DetailInv, saw
<1> QED
  BY <1>3, <1>5, DetailEnds

\* A product's sections end at what its headline says is kept, for any books and questions.
THEOREM DetailEndsAtKeptHolds == Spec => []DetailEndsAtKept
<1>1. Init => PagingInv /\ DetailInv
  BY PagingInit, DetailInit
<1>2. PagingInv /\ DetailInv /\ [Next]_vars => (PagingInv /\ DetailInv)'
  BY PagingStep, DetailStep
<1>3. Spec => [](PagingInv /\ DetailInv)
  BY <1>1, <1>2, PTL DEF Spec
<1> QED
  BY <1>3, DetailsEnd, PTL

-------------------------------------------------------------------------------
(* What the screens that show one figure rely on is kept by every commit. *)

\* A record that has the fields of an entry, two of them changed, still has.
LEMMA RecordExcept ==
  ASSUME NEW x, x = [f \in FIELD |-> x[f]], NEW g \in FIELD, NEW h \in FIELD, g # h, NEW v, NEW w,
         NEW y, y = [x EXCEPT ![g] = v, ![h] = w]
  PROVE  /\ y = [f \in FIELD |-> y[f]]
         /\ y[g] = v /\ y[h] = w
         /\ \A f \in FIELD : f # g /\ f # h => y[f] = x[f]
OBVIOUS

\* What post() makes.
LEMMA EntryIs ==
  ASSUME NEW id, NEW order, NEW category, NEW fee, NEW amount, NEW day,
         NEW x, x = Entry(id, order, category, fee, amount, day)
  PROVE  /\ x = [f \in FIELD |-> x[f]]
         /\ x.id = id /\ x.order = order /\ x.category = category /\ x.fee = fee /\ x.amount = amount
         /\ x.type = ENTRY_TYPE(category) /\ x.day = day /\ x.statement = 0 /\ x.month = 0
BY DEF Entry, FIELD

\* The entries of a figure: each is of the transaction's order and day, and not settled.
LEMMA SpreadIs ==
  ASSUME NEW t \in DOMAIN TX, NEW category, NEW fee, NEW total, NEW f, NEW x \in Spread(t, category, fee, total, f)
  PROVE  /\ x = [g \in FIELD |-> x[g]]
         /\ x.order = TX[t].order /\ x.category = category /\ x.fee = fee
         /\ x.type = ENTRY_TYPE(category) /\ x.day = ORDER[TX[t].order].day
         /\ x.statement = 0 /\ x.month = 0
<1> DEFINE lines == TX[t].lines
           parts == PartsOf(t, total)
           plain(i) == Entry(<<t, f, i>>, TX[t].order, category, fee, parts[i], ORDER[TX[t].order].day)
<1>1. PICK i \in DOMAIN lines : x = [plain(i) EXCEPT !.line = lines[i], !.sku = OrderLine[lines[i]].sku]
  BY DEF Spread, PartsOf
<1> DEFINE p == plain(i)
<1>2. /\ p = [g \in FIELD |-> p[g]]
      /\ p.order = TX[t].order /\ p.category = category /\ p.fee = fee
      /\ p.type = ENTRY_TYPE(category) /\ p.day = ORDER[TX[t].order].day
      /\ p.statement = 0 /\ p.month = 0
  BY EntryIs
<1>3. x = [p EXCEPT !["line"] = lines[i], !["sku"] = OrderLine[lines[i]].sku]
  BY <1>1
<1>4. /\ "line" \in FIELD /\ "sku" \in FIELD
      /\ \A g \in {"order", "category", "fee", "type", "day", "statement", "month"} :
           g \in FIELD /\ g # "line" /\ g # "sku"
  BY DEF FIELD
<1> HIDE DEF p, lines
<1>5. x = [g \in FIELD |-> x[g]] /\ \A g \in FIELD : g # "line" /\ g # "sku" => x[g] = p[g]
  BY <1>2, <1>3, <1>4, RecordExcept
<1> QED
  BY <1>2, <1>4, <1>5

\* Nothing is posted for an order as written off, and what is posted as return shipping is the
\* postage that the seller pays.
LEMMA FieldsOf ==
  ASSUME NEW field
  PROVE  /\ CategoryOf(field) \in VariantCategory /\ CategoryOf(field) \notin OfStatement
         /\ CategoryOf(field) # "stock_written_off" /\ CategoryOf(field) # "cost_of_goods_sold"
         /\ CategoryOf(field) = "return_shipping" => field = "return_shipping_fee_amount"
<1>1. \A f \in DOMAIN FEE_MAP : FEE_MAP[f] \notin OfStatement \cup OffStatement \cup {"return_shipping"}
  BY DEF FEE_MAP, OfStatement, OffStatement, PAYOUT
<1>2. \A f \in DOMAIN SHIP_MAP : /\ SHIP_MAP[f] \notin OfStatement \cup OffStatement
                                 /\ SHIP_MAP[f] = "return_shipping" => f = "return_shipping_fee_amount"
  BY DEF SHIP_MAP, OfStatement, OffStatement, PAYOUT
<1>3. "unmapped_fee" \notin OfStatement \cup OffStatement \cup {"return_shipping"}
  BY DEF OfStatement, OffStatement, PAYOUT
<1>4. CategoryOf(field) \notin OfStatement \cup OffStatement
  BY <1>1, <1>2, <1>3 DEF CategoryOf
<1>5. CategoryOf(field) = "return_shipping" => field = "return_shipping_fee_amount"
  BY <1>1, <1>2, <1>3 DEF CategoryOf
<1> QED
  BY <1>4, <1>5, FieldsHaveCategories DEF OffStatement

\* What is posted of an order is as it should be, and not settled.
LEMMA TransactionRecords ==
  ASSUME NEW t \in DOMAIN TX, NEW x \in EntriesOf(t)
  PROVE  /\ RecordOK(x) /\ x.statement = 0 /\ x.order = TX[t].order
         /\ x.category # "stock_written_off"
<1> DEFINE figures == TX[t].figures
           category(f) == CategoryOf(figures[f].field)
           fee(f) == IF category(f) \in REVENUE THEN None ELSE figures[f].field
           spread == [f \in DOMAIN figures |-> Spread(t, category(f), fee(f), FigureOf(t, f), f)]
           cost == Spread(t, "cost_of_goods_sold", None, -TX[t].cost * Len(TX[t].lines), 0)
<1>1. ORDER[TX[t].order].day \in 1 .. Today
  BY PostingAssumption DEF PostingAssumption
<1>2. x \in cost \/ \E f \in DOMAIN figures : x \in spread[f]
  <2>1. {spread[f] : f \in DOMAIN figures}
          = {Spread(t, category(f), fee(f), FromDecimalString(figures[f].tenths), f) : f \in DOMAIN figures}
    BY DEF FigureOf
  <2>2. EntriesOf(t) = (UNION {spread[f] : f \in DOMAIN figures}) \cup cost
    BY <2>1 DEF EntriesOf
  <2> HIDE DEF spread, cost, figures
  <2> QED
    BY <2>2
<1>3. CASE x \in cost
  <2>1. /\ x = [g \in FIELD |-> x[g]]
        /\ x.order = TX[t].order /\ x.category = "cost_of_goods_sold"
        /\ x.type = ENTRY_TYPE("cost_of_goods_sold") /\ x.day = ORDER[TX[t].order].day
        /\ x.statement = 0 /\ x.month = 0
    BY <1>3, SpreadIs
  <2>2. "cost_of_goods_sold" \in VariantCategory /\ "cost_of_goods_sold" \notin OfStatement
    BY VariantCategoriesAre DEF OfStatement, PAYOUT
  <2> QED
    BY <1>1, <2>1, <2>2 DEF RecordOK
<1>4. ASSUME NEW f \in DOMAIN figures, x \in spread[f]
      PROVE  RecordOK(x) /\ x.statement = 0 /\ x.order = TX[t].order /\ x.category # "stock_written_off"
  <2> DEFINE c == category(f)
             paid == fee(f)
             pence == FigureOf(t, f)
  <2>1. /\ c \in VariantCategory /\ c \notin OfStatement /\ c # "stock_written_off"
        /\ c = "return_shipping" => paid = "return_shipping_fee_amount"
    BY FieldsOf DEF REVENUE
  <2>2. x \in Spread(t, c, paid, pence, f)
    BY <1>4
  <2> HIDE DEF c, paid, pence
  <2>3. /\ x = [g \in FIELD |-> x[g]]
        /\ x.order = TX[t].order /\ x.category = c /\ x.fee = paid
        /\ x.type = ENTRY_TYPE(c) /\ x.day = ORDER[TX[t].order].day
        /\ x.statement = 0 /\ x.month = 0
    BY <2>2, SpreadIs
  <2> QED
    BY <1>1, <2>1, <2>3 DEF RecordOK
<1> HIDE DEF spread, cost, figures
<1> QED
  BY <1>2, <1>3, <1>4

\* A statement is of the entries that name it.
LEMMA SameStatement ==
  ASSUME NEW d, NEW e, NEW id,
         \A x : (x \in e.ledger /\ <<x.statement>> = id) <=> (x \in d.ledger /\ <<x.statement>> = id)
  PROVE  Reconciled(e, id) = Reconciled(d, id) /\ Paid(e, id) = Paid(d, id)
<1>1. {x \in e.ledger : <<x.statement>> = id /\ x.type \notin {"payout", "reserve"}}
        = {x \in d.ledger : <<x.statement>> = id /\ x.type \notin {"payout", "reserve"}}
  OBVIOUS
<1>2. {x \in Within(e.ledger, {"settlement"}) : <<x.statement>> = id}
        = {x \in Within(d.ledger, {"settlement"}) : <<x.statement>> = id}
  BY DEF Within
<1> QED
  BY <1>1, <1>2 DEF Reconciled, Paid

\* New entries that are not settled, of orders that no statement has, or written off, fit.
LEMMA MoreEntries ==
  ASSUME NEW d, SettledOK(d), NEW e, NEW new, e.ledger = d.ledger \cup new,
         e.statements = d.statements, e.positions = d.positions, e.others = d.others,
         \A o \in DOMAIN e.orders : "status" \in DOMAIN e.orders[o],
         \A x \in d.ledger : SettledWith(e, x),
         \A x \in new : RecordOK(x) /\ SettledWith(e, x) /\ x.statement = 0
  PROVE  SettledOK(e)
<1>1. ASSUME NEW s \in e.statements PROVE s.id # <<0>> /\ Reconciled(e, s.id) = -Paid(e, s.id)
  <2>1. s.id # <<0>> /\ Reconciled(d, s.id) = -Paid(d, s.id)
    BY DEF SettledOK
  <2>2. \A x : (x \in e.ledger /\ <<x.statement>> = s.id) <=> (x \in d.ledger /\ <<x.statement>> = s.id)
    BY <2>1
  <2>3. Reconciled(e, s.id) = Reconciled(d, s.id) /\ Paid(e, s.id) = Paid(d, s.id)
    BY <2>2, SameStatement
  <2> QED
    BY <2>1, <2>3
<1>2. \A x \in e.ledger : RecordOK(x) /\ SettledWith(e, x)
  BY DEF SettledOK
<1> QED
  BY <1>1, <1>2 DEF SettledOK

\* An order is posted.
LEMMA OrderSettled ==
  ASSUME NEW d, TablesOK(d), SettledOK(d), NEW o \in DOMAIN ORDER, o \notin DOMAIN d.orders
  PROVE  SettledOK(PostOrder(d, o))
<1> DEFINE with == {t \in DOMAIN TX : TX[t].order = o}
           new == UNION {EntriesOf(t) : t \in with}
           orders == [p \in DOMAIN d.orders \cup {o} |-> IF p = o THEN ORDER[o] ELSE d.orders[p]]
           e == PostOrder(d, o)
<1>1. /\ e.ledger = d.ledger \cup new /\ e.orders = orders
      /\ e.statements = d.statements /\ e.positions = d.positions /\ e.others = d.others
  <2>1. d = [t \in TABLE |-> d[t]]
    BY DEF TablesOK
  <2>2. e.ledger = d.ledger \cup new
    BY <2>1 DEF PostOrder, TABLE
  <2>3. e.orders = orders
    BY <2>1 DEF PostOrder, TABLE
  <2>4. e.statements = d.statements /\ e.positions = d.positions /\ e.others = d.others
    BY <2>1 DEF PostOrder, TABLE
  <2> QED
    BY <2>2, <2>3, <2>4
<1>2. /\ DOMAIN e.orders = DOMAIN d.orders \cup {o} /\ e.orders[o] = ORDER[o]
      /\ \A p \in DOMAIN d.orders : e.orders[p] = d.orders[p]
  BY <1>1
<1>3. "status" \in DOMAIN ORDER[o] /\ ORDER[o].status # "settled" /\ o # None
  BY PostingAssumption DEF PostingAssumption
<1>4. ASSUME NEW x \in new
      PROVE  RecordOK(x) /\ x.statement = 0 /\ x.order = o /\ x.category # "stock_written_off"
  <2>1. PICK t \in with : x \in EntriesOf(t)
    OBVIOUS
  <2> HIDE DEF new
  <2> QED
    BY <2>1, TransactionRecords
<1> HIDE DEF e, new, orders
<1>5. \A p \in DOMAIN e.orders : "status" \in DOMAIN e.orders[p]
  BY <1>2, <1>3 DEF SettledOK
<1>6. \A x \in new : SettledWith(e, x)
  BY <1>2, <1>3, <1>4 DEF SettledWith
<1>7. ASSUME NEW x \in d.ledger PROVE SettledWith(e, x)
  <2>1. SettledWith(d, x)
    BY DEF SettledOK
  <2> QED
    BY <1>1, <1>2, <1>3, <2>1 DEF SettledWith
<1>8. SettledOK(e)
  BY <1>1, <1>4, <1>5, <1>6, <1>7, MoreEntries
<1> QED
  BY <1>8 DEF e

\* A return is posted, when no statement is left that has its order.
LEMMA ReturnSettled ==
  ASSUME NEW d, TablesOK(d), SettledOK(d), NEW r \in DOMAIN RETURN,
         \A s \in DOMAIN STATEMENT :
           RETURN[r].order \in STATEMENT[s].orders => \E row \in d.statements : row.id = <<s>>
  PROVE  SettledOK(PostReturn(d, r))
<1> DEFINE ret == RETURN[r]
           line == CHOOSE l \in DOMAIN OrderLine : OrderLine[l].order = ret.order
           type(i) == MovementOf(ret.kind, ret.items[i].check)
           items == DOMAIN ret.items
           lost == {i \in items : type(i) = "write_off" /\ ret.items[i].cost # 0}
           plain(i) == Entry(<<r, i, 0>>, ret.order, "stock_written_off", None, -ret.items[i].cost, ret.completed)
           entry == [i \in lost |->
                      [plain(i) EXCEPT !.line = line, !.sku = OrderLine[line].sku, !.ret = <<r>>]]
           entries == {entry[i] : i \in lost}
           e == PostReturn(d, r)
<1>1. /\ e.ledger = d.ledger \cup entries /\ e.orders = d.orders
      /\ e.statements = d.statements /\ e.positions = d.positions /\ e.others = d.others
  <2>1. d = [t \in TABLE |-> d[t]]
    BY DEF TablesOK
  <2>2. e.ledger = d.ledger \cup entries
    BY <2>1 DEF PostReturn, TABLE
  <2>3. e.orders = d.orders /\ e.statements = d.statements /\ e.positions = d.positions /\ e.others = d.others
    BY <2>1 DEF PostReturn, TABLE
  <2> QED
    BY <2>2, <2>3
<1>2. ASSUME NEW x \in entries
      PROVE  RecordOK(x) /\ x.statement = 0 /\ x.category = "stock_written_off" /\ x.order = ret.order
  <2>1. PICK i \in lost : x = entry[i]
    OBVIOUS
  <2>0. PICK p : p = plain(i)
    OBVIOUS
  <2> DEFINE y == [p EXCEPT !["line"] = line, !["sku"] = OrderLine[line].sku]
  <2>3. x = [y EXCEPT !["ret"] = <<r>>]
    BY <2>0, <2>1
  <2>2. /\ p = [g \in FIELD |-> p[g]]
        /\ p.order = ret.order /\ p.category = "stock_written_off" /\ p.fee = None
        /\ p.type = ENTRY_TYPE("stock_written_off") /\ p.day = ret.completed
        /\ p.statement = 0 /\ p.month = 0
    BY <2>0 DEF Entry, FIELD
  <2>4. /\ "line" \in FIELD /\ "sku" \in FIELD /\ "ret" \in FIELD
        /\ \A g \in {"order", "category", "fee", "type", "day", "statement", "month"} :
             g \in FIELD /\ g # "line" /\ g # "sku" /\ g # "ret"
    BY DEF FIELD
  <2> HIDE DEF line
  <2>5. y = [g \in FIELD |-> y[g]] /\ \A g \in FIELD : g # "line" /\ g # "sku" => y[g] = p[g]
    BY <2>2, <2>4, RecordExcept
  <2> HIDE DEF y
  <2>6. x = [g \in FIELD |-> x[g]] /\ \A g \in FIELD : g # "ret" => x[g] = y[g]
    BY <2>3, <2>5, <2>4
  <2>7. ret.completed \in 1 .. Today
    BY PostingAssumption DEF PostingAssumption
  <2>8. "stock_written_off" \in VariantCategory /\ "stock_written_off" \notin OfStatement
    BY VariantCategoriesAre, SectionsAre DEF OfStatement, PAYOUT
  <2>9. /\ x.order = ret.order /\ x.category = "stock_written_off"
        /\ x.type = ENTRY_TYPE("stock_written_off") /\ x.day = ret.completed
        /\ x.statement = 0 /\ x.month = 0
    <3>1. \A g \in {"order", "category", "type", "day", "statement", "month"} : x[g] = y[g] /\ y[g] = p[g]
      BY <2>4, <2>5, <2>6
    <3> QED
      BY <2>2, <3>1
  <2> HIDE DEF ret
  <2> QED
    BY <2>6, <2>7, <2>8, <2>9 DEF RecordOK
<1> HIDE DEF e, entries
<1>3. \A x \in entries : SettledWith(e, x)
  BY <1>1, <1>2 DEF SettledWith, OffStatement
<1>4. \A x \in d.ledger : SettledWith(e, x)
  BY <1>1 DEF SettledOK, SettledWith
<1>5. SettledOK(e)
  <2>1. \A o \in DOMAIN e.orders : "status" \in DOMAIN e.orders[o]
    BY <1>1 DEF SettledOK
  <2>2. \A x \in entries : RecordOK(x) /\ SettledWith(e, x) /\ x.statement = 0
    BY <1>2, <1>3
  <2> QED
    BY <1>1, <1>4, <2>1, <2>2, MoreEntries
<1> QED
  BY <1>5 DEF e

-------------------------------------------------------------------------------
(* What a statement settles. *)

Settles(s, x) == x.order \in STATEMENT[s].orders /\ x.category # "cost_of_goods_sold"
SettledBy(s, x) == [x EXCEPT !.statement = s, !.month = MonthOf(STATEMENT[s].time)]
ExtraOf(s, k) ==
  LET what == STATEMENT[s].extras[k]
  IN  SettledBy(s, Entry(<<s, k, 0>>, what.order, what.category, what.fee,
                         FromDecimalString(what.tenths), STATEMENT[s].time))
ExtrasOf(s) == {ExtraOf(s, k) : k \in DOMAIN STATEMENT[s].extras}
MineOf(d, s) == {x \in d.ledger : Settles(s, x)}
RestOf(d, s) == {x \in d.ledger : ~Settles(s, x)}
PenaltiesOf(s) == Within(ExtrasOf(s), {"platform_adjustment"})
DerivedOf(d, s) == Amount(MineOf(d, s)) + Amount(PenaltiesOf(s))
PayoutOf(d, s) ==
  SettledBy(s, Entry(<<s, 0, 0>>, None, "settlement", None, -DerivedOf(d, s), STATEMENT[s].time))

RowOf(s) == [id |-> <<s>>, at |-> STATEMENT[s].time, stated |-> STATEMENT[s].stated, invoice |-> None]
StatusAfter(d, s) ==
  [o \in DOMAIN d.orders |-> IF o \in STATEMENT[s].orders THEN [d.orders[o] EXCEPT !.status = "settled"] ELSE d.orders[o]]

\* What a statement leaves of the tables.
LEMMA StatementIs ==
  ASSUME NEW d, TablesOK(d), NEW s, NEW e, e = PostStatement(d, s)
  PROVE  /\ e.ledger = RestOf(d, s) \cup {SettledBy(s, x) : x \in MineOf(d, s)} \cup ExtrasOf(s) \cup {PayoutOf(d, s)}
         /\ e.orders = StatusAfter(d, s) /\ e.statements = d.statements \cup {RowOf(s)}
         /\ e.positions = d.positions /\ e.others = d.others
<1>1. d = [t \in TABLE |-> d[t]]
  BY DEF TablesOK
<1> DEFINE settles(x) == x.order \in STATEMENT[s].orders /\ x.category # "cost_of_goods_sold"
           settled(x) == [x EXCEPT !.statement = s, !.month = MonthOf(STATEMENT[s].time)]
<1>2. e.ledger = {IF settles(x) THEN settled(x) ELSE x : x \in d.ledger} \cup ExtrasOf(s) \cup {PayoutOf(d, s)}
  BY <1>1 DEF PostStatement, TABLE, ExtrasOf, ExtraOf, PayoutOf, DerivedOf, PenaltiesOf, MineOf, Settles, SettledBy
<1>3. {IF settles(x) THEN settled(x) ELSE x : x \in d.ledger}
        = RestOf(d, s) \cup {SettledBy(s, x) : x \in MineOf(d, s)}
  BY DEF RestOf, MineOf, Settles, SettledBy
<1>4. e.orders = StatusAfter(d, s)
  BY <1>1 DEF PostStatement, TABLE, StatusAfter
<1>5. e.statements = d.statements \cup {RowOf(s)}
  BY <1>1 DEF PostStatement, TABLE, RowOf
<1>6. e.positions = d.positions /\ e.others = d.others
  BY <1>1 DEF PostStatement, TABLE
<1> QED
  BY <1>2, <1>3, <1>4, <1>5, <1>6

\* The amounts of two sets of entries that share none.
LEMMA AmountUnion ==
  ASSUME NEW A, NEW B, IsFiniteSet(A), IsFiniteSet(B), A \cap B = {},
         \A x \in A : x.amount \in Int, \A x \in B : x.amount \in Int
  PROVE  Amount(A \cup B) = Amount(A) + Amount(B)
<1> DEFINE q == [x \in A \cup B |-> x.amount]
<1>1. \A x \in A \cup B : q[x] = x.amount /\ q[x] \in Int
  OBVIOUS
<1>2. IsFiniteSet(A \cup B)
  BY FS_Union
<1> HIDE DEF q
<1>3. SumOf(q, A \cup B) = SumOf(q, A) + SumOf(q, B)
  BY <1>1, SumUnion
<1>4. Amount(A \cup B) = SumOf(q, A \cup B) /\ Amount(A) = SumOf(q, A) /\ Amount(B) = SumOf(q, B)
  BY <1>1, <1>2, AmountIsSum
<1> QED
  BY <1>3, <1>4

\* The amounts of entries that are changed, each into another one, but not in their amount.
LEMMA AmountRenamed ==
  ASSUME NEW A, IsFiniteSet(A), \A x \in A : x.amount \in Int, NEW f,
         \A x, y \in A : f[x] = f[y] => x = y, \A x \in A : f[x].amount = x.amount
  PROVE  Amount({f[x] : x \in A}) = Amount(A)
<1> DEFINE B == {f[x] : x \in A}
           q == [y \in B |-> y.amount]
           h == [x \in A |-> x.amount]
<1>1. IsFiniteSet(B)
  BY FiniteImage
<1>2. \A x \in A : f[x] \in B
  OBVIOUS
<1>3. (\A y \in B : q[y] = y.amount) /\ (\A x \in A : h[x] = x.amount)
  OBVIOUS
<1>4. \A x \in A : q[f[x]] \in Int /\ h[x] = q[f[x]]
  BY <1>2, <1>3
<1> HIDE DEF q, h
<1>5. SumOf(q, {f[x] : x \in A}) = SumOf(h, A)
  BY <1>1, <1>4, SumRenamed
<1> HIDE DEF B
<1>6. Amount(B) = SumOf(q, B) /\ Amount(A) = SumOf(h, A)
  BY <1>1, <1>3, AmountIsSum
<1> QED
  BY <1>5, <1>6 DEF B

\* One entry, and none.
LEMMA AmountOne ==
  ASSUME NEW x, x.amount \in Int
  PROVE  Amount({x}) = x.amount /\ Amount({}) = 0
<1> DEFINE S == {x}
           q == [y \in S |-> y.amount]
<1>1. q[x] = x.amount /\ \A y \in S : q[y] = y.amount /\ q[y] \in Int
  OBVIOUS
<1>2. IsFiniteSet(S) /\ x \in S /\ S \ {x} = {} /\ IsFiniteSet({})
  BY FS_Singleton, FS_EmptySet
<1> HIDE DEF q, S
<1>3. SumOf(q, S) = q[x] + SumOf(q, S \ {x})
  BY <1>1, <1>2, SumAny
<1>4. SumOf(q, {}) = 0
  BY SumNothing
<1>5. Amount(S) = SumOf(q, S) /\ Amount({}) = SumOf(q, {})
  BY <1>1, <1>2, AmountIsSum
<1>6. Amount(S) = x.amount /\ Amount({}) = 0
  BY <1>1, <1>2, <1>3, <1>4, <1>5
<1> QED
  BY <1>6 DEF S

\* What the type of an entry says of its category.
LEMMA TypesOfCategories ==
  ASSUME NEW c \in VariantCategory \cup OfStatement
  PROVE  /\ ENTRY_TYPE(c) \in {"payout", "reserve"} <=> c \in PAYOUT
         /\ ENTRY_TYPE(c) \in NET_PROCEEDS_TYPES <=> c \in NET_PROCEEDS_CATEGORIES \ {"platform_adjustment"}
         /\ ENTRY_TYPE(c) \in RETURN_LOSS_TYPES <=> c \in {"return_shipping", "stock_written_off"}
<1>1. c \in {"cost_of_goods_sold", "gross_sales", "seller_discount", "refund", "return_shipping", "stock_written_off"}
        \/ c \in SECTIONS[2].categories \/ c \in OfStatement
  BY VariantCategoriesAre, SectionsAre
<1>2. CASE c \in SECTIONS[2].categories
  BY <1>2, SectionsAre
     DEF TIKTOK_FEES, ENTRY_TYPE, NET_PROCEEDS_TYPES, NET_PROCEEDS_CATEGORIES, RETURN_LOSS_TYPES, PAYOUT
<1>3. CASE c \in {"gross_sales", "seller_discount", "refund"}
  BY <1>3 DEF ENTRY_TYPE, NET_PROCEEDS_TYPES, NET_PROCEEDS_CATEGORIES, RETURN_LOSS_TYPES, PAYOUT
<1>4. CASE c \in {"cost_of_goods_sold", "return_shipping", "stock_written_off"}
  BY <1>4 DEF TIKTOK_FEES, ENTRY_TYPE, NET_PROCEEDS_TYPES, NET_PROCEEDS_CATEGORIES, RETURN_LOSS_TYPES, PAYOUT
<1>5. CASE c \in OfStatement
  BY <1>5 DEF OfStatement, TIKTOK_FEES, ENTRY_TYPE, NET_PROCEEDS_TYPES, NET_PROCEEDS_CATEGORIES, RETURN_LOSS_TYPES, PAYOUT
<1> QED
  BY <1>1, <1>2, <1>3, <1>4, <1>5

\* The categories, apart from each other.
LEMMA CategoriesAre ==
  /\ VariantCategory \cup OfStatement
       = NET_PROCEEDS_CATEGORIES \cup {"return_shipping"} \cup OffStatement \cup PAYOUT
  /\ NET_PROCEEDS_CATEGORIES \cap ({"return_shipping"} \cup OffStatement \cup PAYOUT) = {}
  /\ {"return_shipping"} \cap (OffStatement \cup PAYOUT) = {} /\ OffStatement \cap PAYOUT = {}
  /\ OfStatement \cap ({"return_shipping"} \cup OffStatement) = {}
  /\ "seller_shipping" \notin VariantCategory \cup OfStatement
<1>1. VariantCategory = {"cost_of_goods_sold", "gross_sales", "seller_discount", "refund", "return_shipping",
                         "stock_written_off"} \cup (TIKTOK_FEES \ {"platform_adjustment"})
  BY VariantCategoriesAre, SectionsAre
<1>2. "platform_adjustment" \in TIKTOK_FEES
  BY DEF TIKTOK_FEES
<1>3. VariantCategory \cup OfStatement
        = NET_PROCEEDS_CATEGORIES \cup {"return_shipping"} \cup OffStatement \cup PAYOUT
  BY <1>1, <1>2 DEF OfStatement, OffStatement, NET_PROCEEDS_CATEGORIES
<1>4. /\ NET_PROCEEDS_CATEGORIES \cap ({"return_shipping"} \cup OffStatement \cup PAYOUT) = {}
      /\ {"return_shipping"} \cap (OffStatement \cup PAYOUT) = {} /\ OffStatement \cap PAYOUT = {}
      /\ OfStatement \cap ({"return_shipping"} \cup OffStatement) = {}
  BY DEF OfStatement, OffStatement, NET_PROCEEDS_CATEGORIES, TIKTOK_FEES, PAYOUT
<1>5. "seller_shipping" \notin NET_PROCEEDS_CATEGORIES \cup {"return_shipping"} \cup OffStatement \cup PAYOUT
  BY DEF OffStatement, NET_PROCEEDS_CATEGORIES, TIKTOK_FEES, PAYOUT
<1> QED
  BY <1>3, <1>4, <1>5
\* What is settled was not, and is of an order that was not.
LEMMA MineIs ==
  ASSUME NEW d, SettledOK(d), NEW s \in DOMAIN STATEMENT, \A row \in d.statements : row.id # <<s>>,
         \A o \in STATEMENT[s].orders : o \in DOMAIN d.orders /\ d.orders[o].status # "settled",
         NEW x \in MineOf(d, s)
  PROVE  /\ x.statement = 0 /\ x.month = 0 /\ x.category \notin OffStatement \cup OfStatement
         /\ x.order \in STATEMENT[s].orders /\ RecordOK(x)
<1>1. x \in d.ledger /\ x.order \in STATEMENT[s].orders /\ x.category # "cost_of_goods_sold"
  BY DEF MineOf, Settles
<1>2. RecordOK(x) /\ SettledWith(d, x)
  BY <1>1 DEF SettledOK
<1>3. x.order # None
  BY <1>1, PostingAssumption DEF PostingAssumption
<1>4. x.statement = 0
  BY <1>1, <1>2, <1>3 DEF SettledWith
<1>5. x.category # "stock_written_off"
  BY <1>1, <1>2 DEF SettledWith
<1> QED
  BY <1>1, <1>2, <1>4, <1>5 DEF RecordOK, OffStatement

\* What a statement marks is otherwise as it was.
LEMMA SettledByIs ==
  ASSUME NEW s, NEW x, x = [f \in FIELD |-> x[f]], NEW y, y = SettledBy(s, x)
  PROVE  /\ y = [f \in FIELD |-> y[f]] /\ y.statement = s
         /\ y.id = x.id /\ y.order = x.order /\ y.category = x.category /\ y.fee = x.fee
         /\ y.type = x.type /\ y.amount = x.amount /\ y.day = x.day /\ y.sku = x.sku
         /\ \A f \in FIELD : f # "statement" /\ f # "month" => y[f] = x[f]
<1>1. "statement" \in FIELD /\ "month" \in FIELD
      /\ \A g \in {"id", "order", "category", "fee", "type", "amount", "day", "sku"} :
           g \in FIELD /\ g # "statement" /\ g # "month"
  BY DEF FIELD
<1>2. y = [x EXCEPT !["statement"] = s, !["month"] = MonthOf(STATEMENT[s].time)]
  BY DEF SettledBy
<1>3. /\ y = [f \in FIELD |-> y[f]] /\ y["statement"] = s
      /\ \A f \in FIELD : f # "statement" /\ f # "month" => y[f] = x[f]
  BY <1>1, <1>2, RecordExcept
<1> QED
  BY <1>1, <1>3

\* No two entries that were not settled become one.
LEMMA SettledByOnce ==
  ASSUME NEW s, NEW x, x = [f \in FIELD |-> x[f]], NEW y, y = [f \in FIELD |-> y[f]],
         x.statement = y.statement, x.month = y.month, SettledBy(s, x) = SettledBy(s, y)
  PROVE  x = y
<1>1. \A f \in FIELD : f # "statement" /\ f # "month" => x[f] = y[f]
  BY SettledByIs
<1>2. \A f \in FIELD : x[f] = y[f]
  BY <1>1
<1> QED
  BY <1>2

\* What a statement has beside its orders.
LEMMA ExtrasAre ==
  ASSUME NEW s \in DOMAIN STATEMENT
  PROVE  /\ IsFiniteSet(ExtrasOf(s))
         /\ \A x \in ExtrasOf(s) : /\ RecordOK(x) /\ x.statement = s /\ x.amount \in Int
                                   /\ x.category \in EXTRA
                                   /\ x.order = None \/ x.order \in STATEMENT[s].orders
<1> DEFINE xs == STATEMENT[s].extras
           X == [category : EXTRA, order : STATEMENT[s].orders \cup {None}, fee : STRING, tenths : Int \ (-4 .. 4)]
           extra == [k \in DOMAIN xs |-> ExtraOf(s, k)]
<1>1. xs \in Seq(X) /\ STATEMENT[s].time \in 1 .. Today /\ s # 0
  BY PostingAssumption DEF PostingAssumption
<1>2. \A x \in X : x.category \in EXTRA /\ x.tenths \in Int /\ (x.order = None \/ x.order \in STATEMENT[s].orders)
  OBVIOUS
<1> HIDE DEF X
<1>3. DOMAIN xs = 1 .. Len(xs) /\ Len(xs) \in Nat /\ \A k \in DOMAIN xs : xs[k] \in X
  <2> HIDE DEF xs
  <2> QED
    BY <1>1
<1>4. IsFiniteSet(ExtrasOf(s))
  <2>1. ExtrasOf(s) = {extra[k] : k \in DOMAIN xs}
    BY DEF ExtrasOf
  <2>2. IsFiniteSet(DOMAIN xs)
    BY <1>3, FS_Interval
  <2> HIDE DEF extra, xs
  <2> QED
    BY <2>1, <2>2, FiniteImage
<1>5. ASSUME NEW x \in ExtrasOf(s)
      PROVE  /\ RecordOK(x) /\ x.statement = s /\ x.amount \in Int /\ x.category \in EXTRA
             /\ x.order = None \/ x.order \in STATEMENT[s].orders
  <2>1. PICK k \in DOMAIN xs : x = ExtraOf(s, k)
    BY DEF ExtrasOf
  <2>2. PICK what : what = xs[k]
    OBVIOUS
  <2>3. /\ what.category \in EXTRA /\ what.tenths \in Int
        /\ what.order = None \/ what.order \in STATEMENT[s].orders
    BY <1>2, <1>3, <2>2
  <2>4. PICK pence : pence = FromDecimalString(what.tenths)
    OBVIOUS
  <2>5. PICK p : p = Entry(<<s, k, 0>>, what.order, what.category, what.fee, pence, STATEMENT[s].time)
    OBVIOUS
  <2>6. /\ p = [g \in FIELD |-> p[g]]
        /\ p.order = what.order /\ p.category = what.category /\ p.fee = what.fee /\ p.amount = pence
        /\ p.type = ENTRY_TYPE(what.category) /\ p.day = STATEMENT[s].time
    BY <2>5 DEF Entry, FIELD
  <2>7. x = SettledBy(s, p)
    BY <2>1, <2>2, <2>4, <2>5 DEF ExtraOf
  <2>8. /\ x = [f \in FIELD |-> x[f]] /\ x.statement = s
        /\ x.order = p.order /\ x.category = p.category /\ x.type = p.type
        /\ x.amount = p.amount /\ x.day = p.day
    BY <2>6, <2>7, SettledByIs
  <2>9. pence \in Int
    BY <2>3, <2>4, Pence
  <2>10. \A c \in EXTRA : c \in OfStatement /\ c \notin OffStatement /\ c # "return_shipping"
    BY DEF EXTRA, OfStatement, OffStatement, PAYOUT
  <2> HIDE DEF xs
  <2> QED
    BY <1>1, <2>3, <2>6, <2>8, <2>9, <2>10 DEF RecordOK
<1> QED
  BY <1>4, <1>5

\* What it pays.
LEMMA PayoutIs ==
  ASSUME NEW d, NEW s \in DOMAIN STATEMENT, NEW x, x = PayoutOf(d, s)
  PROVE  /\ RecordOK(x) /\ x.statement = s /\ x.amount = -DerivedOf(d, s)
         /\ x.category = "settlement" /\ x.order = None
<1>1. STATEMENT[s].time \in 1 .. Today /\ s # 0
  BY PostingAssumption DEF PostingAssumption
<1>2. PICK pence : pence = -DerivedOf(d, s)
  OBVIOUS
<1>3. PICK p : p = Entry(<<s, 0, 0>>, None, "settlement", None, pence, STATEMENT[s].time)
  OBVIOUS
<1>4. /\ p = [g \in FIELD |-> p[g]]
      /\ p.order = None /\ p.category = "settlement" /\ p.amount = pence
      /\ p.type = ENTRY_TYPE("settlement") /\ p.day = STATEMENT[s].time
  BY <1>3 DEF Entry, FIELD
<1>5. x = SettledBy(s, p)
  BY <1>2, <1>3 DEF PayoutOf
<1>6. /\ x = [f \in FIELD |-> x[f]] /\ x.statement = s
      /\ x.order = p.order /\ x.category = p.category /\ x.type = p.type
      /\ x.amount = p.amount /\ x.day = p.day
  BY <1>4, <1>5, SettledByIs
<1>7. "settlement" \in OfStatement /\ "settlement" \notin OffStatement
  BY DEF OfStatement, OffStatement, PAYOUT
<1> QED
  BY <1>1, <1>2, <1>4, <1>6, <1>7 DEF RecordOK
\* A statement pays what it settles, and what it adds to that; no other statement changes.
LEMMA StatementPays ==
  ASSUME NEW d, TablesOK(d), FiguresOK(d), SettledOK(d), NEW s \in DOMAIN STATEMENT,
         \A row \in d.statements : row.id # <<s>>,
         \A o \in STATEMENT[s].orders : o \in DOMAIN d.orders /\ d.orders[o].status # "settled",
         NEW e, e = PostStatement(d, s)
  PROVE  /\ Reconciled(e, <<s>>) = -Paid(e, <<s>>)
         /\ \A row \in d.statements :
              Reconciled(e, row.id) = Reconciled(d, row.id) /\ Paid(e, row.id) = Paid(d, row.id)
<1> DEFINE rest == RestOf(d, s)
           mine == MineOf(d, s)
           mark == [x \in mine |-> SettledBy(s, x)]
           marked == {mark[x] : x \in mine}
           extras == ExtrasOf(s)
           penalties == PenaltiesOf(s)
           payout == PayoutOf(d, s)
<1>1. e.ledger = rest \cup marked \cup extras \cup {payout}
  <2>1. marked = {SettledBy(s, x) : x \in mine}
    OBVIOUS
  <2> HIDE DEF marked, mine, rest, extras, payout
  <2> QED
    BY <2>1, StatementIs DEF mine, rest, extras, payout
<1>2. d.ledger = rest \cup mine /\ \A x \in d.ledger : RecordOK(x) /\ SettledWith(d, x) /\ x.amount \in Int
  BY FiguresAre DEF RestOf, MineOf, SettledOK, Addable
<1>3. ASSUME NEW x \in mine
      PROVE  /\ x.statement = 0 /\ x.month = 0 /\ x.category \notin OffStatement \cup OfStatement
             /\ RecordOK(x) /\ x = [f \in FIELD |-> x[f]] /\ x.amount \in Int
  BY <1>2, MineIs DEF RecordOK
<1>4. ASSUME NEW x \in mine
      PROVE  /\ mark[x].statement = s /\ mark[x].category = x.category /\ mark[x].type = x.type
             /\ mark[x].amount = x.amount
  BY <1>3, SettledByIs
<1>5. \A x, y \in mine : mark[x] = mark[y] => x = y
  <2>1. ASSUME NEW x \in mine, NEW y \in mine, mark[x] = mark[y] PROVE x = y
    <3>1. SettledBy(s, x) = SettledBy(s, y)
      BY <2>1
    <3> QED
      BY <1>3, <3>1, SettledByOnce
  <2> QED
    BY <2>1
<1>6. IsFiniteSet(extras) /\ \A x \in extras : /\ RecordOK(x) /\ x.statement = s /\ x.amount \in Int
                                               /\ x.category \in EXTRA
  BY ExtrasAre
<1>7. /\ RecordOK(payout) /\ payout.statement = s /\ payout.amount = -DerivedOf(d, s)
      /\ payout.category = "settlement"
  BY PayoutIs
<1>8. \A x \in rest : x.statement # s
  <2>1. s # 0
    BY PostingAssumption DEF PostingAssumption
  <2> QED
    BY <1>2, <2>1 DEF SettledWith
<1>9. IsFiniteSet(mine) /\ IsFiniteSet(marked) /\ IsFiniteSet(penalties)
  <2>1. IsFiniteSet(d.ledger) /\ mine \in SUBSET d.ledger /\ penalties \in SUBSET extras
    BY DEF TablesOK, MineOf, PenaltiesOf, Within
  <2> HIDE DEF mine, penalties, extras, mark
  <2>2. IsFiniteSet(mine) /\ IsFiniteSet(penalties)
    BY <1>6, <2>1, FS_Subset
  <2> QED
    BY <2>2, FiniteImage
<1>10. \A x \in penalties : x \in extras /\ x.category = "platform_adjustment"
  BY DEF PenaltiesOf, Within
<1> HIDE DEF mark
<1>a. \A y \in marked : \E x \in mine : y = mark[x]
  OBVIOUS
<1>b. \A y \in extras : y.category = "platform_adjustment" => y \in penalties
  BY DEF PenaltiesOf, Within
<1> HIDE DEF rest, mine, marked, extras, penalties, payout
<1>11. Amount(marked) = Amount(mine)
  <2>1. \A x \in mine : x.amount \in Int /\ mark[x].amount = x.amount
    BY <1>3, <1>4
  <2> QED
    BY <1>5, <1>9, <2>1, AmountRenamed DEF marked
<1>c. EXTRA = {"platform_adjustment", "reserve_withheld", "reserve_released"} /\ EXTRA \subseteq OfStatement
      /\ "settlement" \in OfStatement /\ PAYOUT = {"reserve_withheld", "reserve_released", "settlement"}
  BY DEF EXTRA, OfStatement, PAYOUT
<1>d. \A x : RecordOK(x) => (x.type \in {"payout", "reserve"} <=> x.category \in PAYOUT)
  BY TypesOfCategories DEF RecordOK
<1>e. \A y \in marked : y.statement = s /\ y.type \notin {"payout", "reserve"} /\ y.amount \in Int
                        /\ y.category \notin OfStatement
  <2>1. ASSUME NEW x \in mine
        PROVE  /\ mark[x].statement = s /\ mark[x].type \notin {"payout", "reserve"} /\ mark[x].amount \in Int
               /\ mark[x].category \notin OfStatement
    <3>1. x.category \notin PAYOUT
      BY <1>3, <1>c DEF OfStatement
    <3> QED
      BY <1>3, <1>4, <1>d, <3>1
  <2> QED
    BY <1>a, <2>1
<1>12. {x \in e.ledger : <<x.statement>> = <<s>> /\ x.type \notin {"payout", "reserve"}} = marked \cup penalties
  <2>1. \A x \in penalties : x.statement = s /\ x.type \notin {"payout", "reserve"} /\ x \in e.ledger
    BY <1>1, <1>6, <1>10, <1>c, <1>d
  <2>2. \A x \in extras : x.type \notin {"payout", "reserve"} => x \in penalties
    BY <1>6, <1>b, <1>c, <1>d
  <2>3. payout.type \in {"payout", "reserve"}
    BY <1>7, <1>c, <1>d
  <2> QED
    BY <1>1, <1>8, <1>e, <2>1, <2>2, <2>3
<1>13. {x \in Within(e.ledger, {"settlement"}) : <<x.statement>> = <<s>>} = {payout}
  <2>1. \A x \in extras : x.category # "settlement"
    BY <1>6, <1>c
  <2>2. \A x \in marked : x.category # "settlement"
    BY <1>e, <1>c
  <2>3. payout \in e.ledger /\ payout.category = "settlement" /\ payout.statement = s
    BY <1>1, <1>7
  <2> QED
    BY <1>1, <1>8, <2>1, <2>2, <2>3 DEF Within
<1>14. Reconciled(e, <<s>>) = -Paid(e, <<s>>)
  <2>1. marked \cap penalties = {}
    BY <1>e, <1>10, <1>c
  <2>2. \A x \in penalties : x.amount \in Int
    BY <1>6, <1>10
  <2>3. Amount(marked \cup penalties) = Amount(mine) + Amount(penalties)
    BY <1>9, <1>11, <1>e, <2>1, <2>2, AmountUnion
  <2>4. Amount(mine) \in Int /\ Amount(penalties) \in Int
    BY <1>3, <1>9, <2>2, AmountType
  <2>5. DerivedOf(d, s) = Amount(mine) + Amount(penalties)
    BY DEF DerivedOf, mine, penalties
  <2>6. DerivedOf(d, s) \in Int
    BY <2>4, <2>5
  <2>7. payout.amount \in Int
    BY <1>7, <2>6
  <2>8. Amount({payout}) = -DerivedOf(d, s)
    BY <1>7, <2>7, AmountOne
  <2>9. Reconciled(e, <<s>>) = DerivedOf(d, s) /\ Paid(e, <<s>>) = -DerivedOf(d, s)
    BY <1>12, <1>13, <2>3, <2>5, <2>8 DEF Reconciled, Paid
  <2> QED
    BY <2>6, <2>9
<1>15. ASSUME NEW row \in d.statements
       PROVE  Reconciled(e, row.id) = Reconciled(d, row.id) /\ Paid(e, row.id) = Paid(d, row.id)
  <2>1. row.id # <<0>> /\ row.id # <<s>>
    BY DEF SettledOK
  <2>2. \A x : (x \in e.ledger /\ <<x.statement>> = row.id) <=> (x \in d.ledger /\ <<x.statement>> = row.id)
    BY <1>1, <1>2, <1>3, <1>6, <1>7, <1>e, <2>1
  <2> QED
    BY <2>2, SameStatement
<1> QED
  BY <1>14, <1>15

\* A statement is posted.
LEMMA StatementSettled ==
  ASSUME NEW d, TablesOK(d), FiguresOK(d), SettledOK(d), NEW s \in DOMAIN STATEMENT,
         \A row \in d.statements : row.id # <<s>>,
         \A o \in STATEMENT[s].orders : o \in DOMAIN d.orders /\ d.orders[o].status # "settled"
  PROVE  SettledOK(PostStatement(d, s))
<1>1. PICK e : e = PostStatement(d, s)
  OBVIOUS
<1>2. /\ e.ledger = RestOf(d, s) \cup {SettledBy(s, x) : x \in MineOf(d, s)} \cup ExtrasOf(s) \cup {PayoutOf(d, s)}
      /\ e.orders = StatusAfter(d, s) /\ e.statements = d.statements \cup {RowOf(s)}
      /\ e.positions = d.positions /\ e.others = d.others
  BY <1>1, StatementIs
<1>3. PICK row : row.id = <<s>> /\ e.statements = d.statements \cup {row}
  BY <1>2 DEF RowOf
<1>4. /\ DOMAIN e.orders = DOMAIN d.orders
      /\ \A o \in DOMAIN d.orders :
           e.orders[o] = IF o \in STATEMENT[s].orders THEN [d.orders[o] EXCEPT !.status = "settled"] ELSE d.orders[o]
      /\ e.positions = d.positions /\ e.others = d.others
  BY <1>2 DEF StatusAfter
<1>5. \A o \in DOMAIN d.orders :
        /\ "status" \in DOMAIN d.orders[o] /\ "status" \in DOMAIN e.orders[o]
        /\ o \in STATEMENT[s].orders => e.orders[o].status = "settled"
        /\ d.orders[o].status = "settled" => e.orders[o].status = "settled"
        /\ o \notin STATEMENT[s].orders => e.orders[o] = d.orders[o]
  BY <1>4 DEF SettledOK
<1>6. s # 0
  BY PostingAssumption DEF PostingAssumption
<1>7. ASSUME NEW x, x.statement = s, x.category \notin OffStatement,
             x.order = None \/ x.order \in STATEMENT[s].orders
      PROVE  SettledWith(e, x)
  BY <1>3, <1>4, <1>5, <1>6, <1>7 DEF SettledWith, OffStatement
<1>8. ASSUME NEW x \in RestOf(d, s) PROVE RecordOK(x) /\ SettledWith(e, x)
  <2>1. x \in d.ledger /\ ~Settles(s, x)
    BY DEF RestOf
  <2>2. RecordOK(x) /\ SettledWith(d, x)
    BY <2>1 DEF SettledOK
  <2> QED
    BY <1>3, <1>4, <1>5, <2>1, <2>2 DEF SettledWith, Settles, OffStatement
<1>9. ASSUME NEW x \in MineOf(d, s) PROVE RecordOK(SettledBy(s, x)) /\ SettledWith(e, SettledBy(s, x))
  <2>1. /\ x.statement = 0 /\ x.month = 0 /\ x.category \notin OffStatement \cup OfStatement
        /\ x.order \in STATEMENT[s].orders /\ RecordOK(x)
    BY MineIs
  <2>2. PICK y : y = SettledBy(s, x)
    OBVIOUS
  <2>3. x = [f \in FIELD |-> x[f]]
    BY <2>1 DEF RecordOK
  <2>4. /\ y = [f \in FIELD |-> y[f]] /\ y.statement = s
        /\ y.order = x.order /\ y.category = x.category /\ y.fee = x.fee
        /\ y.type = x.type /\ y.day = x.day
    BY <2>2, <2>3, SettledByIs
  <2>5. RecordOK(y)
    BY <1>6, <2>1, <2>4 DEF RecordOK
  <2>6. SettledWith(e, y)
    BY <1>7, <2>1, <2>4
  <2> QED
    BY <2>2, <2>5, <2>6
<1>10. ASSUME NEW x \in ExtrasOf(s) PROVE RecordOK(x) /\ SettledWith(e, x)
  <2>1. /\ RecordOK(x) /\ x.statement = s /\ x.category \in EXTRA
        /\ x.order = None \/ x.order \in STATEMENT[s].orders
    BY ExtrasAre
  <2>2. \A c \in EXTRA : c \notin OffStatement
    BY DEF EXTRA, OffStatement
  <2> QED
    BY <1>7, <2>1, <2>2
<1>11. RecordOK(PayoutOf(d, s)) /\ SettledWith(e, PayoutOf(d, s))
  <2>1. PICK x : x = PayoutOf(d, s)
    OBVIOUS
  <2>2. RecordOK(x) /\ x.statement = s /\ x.category = "settlement" /\ x.order = None
    BY <2>1, PayoutIs
  <2>3. SettledWith(e, x)
    BY <1>7, <2>2 DEF OffStatement
  <2> QED
    BY <2>1, <2>2, <2>3
<1>12. \A x \in e.ledger : RecordOK(x) /\ SettledWith(e, x)
  BY <1>2, <1>8, <1>9, <1>10, <1>11
<1>13. \A q \in e.statements : q.id # <<0>> /\ Reconciled(e, q.id) = -Paid(e, q.id)
  <2>1. ASSUME NEW q \in d.statements PROVE q.id # <<0>> /\ Reconciled(e, q.id) = -Paid(e, q.id)
    <3>1. q.id # <<0>> /\ Reconciled(d, q.id) = -Paid(d, q.id)
      BY DEF SettledOK
    <3> QED
      BY <1>1, <3>1, StatementPays
  <2>2. row.id # <<0>> /\ Reconciled(e, row.id) = -Paid(e, row.id)
    BY <1>1, <1>3, <1>6, StatementPays
  <2> QED
    BY <1>3, <2>1, <2>2
<1>14. SettledOK(e)
  BY <1>4, <1>5, <1>12, <1>13 DEF SettledOK
<1> QED
  BY <1>1, <1>14
\* What neither posts nor settles anything leaves it as it was.
LEMMA SettledSame ==
  ASSUME NEW d, SettledOK(d), NEW e, e.ledger = d.ledger, e.orders = d.orders,
         e.statements = d.statements, e.positions = d.positions, e.others = d.others
  PROVE  SettledOK(e)
<1>1. \A id : Reconciled(e, id) = Reconciled(d, id) /\ Paid(e, id) = Paid(d, id)
  BY SameStatement
<1>2. \A x \in e.ledger : SettledWith(e, x)
  BY DEF SettledOK, SettledWith
<1> QED
  BY <1>1, <1>2 DEF SettledOK

\* Nor does a number on a statement.
LEMMA InvoiceSettled ==
  ASSUME NEW d, TablesOK(d), SettledOK(d), NEW id, NEW number
  PROVE  SettledOK(RecordInvoice(d, id, number))
<1> DEFINE f(r) == IF r.id = id THEN [r EXCEPT !.invoice = number] ELSE r
           rows == {f(r) : r \in d.statements}
<1>1. PICK e : e = RecordInvoice(d, id, number)
  OBVIOUS
<1>2. /\ e.ledger = d.ledger /\ e.orders = d.orders /\ e.positions = d.positions /\ e.others = d.others
      /\ e.statements = rows
  <2>1. d = [t \in TABLE |-> d[t]]
    BY DEF TablesOK
  <2>2. e.statements = rows
    BY <1>1, <2>1 DEF RecordInvoice, TABLE
  <2> QED
    BY <1>1, <2>1, <2>2 DEF RecordInvoice, TABLE
<1>3. \A r \in d.statements : f(r).id = r.id
  BY DEF TablesOK, Keyed
<1>4. /\ \A r \in d.statements : \E q \in e.statements : q.id = r.id
      /\ \A q \in e.statements : \E r \in d.statements : q.id = r.id
  BY <1>2, <1>3
<1>5. \A k : Reconciled(e, k) = Reconciled(d, k) /\ Paid(e, k) = Paid(d, k)
  BY <1>2, SameStatement
<1>6. ASSUME NEW x \in e.ledger PROVE RecordOK(x) /\ SettledWith(e, x)
  <2>1. RecordOK(x) /\ SettledWith(d, x)
    BY <1>2 DEF SettledOK
  <2> QED
    BY <1>2, <1>4, <2>1 DEF SettledWith
<1>7. \A q \in e.statements : q.id # <<0>> /\ Reconciled(e, q.id) = -Paid(e, q.id)
  BY <1>4, <1>5 DEF SettledOK
<1>8. SettledOK(e)
  BY <1>2, <1>6, <1>7 DEF SettledOK
<1> QED
  BY <1>1, <1>8

\* Another count of one variant's stock leaves a position for each.
LEMMA CountSettled ==
  ASSUME NEW d, TablesOK(d), SettledOK(d), NEW p
  PROVE  SettledOK([d EXCEPT !.positions = {q \in @ : q.sku # p.sku} \cup {p}])
<1>1. PICK e : e = [d EXCEPT !.positions = {q \in @ : q.sku # p.sku} \cup {p}]
  OBVIOUS
<1>2. /\ e.ledger = d.ledger /\ e.orders = d.orders /\ e.statements = d.statements /\ e.others = d.others
      /\ e.positions = {q \in d.positions : q.sku # p.sku} \cup {p}
  <2>1. d = [t \in TABLE |-> d[t]]
    BY DEF TablesOK
  <2> QED
    BY <1>1, <2>1 DEF TABLE
<1>3. \A q, r \in e.positions : q.sku = r.sku => q = r
  BY <1>2 DEF SettledOK
<1>4. \A k : Reconciled(e, k) = Reconciled(d, k) /\ Paid(e, k) = Paid(d, k)
  BY <1>2, SameStatement
<1>5. \A x \in e.ledger : SettledWith(e, x)
  BY <1>2 DEF SettledOK, SettledWith
<1>6. SettledOK(e)
  BY <1>2, <1>3, <1>4, <1>5 DEF SettledOK
<1> QED
  BY <1>1, <1>6

\* A channel's sales of a month are of a month.
LEMMA SalesSettled ==
  ASSUME NEW d, TablesOK(d), SettledOK(d), NEW o \in SalesWrite
  PROVE  SettledOK(PutOtherSales(d, o.channel, o.month, o.gross))
<1>1. PICK e : e = PutOtherSales(d, o.channel, o.month, o.gross)
  OBVIOUS
<1> DEFINE kept == {x \in d.others : x.channel # o.channel \/ x.month # o.month}
           row == [channel |-> o.channel, month |-> o.month, gross |-> o.gross]
<1>2. /\ e.ledger = d.ledger /\ e.orders = d.orders /\ e.statements = d.statements /\ e.positions = d.positions
      /\ e.others = kept \cup {row}
  <2>1. d = [t \in TABLE |-> d[t]]
    BY DEF TablesOK
  <2> QED
    BY <1>1, <2>1 DEF TABLE, PutOtherSales
<1>3. row.month \in MonthStart /\ row.gross \in Int
  BY BooksAssumption DEF BooksAssumption
<1>4. kept \subseteq d.others
  OBVIOUS
<1> HIDE DEF row, kept
<1>5. IsFiniteSet(d.others) /\ \A x \in d.others : x.month \in MonthStart /\ x.gross \in Int
  BY DEF SettledOK
<1>6. IsFiniteSet(kept)
  BY <1>4, <1>5, FS_Subset
<1>7. IsFiniteSet(kept \cup {row})
  BY <1>6, FS_Union, FS_Singleton
<1>8. IsFiniteSet(e.others) /\ \A x \in e.others : x.month \in MonthStart /\ x.gross \in Int
  BY <1>2, <1>3, <1>4, <1>5, <1>7
<1>9. \A k : Reconciled(e, k) = Reconciled(d, k) /\ Paid(e, k) = Paid(d, k)
  BY <1>2, SameStatement
<1>10. \A x \in e.ledger : SettledWith(e, x)
  BY <1>2 DEF SettledOK, SettledWith
<1>11. SettledOK(e)
  BY <1>2, <1>8, <1>9, <1>10 DEF SettledOK
<1> QED
  BY <1>1, <1>11

\* Whatever is committed, the screens can rely on it.
LEMMA CommitSettled ==
  ASSUME HistoryOK, FiguresOK(db), SettledOK(db), Commit
  PROVE  SettledOK(db)'
<1>1. TablesOK(db) /\ db = [t \in TABLE |-> db[t]]
  <2>1. TablesOK(db)
    BY Growing DEF HistoryOK, db
  <2> QED
    BY <2>1 DEF TablesOK
<1>2. ASSUME NEW d, Write(d) PROVE db' = d
  <2>1. commits' = Append(commits, d)
    BY <1>2 DEF Write
  <2>2. Len(commits') = Len(commits) + 1 /\ commits'[Len(commits) + 1] = d
    BY <2>1, Growing DEF HistoryOK
  <2> QED
    BY <2>2 DEF db
<1>3. ASSUME NEW d, Write(d), SettledOK(d) PROVE SettledOK(db)'
  BY <1>2, <1>3
<1>4. ASSUME NEW t \in TABLE \ {"ledger", "orders", "statements", "positions", "others"}, NEW v,
             Write([db EXCEPT ![t] = v])
      PROVE  SettledOK(db)'
  <2>1. PICK e : e = [db EXCEPT ![t] = v]
    OBVIOUS
  <2>2. /\ e.ledger = db.ledger /\ e.orders = db.orders /\ e.statements = db.statements
        /\ e.positions = db.positions /\ e.others = db.others
    BY <1>1, <2>1 DEF TABLE
  <2>3. SettledOK(e)
    BY <2>2, SettledSame
  <2> QED
    BY <1>3, <1>4, <2>1, <2>3
<1>5. {"costs", "runs", "link", "discs", "notices", "profile", "low_days"}
        \subseteq TABLE \ {"ledger", "orders", "statements", "positions", "others"}
  BY DEF TABLE
<1>6. ASSUME NEW o \in DOMAIN ORDER, SyncOrder(o) PROVE SettledOK(db)'
  BY <1>1, <1>3, <1>6, OrderSettled DEF SyncOrder
<1>7. ASSUME NEW s \in DOMAIN STATEMENT, SyncStatement(s) PROVE SettledOK(db)'
  <2>1. SettledOK(PostStatement(db, s)) /\ Write(PostStatement(db, s))
    BY <1>1, <1>7, StatementSettled DEF SyncStatement
  <2> QED
    BY <1>3, <2>1
<1>8. ASSUME NEW r \in DOMAIN RETURN, SyncReturn(r) PROVE SettledOK(db)'
  <2>1. SettledOK(PostReturn(db, r)) /\ Write(PostReturn(db, r))
    BY <1>1, <1>8, ReturnSettled DEF SyncReturn
  <2> QED
    BY <1>3, <2>1
<1>9. ASSUME NEW c \in CostWrite, NewCost(c) PROVE SettledOK(db)'
  BY <1>4, <1>5, <1>9 DEF NewCost
<1>10. ASSUME NEW p \in PositionWrite, CountStock(p) PROVE SettledOK(db)'
  BY <1>1, <1>3, <1>10, CountSettled DEF CountStock
<1>11. ASSUME NEW run \in RunWrite, EndRun(run) PROVE SettledOK(db)'
  BY <1>4, <1>5, <1>11 DEF EndRun
<1>12. ASSUME NEW link \in LinkWrite, Relink(link) PROVE SettledOK(db)'
  BY <1>4, <1>5, <1>12 DEF Relink
<1>13. ASSUME NEW x \in db.discs, Resolve(x) PROVE SettledOK(db)'
  BY <1>4, <1>5, <1>13 DEF Resolve
<1>14. ASSUME NEW n \in db.notices, NEW status \in {"read", "done"}, Notice(n, status) PROVE SettledOK(db)'
  BY <1>4, <1>5, <1>14 DEF Notice
<1>15. ASSUME NEW o \in SalesWrite, EnterSales(o) PROVE SettledOK(db)'
  BY <1>1, <1>3, <1>15, SalesSettled DEF EnterSales
<1>16. ASSUME NEW p \in Profile, SaveProfile(p) PROVE SettledOK(db)'
  BY <1>4, <1>5, <1>16 DEF SaveProfile, PutTaxProfile
<1>17. ASSUME NEW days \in LowDays, SaveSettings(days) PROVE SettledOK(db)'
  BY <1>4, <1>5, <1>17 DEF SaveSettings, PutAlertSettings
<1>18. ASSUME NEW s \in db.statements, NEW number \in InvoiceNumber, SaveInvoice(s, number) PROVE SettledOK(db)'
  BY <1>1, <1>3, <1>18, InvoiceSettled DEF SaveInvoice
<1> QED
  BY <1>6, <1>7, <1>8, <1>9, <1>10, <1>11, <1>12, <1>13, <1>14, <1>15, <1>16, <1>17, <1>18 DEF Commit

\* It holds at the start, and after every step.
LEMMA ScreensInit == ASSUME Init PROVE ScreensInv
<1>1. db = Start
  BY DEF Init, db
<1> QED
  BY <1>1, BooksAssumption DEF BooksAssumption, ScreensInv

\* A step either commits, or leaves the books as they were.
LEMMA ScreensStep == ASSUME PagingInv, DetailInv, ScreensInv, [Next]_vars PROVE ScreensInv'
<1>1. CASE Commit
  <2>1. FiguresOK(db)
    BY Growing DEF DetailInv, PagingInv, HistoryOK, db
  <2> QED
    BY <1>1, <2>1, CommitSettled DEF PagingInv, ScreensInv
<1>2. CASE UNCHANGED commits
  BY <1>2 DEF ScreensInv, db
<1> QED
  BY <1>1, <1>2 DEF Next, vars, Ask, Read, Reply, Leave

-------------------------------------------------------------------------------
(* What two screens make of the same books. *)

\* Books that every commit leaves.
Booked(d) == TablesOK(d) /\ FiguresOK(d) /\ SettledOK(d)

\* The entries are as they should be, and any of them can be added up.
LEMMA EntriesAre ==
  ASSUME NEW d, Booked(d)
  PROVE  /\ IsFiniteSet(d.ledger)
         /\ \A x \in d.ledger : RecordOK(x) /\ SettledWith(d, x) /\ x.amount \in Int
BY FiguresAre DEF Booked, TablesOK, SettledOK, Addable

\* Some of the entries of booked tables can be added up.
LEMMA SomeEntries ==
  ASSUME NEW d, Booked(d), NEW S, S \subseteq d.ledger
  PROVE  IsFiniteSet(S) /\ (\A x \in S : x.amount \in Int) /\ Amount(S) \in Int
<1>1. IsFiniteSet(S) /\ \A x \in S : x.amount \in Int
  BY EntriesAre, FS_Subset
<1> QED
  BY <1>1, AmountType

\* The entries of the calculator.
Shown(d, period) == {e \in d.ledger : InPeriod(e, period) /\ e.category # "cost_of_goods_sold"}

\* What statements say, of each of them.
LEMMA StatementsAreAgreed == ASSUME Booked(db) PROVE StatementsAgree
<1>1. ASSUME NEW s \in db.statements
      PROVE  SettlementDetail(db, db, db, s.id).net_proceeds = -Paid(db, s.id)
  <2>1. {r \in db.statements : r.id = s.id} # {}
    OBVIOUS
  <2>2. SettlementDetail(db, db, db, s.id).net_proceeds = Reconciled(db, s.id)
    BY <2>1 DEF SettlementDetail
  <2> QED
    BY <2>2 DEF Booked, SettledOK
<1> QED
  BY <1>1 DEF StatementsAgree

\* The categories of the chain.
LEMMA ChainIs ==
  /\ DOMAIN CHAIN = 1 .. 5
  /\ CHAIN[1].categories = {"gross_sales", "seller_discount"}
  /\ CHAIN[2].categories = TIKTOK_FEES /\ CHAIN[3].categories = {"refund"}
  /\ CHAIN[4].categories = {"seller_shipping"}
  /\ CHAIN[5].categories = {"return_shipping", "stock_written_off"}
  /\ UNION {CHAIN[i].categories : i \in 1 .. 3} = NET_PROCEEDS_CATEGORIES
  /\ UNION {CHAIN[i].categories : i \in 1 .. 5}
       = NET_PROCEEDS_CATEGORIES \cup {"seller_shipping", "return_shipping", "stock_written_off"}
<1>1. /\ DOMAIN CHAIN = 1 .. 5
      /\ CHAIN[1].categories = {"gross_sales", "seller_discount"}
      /\ CHAIN[2].categories = TIKTOK_FEES /\ CHAIN[3].categories = {"refund"}
      /\ CHAIN[4].categories = {"seller_shipping"}
      /\ CHAIN[5].categories = {"return_shipping", "stock_written_off"}
  BY DEF CHAIN
<1> DEFINE c(i) == CHAIN[i].categories
<1>2. 1 .. 3 = {1, 2, 3} /\ 1 .. 5 = {1, 2, 3, 4, 5}
  OBVIOUS
<1>3. UNION {c(i) : i \in {1, 2, 3}} = (c(1) \cup c(2)) \cup c(3)
  OBVIOUS
<1>4. UNION {c(i) : i \in {1, 2, 3, 4, 5}} = (((c(1) \cup c(2)) \cup c(3)) \cup c(4)) \cup c(5)
  OBVIOUS
<1>5. (c(1) \cup c(2)) \cup c(3) = NET_PROCEEDS_CATEGORIES
  BY <1>1 DEF NET_PROCEEDS_CATEGORIES
<1> QED
  BY <1>1, <1>2, <1>3, <1>4, <1>5

\* What a return loses.
RETURN_LOSSES == {"return_shipping", "stock_written_off"}

\* What was sold, whether the cost of all of it is known, and what it was.
SoldRows(d, period) == {row \in ProductRows(d, period) : row.units > 0}
AllCosted(d, period) == {row \in SoldRows(d, period) : row.without_cost = 0} = SoldRows(d, period)
CostOfSold(d, period) ==
  IF AllCosted(d, period) THEN -MapThenSumSet(LAMBDA row : row.cost_retained, SoldRows(d, period)) ELSE 0

\* The figures of the calculator.
LEMMA MoneyIs ==
  ASSUME NEW d, NEW period, NEW money, money = Calculate(d, d, period),
         NEW shown, shown = Shown(d, period)
  PROVE  /\ money.gross_sales = Amount(Within(shown, {"gross_sales"}))
         /\ money.net_proceeds = Amount(Within(shown, NET_PROCEEDS_CATEGORIES))
         /\ money.complete <=> AllCosted(d, period)
         /\ money.gross_profit = (Amount(Within(shown, NET_PROCEEDS_CATEGORIES)) + CostOfSold(d, period))
                                   + Amount(Within(shown, {"seller_shipping"}))
         /\ money.after_returns = money.gross_profit + Amount(Within(shown, RETURN_LOSSES))
         /\ money.unmapped = Cardinality(Within(shown, {"unmapped_fee"}))
<1> DEFINE sold == SoldRows(d, period)
<1>1. money = View(shown, LinesOf(shown), sold, period)
  BY DEF Calculate, Shown, SoldRows
<1> HIDE DEF sold
<1>2. money.gross_sales = Amount(Within(shown, {"gross_sales"}))
  BY <1>1 DEF View
<1>3. money.net_proceeds = Amount(Within(shown, NET_PROCEEDS_CATEGORIES))
  <2>1. money.net_proceeds = Amount(Within(shown, UNION {CHAIN[i].categories : i \in 1 .. 3}))
    BY <1>1 DEF View
  <2> QED
    BY <2>1, ChainIs
<1>4. money.complete <=> AllCosted(d, period)
  <2> DEFINE costed == {row \in sold : row.without_cost = 0}
  <2>1. money.complete = (costed = sold)
    BY <1>1 DEF View
  <2>2. (costed = sold) \in BOOLEAN
    OBVIOUS
  <2> HIDE DEF costed
  <2>3. money.complete <=> costed = sold
    BY <2>1, <2>2
  <2> QED
    BY <2>3 DEF costed, sold, AllCosted
<1>5. money.gross_profit = (Amount(Within(shown, NET_PROCEEDS_CATEGORIES)) + CostOfSold(d, period))
                             + Amount(Within(shown, {"seller_shipping"}))
  <2> DEFINE cogs == IF {row \in sold : row.without_cost = 0} = sold
                       THEN -MapThenSumSet(LAMBDA row : row.cost_retained, sold) ELSE 0
  <2>1. money.gross_profit = (Amount(Within(shown, UNION {CHAIN[i].categories : i \in 1 .. 3})) + cogs)
                             + Amount(Within(shown, {"seller_shipping"}))
    BY <1>1 DEF View
  <2>2. cogs = CostOfSold(d, period)
    BY DEF CostOfSold, AllCosted, sold
  <2> HIDE DEF cogs
  <2> QED
    BY <2>1, <2>2, ChainIs
<1>6. money.after_returns = money.gross_profit + Amount(Within(shown, RETURN_LOSSES))
  BY <1>1 DEF View, RETURN_LOSSES
<1>7. money.unmapped = Cardinality(Within(shown, {"unmapped_fee"}))
  BY <1>1 DEF View
<1> QED
  BY <1>2, <1>3, <1>4, <1>5, <1>6, <1>7

-------------------------------------------------------------------------------
(* The ranking and the Money screen. *)

\* What has a variant, and what has none, in some categories.
OwnedIn(d, period, C) == Within(Scoped(d, period), C)
LooseIn(d, period, C) == Within({e \in d.ledger : e.sku = None /\ InPeriod(e, period)}, C)
OfProduct(S, p) == {e \in S : ProductOf[e.sku] = p}
ProductsIn(d, period) == {ProductOf[e.sku] : e \in Scoped(d, period)}

\* What the calculator shows of some categories has a variant or has none.
LEMMA ShownIs ==
  ASSUME NEW d, Booked(d), NEW period, NEW C, "cost_of_goods_sold" \notin C
  PROVE  /\ Amount(Within(Shown(d, period), C)) = Amount(OwnedIn(d, period, C)) + Amount(LooseIn(d, period, C))
         /\ Amount(OwnedIn(d, period, C)) \in Int /\ Amount(LooseIn(d, period, C)) \in Int
<1> DEFINE A == OwnedIn(d, period, C)
           B == LooseIn(d, period, C)
<1>1. A \subseteq d.ledger /\ B \subseteq d.ledger
  BY DEF OwnedIn, LooseIn, Within, Scoped
<1>2. A \cap B = {}
  BY DEF OwnedIn, LooseIn, Within, Scoped
<1>3. Within(Shown(d, period), C) = A \cup B
  BY DEF OwnedIn, LooseIn, Within, Scoped, Shown
<1> HIDE DEF A, B
<1>4. Amount(A \cup B) = Amount(A) + Amount(B)
  BY <1>1, <1>2, SomeEntries, AmountUnion
<1> QED
  BY <1>1, <1>3, <1>4, SomeEntries DEF A, B

\* Nothing comes to 0.
LEMMA AmountOfNone == Amount({}) = 0
<1>1. IsFiniteSet({}) /\ \A e \in {} : <<>>[e] = e.amount
  BY FS_EmptySet
<1> QED
  BY <1>1, AmountIsSum, SumNothing

\* Two groups of categories that share none.
LEMMA CategoriesAddUp ==
  ASSUME NEW S, IsFiniteSet(S), \A e \in S : e.amount \in Int, NEW C, NEW D, C \cap D = {}
  PROVE  Amount(Within(S, C \cup D)) = Amount(Within(S, C)) + Amount(Within(S, D))
<1> DEFINE A == Within(S, C)
           B == Within(S, D)
<1>1. A \subseteq S /\ B \subseteq S /\ A \cap B = {} /\ Within(S, C \cup D) = A \cup B
  BY DEF Within
<1>2. IsFiniteSet(A) /\ IsFiniteSet(B) /\ (\A x \in A : x.amount \in Int) /\ \A x \in B : x.amount \in Int
  BY <1>1, FS_Subset
<1> HIDE DEF A, B
<1>3. Amount(A \cup B) = Amount(A) + Amount(B)
  BY <1>1, <1>2, AmountUnion
<1> QED
  BY <1>1, <1>3 DEF A, B

\* The units sold of a variant are no fewer than none.
LEMMA SoldIsNatural ==
  ASSUME NEW d, Booked(d), NEW period, NEW sku
  PROVE  Sold(d, period, sku) \in Nat
<1> DEFINE some == {e \in Scoped(d, period) : e.category = "gross_sales" /\ e.sku = sku}
           f == [e \in some |-> e.line]
           S == {e.line : e \in some}
           q == [l \in S |-> OrderLine[l].quantity]
           z == [l \in S |-> 0]
<1>1. IsFiniteSet(some)
  <2>1. some \subseteq d.ledger
    BY DEF Scoped
  <2> HIDE DEF some
  <2> QED
    BY <2>1, SomeEntries
<1>2. S = {f[e] : e \in some}
  OBVIOUS
<1>3. \A e \in some : f[e] \in DOMAIN OrderLine
  BY DEF Booked, FiguresOK, Scoped
<1>4. \A l \in S : q[l] = OrderLine[l].quantity /\ z[l] = 0
  OBVIOUS
<1>5. S = {e.line : e \in {e \in Scoped(d, period) : e.category = "gross_sales" /\ e.sku = sku}}
  OBVIOUS
<1> HIDE DEF some, f, S, q, z
<1>6. IsFiniteSet(S)
  BY <1>1, <1>2, FiniteImage
<1>7. \A l \in S : q[l] \in Int /\ z[l] \in Int /\ z[l] <= q[l]
  BY <1>2, <1>3, <1>4, LedgerAssumption DEF LedgerAssumption
<1>8. Sold(d, period, sku) = SumOf(q, S)
  BY <1>4, <1>5, <1>6, SoldIsSum
<1>9. SumOf(z, S) <= SumOf(q, S)
  BY <1>6, <1>7, SumAtMost
<1>10. SumOf(z, S) = 0 * Cardinality(S) /\ Cardinality(S) \in Nat
  BY <1>4, <1>6, SumConstant, FS_CardinalityType
<1>11. SumOf(q, S) \in Int
  BY <1>6, <1>7, SumType
<1> QED
  BY <1>8, <1>9, <1>10, <1>11

\* The units of a row are a sum.
LEMMA UnitsIsSum ==
  ASSUME NEW d, NEW period, NEW product, NEW S, S = {s \in Sku : ProductOf[s] = product},
         IsFiniteSet(S), NEW q, \A s \in S : q[s] = Sold(d, period, s)
  PROVE  ProductRow(d, period, product).units = SumOf(q, S)
<1> DEFINE P(h) == h = [s \in SUBSET S |->
                    IF s = {} THEN 0
                    ELSE Sold(d, period, CHOOSE x \in s : TRUE) + h[s \ {CHOOSE x \in s : TRUE}]]
<1>1. ASSUME NEW h PROVE P(h) <=> Adds(q, S, h)
  <2>1. \A s \in SUBSET S : s # {} => q[OneOf(s)] = Sold(d, period, OneOf(s))
    BY OneIn
  <2> QED
    BY <2>1 DEF Adds, OneOf
<1>2. ProductRow(d, period, product).units = MapThenSumSet(LAMBDA s : Sold(d, period, s), S)
  BY DEF ProductRow
<1>3. MapThenSumSet(LAMBDA s : Sold(d, period, s), S) = (CHOOSE h : P(h))[S]
  BY DEF P, MapThenSumSet, MapThenFoldSet
<1> HIDE DEF P
<1>4. P(TheSums(q, S))
  BY <1>1, TheOnlySums
<1>5. Adds(q, S, CHOOSE h : P(h))
  BY <1>1, <1>4
<1> QED
  BY <1>2, <1>3, <1>5, TheOnlySums DEF SumOf

\* A product of which a variant was sold has units.
LEMMA UnitsOf ==
  ASSUME NEW d, Booked(d), NEW period, NEW product, SkusSold(d, period, product) # {}
  PROVE  ProductRow(d, period, product).units > 0
<1> DEFINE S == {s \in Sku : ProductOf[s] = product}
           q == [s \in S |-> Sold(d, period, s)]
           z == [s \in S |-> 0]
<1>1. PICK s \in S : Sold(d, period, s) > 0
  BY DEF SkusSold
<1>2. S = {t \in Sku : ProductOf[t] = product} /\ \A t \in S : q[t] = Sold(d, period, t) /\ z[t] = 0
  OBVIOUS
<1> HIDE DEF S, q, z
<1> DEFINE R == S \ {s}
<1>3. IsFiniteSet(S) /\ IsFiniteSet(R) /\ R \subseteq S
  <2>1. S \subseteq Sku /\ IsFiniteSet(Sku)
    BY <1>2, LedgerAssumption DEF LedgerAssumption, Sku
  <2> QED
    BY <2>1, FS_Subset
<1>4. \A t \in S : q[t] \in Int /\ z[t] \in Int /\ z[t] <= q[t]
  BY <1>2, SoldIsNatural
<1>5. ProductRow(d, period, product).units = SumOf(q, S)
  BY <1>2, <1>3, UnitsIsSum
<1>6. SumOf(q, S) = q[s] + SumOf(q, R)
  BY <1>3, <1>4, SumAny
<1> HIDE DEF R
<1>7. SumOf(z, R) <= SumOf(q, R) /\ SumOf(q, R) \in Int
  BY <1>3, <1>4, SumAtMost, SumType
<1>8. SumOf(z, R) = 0 * Cardinality(R) /\ Cardinality(R) \in Nat
  BY <1>2, <1>3, SumConstant, FS_CardinalityType
<1> QED
  BY <1>1, <1>2, <1>4, <1>5, <1>6, <1>7, <1>8

\* Of what has a variant, what counts and what is lost go by category as they do by type.
LEMMA OwnedByType ==
  ASSUME NEW d, Booked(d), NEW period
  PROVE  /\ {e \in Scoped(d, period) : e.type \in NET_PROCEEDS_TYPES} = OwnedIn(d, period, NET_PROCEEDS_CATEGORIES)
         /\ {e \in Scoped(d, period) : e.type \in RETURN_LOSS_TYPES} = OwnedIn(d, period, RETURN_LOSSES)
         /\ OwnedIn(d, period, {"seller_shipping"}) = {}
         /\ LooseIn(d, period, {"seller_shipping"}) = {}
<1>1. ASSUME NEW e \in Scoped(d, period)
      PROVE  /\ e.type \in NET_PROCEEDS_TYPES <=> e.category \in NET_PROCEEDS_CATEGORIES
             /\ e.type \in RETURN_LOSS_TYPES <=> e.category \in RETURN_LOSSES
  <2>1. e \in d.ledger /\ e.sku # None
    BY DEF Scoped
  <2>2. e.category \in VariantCategory /\ e.type = ENTRY_TYPE(e.category)
    BY <2>1 DEF Booked, FiguresOK
  <2>3. e.category # "platform_adjustment"
    BY <2>2, CategoriesAre, VariantCategoriesAre, SectionsAre
  <2> QED
    BY <2>2, <2>3, TypesOfCategories DEF RETURN_LOSSES
<1>2. ASSUME NEW e \in d.ledger PROVE e.category # "seller_shipping"
  BY CategoriesAre, EntriesAre DEF RecordOK
<1>3. OwnedIn(d, period, {"seller_shipping"}) = {} /\ LooseIn(d, period, {"seller_shipping"}) = {}
  BY <1>2 DEF OwnedIn, LooseIn, Within, Scoped
<1> QED
  BY <1>1, <1>3 DEF OwnedIn, Within

\* What a row says.
LEMMA RowIs ==
  ASSUME NEW d, Booked(d), NEW period, NEW p, NEW row, row = ProductRow(d, period, p)
  PROVE  /\ row.product = p
         /\ row.gross_sales = Amount(OfProduct(OwnedIn(d, period, {"gross_sales"}), p))
         /\ row.net_proceeds = Amount(OfProduct(OwnedIn(d, period, NET_PROCEEDS_CATEGORIES), p))
         /\ row.cost_retained = Retained(d, period, p)
         /\ row.kept = (row.net_proceeds - row.cost_retained)
                         + Amount(OfProduct(OwnedIn(d, period, RETURN_LOSSES), p))
         /\ row.cost_known => row.units > 0 /\ row.without_cost = 0
         /\ row.cost_retained \in Int
<1> DEFINE own == {e \in Scoped(d, period) : ProductOf[e.sku] = p}
<1>1. /\ row.product = p
      /\ row.gross_sales = Amount(Within(own, {"gross_sales"}))
      /\ row.net_proceeds = Amount({e \in own : e.type \in NET_PROCEEDS_TYPES})
      /\ row.cost_retained = Retained(d, period, p)
      /\ row.without_cost = Cardinality(WithoutCost(d, period, p))
      /\ row.cost_known = (SkusSold(d, period, p) # {} /\ WithoutCost(d, period, p) = {})
  BY DEF ProductRow
<1>2. row.kept = (Amount({e \in own : e.type \in NET_PROCEEDS_TYPES}) - Retained(d, period, p))
                   + Amount({e \in own : e.type \in RETURN_LOSS_TYPES})
  BY DEF ProductRow
<1>3. Within(own, {"gross_sales"}) = OfProduct(OwnedIn(d, period, {"gross_sales"}), p)
  BY DEF OfProduct, OwnedIn, Within
<1>4. {e \in own : e.type \in NET_PROCEEDS_TYPES} = OfProduct(OwnedIn(d, period, NET_PROCEEDS_CATEGORIES), p)
  <2>1. {e \in own : e.type \in NET_PROCEEDS_TYPES} = OfProduct({e \in Scoped(d, period) : e.type \in NET_PROCEEDS_TYPES}, p)
    BY DEF OfProduct
  <2> QED
    BY <2>1, OwnedByType
<1>5. {e \in own : e.type \in RETURN_LOSS_TYPES} = OfProduct(OwnedIn(d, period, RETURN_LOSSES), p)
  <2>1. {e \in own : e.type \in RETURN_LOSS_TYPES} = OfProduct({e \in Scoped(d, period) : e.type \in RETURN_LOSS_TYPES}, p)
    BY DEF OfProduct
  <2> QED
    BY <2>1, OwnedByType
<1> HIDE DEF own
<1>6. row.cost_known => row.units > 0 /\ row.without_cost = 0
  <2>1. row.cost_known => SkusSold(d, period, p) # {} /\ WithoutCost(d, period, p) = {}
    BY <1>1
  <2> QED
    BY <1>1, <2>1, UnitsOf, FS_EmptySet
<1>7. Retained(d, period, p) \in Int
  BY RetainedType DEF Booked
<1> QED
  BY <1>1, <1>2, <1>3, <1>4, <1>5, <1>6, <1>7

\* The rows are of the products with an entry, one for each.
LEMMA RowsAre ==
  ASSUME NEW d, Booked(d), NEW period
  PROVE  /\ IsFiniteSet(ProductsIn(d, period)) /\ IsFiniteSet(ProductRows(d, period))
         /\ ProductRows(d, period) = {ProductRow(d, period, p) : p \in ProductsIn(d, period)}
         /\ \A p, o \in ProductsIn(d, period) : ProductRow(d, period, p) = ProductRow(d, period, o) => p = o
<1> DEFINE S == Scoped(d, period)
           G == ProductsIn(d, period)
           f == [e \in S |-> ProductOf[e.sku]]
           g == [p \in G |-> ProductRow(d, period, p)]
<1>1. S \subseteq d.ledger
  BY DEF Scoped
<1>2. G = {f[e] : e \in S} /\ ProductRows(d, period) = {g[p] : p \in G}
  BY DEF ProductsIn, ProductRows
<1>3. ProductRows(d, period) = {ProductRow(d, period, p) : p \in G}
  BY DEF ProductsIn, ProductRows
<1> HIDE DEF S, f, g
<1>4. IsFiniteSet(S)
  BY <1>1, SomeEntries
<1>5. IsFiniteSet(G)
  BY <1>2, <1>4, FiniteImage
<1> HIDE DEF G
<1>6. IsFiniteSet(ProductRows(d, period))
  BY <1>2, <1>5, FiniteImage
<1>7. ASSUME NEW p \in G, NEW o \in G, ProductRow(d, period, p) = ProductRow(d, period, o) PROVE p = o
  BY <1>7, RowIs
<1> QED
  BY <1>3, <1>5, <1>6, <1>7 DEF G

\* What rows say of some entries adds up to the entries.
LEMMA RowsAddUp ==
  ASSUME NEW d, Booked(d), NEW period, NEW S, S \subseteq Scoped(d, period), NEW q,
         \A p \in ProductsIn(d, period) : q[ProductRow(d, period, p)] = Amount(OfProduct(S, p))
  PROVE  /\ SumOf(q, ProductRows(d, period)) = Amount(S)
         /\ \A row \in ProductRows(d, period) : q[row] \in Int
<1> DEFINE G == ProductsIn(d, period)
           f == [e \in S |-> ProductOf[e.sku]]
           a == [e \in S |-> e.amount]
           h == [p \in G |-> Amount(OfProduct(S, p))]
           r == [p \in G |-> ProductRow(d, period, p)]
<1>1. S \subseteq d.ledger
  BY DEF Scoped
<1>2. IsFiniteSet(S) /\ \A x \in S : x.amount \in Int
  BY <1>1, SomeEntries
<1>3. /\ \A e \in S : f[e] \in G /\ f[e] = ProductOf[e.sku] /\ a[e] = e.amount /\ a[e] \in Int
      /\ \A p \in G : h[p] = Amount(OfProduct(S, p)) /\ r[p] = ProductRow(d, period, p)
  BY <1>2 DEF ProductsIn
<1>4. ProductRows(d, period) = {r[p] : p \in G}
  BY RowsAre
<1> HIDE DEF G, f, a, h, r
<1>5. ASSUME NEW p \in G
      PROVE  h[p] = SumOf(a, GroupOf(S, f, p)) /\ h[p] \in Int /\ q[r[p]] = h[p]
  <2>1. OfProduct(S, p) = GroupOf(S, f, p) /\ OfProduct(S, p) \subseteq S
    BY <1>3 DEF OfProduct, GroupOf
  <2>2. IsFiniteSet(OfProduct(S, p)) /\ \A x \in OfProduct(S, p) : x.amount \in Int /\ a[x] = x.amount
    BY <1>2, <1>3, <2>1, FS_Subset
  <2>3. Amount(OfProduct(S, p)) = SumOf(a, OfProduct(S, p)) /\ Amount(OfProduct(S, p)) \in Int
    BY <2>2, AmountIsSum, AmountType
  <2> QED
    BY <1>3, <2>1, <2>3 DEF G
<1>6. IsFiniteSet(G) /\ IsFiniteSet({r[p] : p \in G}) /\ \A p, o \in G : r[p] = r[o] => p = o
  <2>1. IsFiniteSet(G)
    BY RowsAre DEF G
  <2>2. IsFiniteSet({r[p] : p \in G})
    BY <1>4, RowsAre
  <2>3. \A p, o \in G : ProductRow(d, period, p) = ProductRow(d, period, o) => p = o
    BY RowsAre DEF G
  <2>4. \A p, o \in G : r[p] = r[o] => p = o
    BY <1>3, <2>3
  <2> QED
    BY <2>1, <2>2, <2>4
<1>7. SumOf(h, G) = SumOf(a, S)
  <2>1. (\A e \in S : f[e] \in G) /\ \A e \in S : a[e] \in Int
    BY <1>3
  <2>2. \A p \in G : h[p] = SumOf(a, GroupOf(S, f, p))
    BY <1>5
  <2> QED
    BY <1>2, <1>6, <2>1, <2>2, SumGrouped
<1>8. SumOf(q, {r[p] : p \in G}) = SumOf(h, G)
  <2>1. (\A p \in G : q[r[p]] \in Int) /\ \A p \in G : h[p] = q[r[p]]
    BY <1>5
  <2> QED
    BY <1>6, <2>1, SumRenamed
<1>9. SumOf(a, S) = Amount(S)
  BY <1>2, <1>3, AmountIsSum
<1>10. \A row \in ProductRows(d, period) : q[row] \in Int
  BY <1>4, <1>5
<1> QED
  BY <1>4, <1>7, <1>8, <1>9, <1>10

\* The total of a ranking is a sum.
LEMMA TotalIsSum ==
  ASSUME NEW rows, IsFiniteSet(rows), NEW measure, NEW q, \A row \in rows : q[row] = Figure(row, measure)
  PROVE  MapThenSumSet(LAMBDA row : Figure(row, measure), rows) = SumOf(q, rows)
<1> DEFINE S == rows
           P(h) == h = [s \in SUBSET S |->
                    IF s = {} THEN 0
                    ELSE Figure(CHOOSE x \in s : TRUE, measure) + h[s \ {CHOOSE x \in s : TRUE}]]
<1>1. ASSUME NEW h PROVE P(h) <=> Adds(q, S, h)
  <2>1. \A s \in SUBSET S : s # {} => q[OneOf(s)] = Figure(OneOf(s), measure)
    BY OneIn
  <2> QED
    BY <2>1 DEF Adds, OneOf
<1>2. MapThenSumSet(LAMBDA row : Figure(row, measure), S) = (CHOOSE h : P(h))[S]
  BY DEF P, MapThenSumSet, MapThenFoldSet
<1> HIDE DEF P
<1>3. P(TheSums(q, S))
  BY <1>1, TheOnlySums
<1>4. Adds(q, S, CHOOSE h : P(h))
  BY <1>1, <1>3
<1> QED
  BY <1>2, <1>4, TheOnlySums DEF SumOf

\* The cost of what was retained of some products is a sum.
LEMMA CostsAreSum ==
  ASSUME NEW rows, IsFiniteSet(rows), NEW q, \A row \in rows : q[row] = row.cost_retained
  PROVE  MapThenSumSet(LAMBDA row : row.cost_retained, rows) = SumOf(q, rows)
<1> DEFINE S == rows
           P(h) == h = [s \in SUBSET S |->
                    IF s = {} THEN 0
                    ELSE (CHOOSE x \in s : TRUE).cost_retained + h[s \ {CHOOSE x \in s : TRUE}]]
<1>1. ASSUME NEW h PROVE P(h) <=> Adds(q, S, h)
  <2>1. \A s \in SUBSET S : s # {} => q[OneOf(s)] = OneOf(s).cost_retained
    BY OneIn
  <2> QED
    BY <2>1 DEF Adds, OneOf
<1>2. MapThenSumSet(LAMBDA row : row.cost_retained, S) = (CHOOSE h : P(h))[S]
  BY DEF P, MapThenSumSet, MapThenFoldSet
<1> HIDE DEF P
<1>3. P(TheSums(q, S))
  BY <1>1, TheOnlySums
<1>4. Adds(q, S, CHOOSE h : P(h))
  BY <1>1, <1>3
<1> QED
  BY <1>2, <1>4, TheOnlySums DEF SumOf

\* What was sold has cost a number.
LEMMA CostOfSoldType ==
  ASSUME NEW d, Booked(d), NEW period
  PROVE  CostOfSold(d, period) \in Int
<1> DEFINE sold == SoldRows(d, period)
           q == [row \in sold |-> row.cost_retained]
<1>1. sold \subseteq ProductRows(d, period)
  BY DEF SoldRows
<1>2. \A row \in sold : q[row] = row.cost_retained
  OBVIOUS
<1> HIDE DEF sold, q
<1>3. IsFiniteSet(sold) /\ \A row \in sold : q[row] \in Int
  BY <1>1, <1>2, RowsAre, RowIs, FS_Subset
<1>4. MapThenSumSet(LAMBDA row : row.cost_retained, sold) = SumOf(q, sold) /\ SumOf(q, sold) \in Int
  BY <1>2, <1>3, CostsAreSum, SumType
<1>5. PICK c : c = MapThenSumSet(LAMBDA row : row.cost_retained, sold)
  OBVIOUS
<1>6. CostOfSold(d, period) = IF AllCosted(d, period) THEN -c ELSE 0
  BY <1>5 DEF CostOfSold, sold
<1> QED
  BY <1>4, <1>5, <1>6

\* A total of the ranking.
LEMMA ShopTotalIs ==
  ASSUME NEW d, Booked(d), NEW period, NEW measure, NEW q,
         \A row \in ProductRows(d, period) : q[row] = Figure(row, measure)
  PROVE  LET total == Ranking(d, d, period, measure, MAX_LIMIT, 0)
         IN  /\ total.shop_total = SumOf(q, ProductRows(d, period)) + Amount(Unattributed(d, period, measure))
             /\ total.shop_known <=> (KeptBased(measure) => \A row \in ProductRows(d, period) : row.cost_known)
<1> DEFINE rows == ProductRows(d, period)
           loose == Amount(Unattributed(d, period, measure))
           known == KeptBased(measure) => \A row \in rows : row.cost_known
           total == Ranking(d, d, period, measure, MAX_LIMIT, 0)
<1>1. MapThenSumSet(LAMBDA row : Figure(row, measure), rows) = SumOf(q, rows)
  BY RowsAre, TotalIsSum
<1>2. /\ total.shop_total = MapThenSumSet(LAMBDA row : Figure(row, measure), rows) + loose
      /\ total.shop_known = known
  BY DEF Ranking, Ranked
<1>3. known \in BOOLEAN
  OBVIOUS
<1> HIDE DEF total, rows, loose
<1>4. total.shop_known <=> known
  BY <1>2, <1>3
<1> QED
  BY <1>1, <1>2, <1>4 DEF total, rows, loose

\* The categories of a measure.
LEMMA MeasuresAre ==
  /\ MeasureCategories("gross_sales") = {"gross_sales"}
  /\ MeasureCategories("net_proceeds") = NET_PROCEEDS_CATEGORIES
  /\ MeasureCategories("kept") = (NET_PROCEEDS_CATEGORIES \cup {"seller_shipping"}) \cup RETURN_LOSSES
  /\ NET_PROCEEDS_CATEGORIES \cap {"seller_shipping"} = {}
  /\ (NET_PROCEEDS_CATEGORIES \cup {"seller_shipping"}) \cap RETURN_LOSSES = {}
  /\ "cost_of_goods_sold" \notin MeasureCategories("kept")
  /\ KeptBased("kept") /\ ~KeptBased("gross_sales") /\ ~KeptBased("net_proceeds")
<1>1. Len(CHAIN) = 5
  BY DEF CHAIN
<1>2. /\ MeasureCategories("gross_sales") = {"gross_sales"}
      /\ MeasureCategories("net_proceeds") = UNION {CHAIN[i].categories : i \in 1 .. 3}
      /\ MeasureCategories("kept") = UNION {CHAIN[i].categories : i \in 1 .. 5}
  BY <1>1 DEF MeasureCategories
<1>3. /\ NET_PROCEEDS_CATEGORIES \cap {"seller_shipping"} = {}
      /\ (NET_PROCEEDS_CATEGORIES \cup {"seller_shipping"}) \cap RETURN_LOSSES = {}
      /\ "cost_of_goods_sold" \notin (NET_PROCEEDS_CATEGORIES \cup {"seller_shipping"}) \cup RETURN_LOSSES
  BY DEF NET_PROCEEDS_CATEGORIES, TIKTOK_FEES, RETURN_LOSSES
<1>4. UNION {CHAIN[i].categories : i \in 1 .. 5} = (NET_PROCEEDS_CATEGORIES \cup {"seller_shipping"}) \cup RETURN_LOSSES
  BY ChainIs DEF RETURN_LOSSES
<1> QED
  BY <1>2, <1>3, <1>4, ChainIs DEF KeptBased

\* A ranking by sales, and one by proceeds.
LEMMA SalesTotal ==
  ASSUME NEW d, Booked(d), NEW period, NEW measure \in {"gross_sales", "net_proceeds"},
         NEW C, C = MeasureCategories(measure)
  PROVE  Ranking(d, d, period, measure, MAX_LIMIT, 0).shop_total = Amount(Within(Shown(d, period), C))
<1> DEFINE rows == ProductRows(d, period)
           q == [row \in rows |-> Figure(row, measure)]
<1>1. \A row \in rows : q[row] = Figure(row, measure)
  OBVIOUS
<1>2. \A p \in ProductsIn(d, period) : ProductRow(d, period, p) \in rows
  BY RowsAre
<1> HIDE DEF q
<1>3. ASSUME NEW p \in ProductsIn(d, period)
      PROVE  q[ProductRow(d, period, p)] = Amount(OfProduct(OwnedIn(d, period, C), p))
  <2> DEFINE row == ProductRow(d, period, p)
  <2>1. /\ row.gross_sales = Amount(OfProduct(OwnedIn(d, period, {"gross_sales"}), p))
        /\ row.net_proceeds = Amount(OfProduct(OwnedIn(d, period, NET_PROCEEDS_CATEGORIES), p))
    BY RowIs
  <2>2. q[row] = Figure(row, measure)
    BY <1>1, <1>2
  <2> HIDE DEF row
  <2>3. ASSUME measure = "gross_sales" PROVE q[row] = Amount(OfProduct(OwnedIn(d, period, C), p))
    <3>1. Figure(row, measure) = row.gross_sales /\ C = {"gross_sales"}
      BY <2>3, MeasuresAre DEF Figure
    <3> QED
      BY <2>1, <2>2, <3>1
  <2>4. ASSUME measure = "net_proceeds" PROVE q[row] = Amount(OfProduct(OwnedIn(d, period, C), p))
    <3>1. Figure(row, measure) = row.net_proceeds /\ C = NET_PROCEEDS_CATEGORIES
      BY <2>4, MeasuresAre DEF Figure
    <3> QED
      BY <2>1, <2>2, <3>1
  <2>5. q[row] = Amount(OfProduct(OwnedIn(d, period, C), p))
    BY <2>3, <2>4
  <2> QED
    BY <2>5 DEF row
<1>4. OwnedIn(d, period, C) \subseteq Scoped(d, period) /\ LooseIn(d, period, C) = Unattributed(d, period, measure)
  BY DEF OwnedIn, LooseIn, Unattributed, Within
<1>5. SumOf(q, rows) = Amount(OwnedIn(d, period, C))
  BY <1>3, <1>4, RowsAddUp
<1>6. Ranking(d, d, period, measure, MAX_LIMIT, 0).shop_total = SumOf(q, rows) + Amount(LooseIn(d, period, C))
  BY <1>1, <1>4, ShopTotalIs
<1>7. "cost_of_goods_sold" \notin C
  BY MeasuresAre
<1> QED
  BY <1>5, <1>6, <1>7, ShownIs

\* What the rows kept, when each of them is known.
LEMMA KeptTotal ==
  ASSUME NEW d, Booked(d), NEW period,
         NEW rows, rows = ProductRows(d, period), \A row \in rows : row.cost_known,
         NEW costs, costs = MapThenSumSet(LAMBDA row : row.cost_retained, rows)
  PROVE  Ranking(d, d, period, "kept", MAX_LIMIT, 0).shop_total =
           ((Amount(OwnedIn(d, period, NET_PROCEEDS_CATEGORIES)) - costs) + Amount(OwnedIn(d, period, RETURN_LOSSES)))
             + Amount(Unattributed(d, period, "kept")) /\ costs \in Int
<1> DEFINE proceeds == [row \in rows |-> row.net_proceeds]
           cost == [row \in rows |-> row.cost_retained]
           less == [row \in rows |-> (-1) * row.cost_retained]
           lost == [row \in rows |-> Amount(OfProduct(OwnedIn(d, period, RETURN_LOSSES), row.product))]
           some == [row \in rows |-> row.net_proceeds + (-1) * row.cost_retained]
           kept == [row \in rows |-> Figure(row, "kept")]
<1>1. /\ \A row \in rows : proceeds[row] = row.net_proceeds /\ cost[row] = row.cost_retained
      /\ \A row \in rows : /\ less[row] = (-1) * cost[row] /\ kept[row] = Figure(row, "kept")
                           /\ lost[row] = Amount(OfProduct(OwnedIn(d, period, RETURN_LOSSES), row.product))
                           /\ some[row] = proceeds[row] + less[row]
  OBVIOUS
<1> HIDE DEF proceeds, cost, less, lost, some, kept
<1>2. \A p \in ProductsIn(d, period) : ProductRow(d, period, p) \in rows
  BY RowsAre
<1>3. ASSUME NEW row \in rows
      PROVE  \E p \in ProductsIn(d, period) : row = ProductRow(d, period, p)
  BY RowsAre
<1>4. /\ OwnedIn(d, period, RETURN_LOSSES) \subseteq Scoped(d, period)
      /\ OwnedIn(d, period, NET_PROCEEDS_CATEGORIES) \subseteq Scoped(d, period)
  BY DEF OwnedIn, Within
<1>5. /\ SumOf(proceeds, rows) = Amount(OwnedIn(d, period, NET_PROCEEDS_CATEGORIES))
      /\ \A row \in rows : proceeds[row] \in Int
  <2>1. \A p \in ProductsIn(d, period) :
          proceeds[ProductRow(d, period, p)] = Amount(OfProduct(OwnedIn(d, period, NET_PROCEEDS_CATEGORIES), p))
    BY <1>1, <1>2, RowIs
  <2> QED
    BY <1>4, <2>1, RowsAddUp
<1>6. /\ SumOf(lost, rows) = Amount(OwnedIn(d, period, RETURN_LOSSES))
      /\ \A row \in rows : lost[row] \in Int
  <2>1. \A p \in ProductsIn(d, period) :
          lost[ProductRow(d, period, p)] = Amount(OfProduct(OwnedIn(d, period, RETURN_LOSSES), p))
    BY <1>1, <1>2, RowIs
  <2> QED
    BY <1>4, <2>1, RowsAddUp
<1>7. ASSUME NEW row \in rows
      PROVE  cost[row] \in Int /\ less[row] \in Int /\ some[row] \in Int /\ kept[row] = some[row] + lost[row]
  <2>1. PICK p \in ProductsIn(d, period) : row = ProductRow(d, period, p)
    BY <1>3
  <2>2. row.kept = (row.net_proceeds - row.cost_retained) + lost[row] /\ row.cost_retained \in Int
    BY <1>1, <2>1, RowIs
  <2>3. kept[row] = row.kept
    BY <1>1 DEF Figure
  <2>4. row.net_proceeds \in Int /\ proceeds[row] = row.net_proceeds /\ cost[row] = row.cost_retained
    BY <1>1, <1>5
  <2>5. less[row] = (-1) * cost[row] /\ some[row] = proceeds[row] + less[row] /\ lost[row] \in Int
    BY <1>1, <1>6
  <2> QED
    BY <2>2, <2>3, <2>4, <2>5
<1>8. IsFiniteSet(rows)
  BY RowsAre
<1>9. SumOf(some, rows) = SumOf(proceeds, rows) + SumOf(less, rows)
  <2>1. \A row \in rows : /\ proceeds[row] \in Int /\ less[row] \in Int
                           /\ some[row] = proceeds[row] + less[row]
    BY <1>1, <1>5, <1>7
  <2> QED
    BY <1>8, <2>1, SumPlus
<1>10. SumOf(kept, rows) = SumOf(some, rows) + SumOf(lost, rows)
  <2>1. \A row \in rows : some[row] \in Int /\ lost[row] \in Int /\ kept[row] = some[row] + lost[row]
    BY <1>6, <1>7
  <2> QED
    BY <1>8, <2>1, SumPlus
<1>11. SumOf(less, rows) = (-1) * SumOf(cost, rows)
  <2>1. \A row \in rows : cost[row] \in Int /\ less[row] = (-1) * cost[row]
    BY <1>1, <1>7
  <2> QED
    BY <1>8, <2>1, SumTimes
<1>12. costs = SumOf(cost, rows) /\ SumOf(cost, rows) \in Int
  BY <1>1, <1>7, <1>8, CostsAreSum, SumType
<1>13. Ranking(d, d, period, "kept", MAX_LIMIT, 0).shop_total
         = SumOf(kept, rows) + Amount(Unattributed(d, period, "kept"))
  BY <1>1, ShopTotalIs
<1>14. SumOf(proceeds, rows) \in Int /\ SumOf(lost, rows) \in Int
  BY <1>5, <1>6, <1>8, SumType
<1> QED
  BY <1>5, <1>6, <1>9, <1>10, <1>11, <1>12, <1>13, <1>14

\* The ranking adds up to the Money screen, with what belongs to no variant.
LEMMA RankingIsAgreed == ASSUME Booked(db), NEW period PROVE RankingAgrees(Money(period), Totals(period))
<1> DEFINE money == Money(period)
           shown == Shown(db, period)
           rows == ProductRows(db, period)
           sold == SoldRows(db, period)
           cogs == CostOfSold(db, period)
           N == NET_PROCEEDS_CATEGORIES
           L == RETURN_LOSSES
           P == {"seller_shipping"}
           total == Ranking(db, db, period, "kept", MAX_LIMIT, 0)
<1>a. money = Calculate(db, db, period)
  BY DEF Money
<1> HIDE DEF money
<1>1. /\ money.gross_sales = Amount(Within(shown, {"gross_sales"}))
      /\ money.net_proceeds = Amount(Within(shown, N))
      /\ money.complete <=> AllCosted(db, period)
      /\ money.gross_profit = (Amount(Within(shown, N)) + cogs) + Amount(Within(shown, P))
      /\ money.after_returns = money.gross_profit + Amount(Within(shown, L))
  BY <1>a, MoneyIs
<1>2. /\ Totals(period).gross_sales = Ranking(db, db, period, "gross_sales", MAX_LIMIT, 0)
      /\ Totals(period).net_proceeds = Ranking(db, db, period, "net_proceeds", MAX_LIMIT, 0)
      /\ Totals(period).kept = total
  BY DEF Totals
<1>3. /\ Totals(period).gross_sales.shop_total = money.gross_sales
      /\ Totals(period).net_proceeds.shop_total = money.net_proceeds
  <2>1. /\ Ranking(db, db, period, "gross_sales", MAX_LIMIT, 0).shop_total
             = Amount(Within(shown, MeasureCategories("gross_sales")))
        /\ Ranking(db, db, period, "net_proceeds", MAX_LIMIT, 0).shop_total
             = Amount(Within(shown, MeasureCategories("net_proceeds")))
    BY SalesTotal
  <2> HIDE DEF shown, sold, cogs, total
  <2> QED
    BY <1>1, <1>2, <2>1, MeasuresAre
<1>4. ASSUME total.shop_known
      PROVE  money.complete /\ total.shop_total = money.after_returns
  <2> HIDE DEF money, sold, cogs, shown
  <2>1. \A row \in rows : row.cost_known
    <3> DEFINE q == [row \in rows |-> Figure(row, "kept")]
    <3>1. \A row \in ProductRows(db, period) : q[row] = Figure(row, "kept")
      OBVIOUS
    <3> HIDE DEF q
    <3> QED
      BY <1>4, <3>1, ShopTotalIs, MeasuresAre
  <2>2. \A row \in rows : row.units > 0 /\ row.without_cost = 0
    BY <2>1, RowsAre, RowIs
  <2>3. sold = rows /\ {row \in sold : row.without_cost = 0} = sold
    BY <2>2 DEF SoldRows, sold
  <2>a. AllCosted(db, period)
    BY <2>3 DEF AllCosted, sold
  <2>4. cogs = -MapThenSumSet(LAMBDA row : row.cost_retained, rows)
    BY <2>3, <2>a DEF CostOfSold, cogs, sold
  <2>5. PICK costs : costs = MapThenSumSet(LAMBDA row : row.cost_retained, rows)
    OBVIOUS
  <2>6. /\ total.shop_total = ((Amount(OwnedIn(db, period, N)) - costs) + Amount(OwnedIn(db, period, L)))
                               + Amount(Unattributed(db, period, "kept"))
        /\ costs \in Int
    BY <2>1, <2>5, KeptTotal
  <2>7. Unattributed(db, period, "kept") = LooseIn(db, period, (N \cup P) \cup L)
    BY MeasuresAre DEF Unattributed, LooseIn
  <2>8. /\ IsFiniteSet(LooseIn(db, period, (N \cup P) \cup L))
        /\ Amount(LooseIn(db, period, (N \cup P) \cup L))
             = (Amount(LooseIn(db, period, N)) + Amount(LooseIn(db, period, P))) + Amount(LooseIn(db, period, L))
    <3> DEFINE S == {e \in db.ledger : e.sku = None /\ InPeriod(e, period)}
    <3>1. S \subseteq db.ledger
      OBVIOUS
    <3> HIDE DEF S
    <3>2. IsFiniteSet(S) /\ \A e \in S : e.amount \in Int
      BY <3>1, SomeEntries
    <3>3. Amount(Within(S, (N \cup P) \cup L)) = Amount(Within(S, N \cup P)) + Amount(Within(S, L))
      BY <3>2, MeasuresAre, CategoriesAddUp
    <3>4. Amount(Within(S, N \cup P)) = Amount(Within(S, N)) + Amount(Within(S, P))
      BY <3>2, MeasuresAre, CategoriesAddUp
    <3>5. Within(S, (N \cup P) \cup L) \subseteq S
      BY DEF Within
    <3> QED
      BY <3>2, <3>3, <3>4, <3>5, FS_Subset DEF LooseIn, S
  <2>9. /\ Amount(Within(shown, N)) = Amount(OwnedIn(db, period, N)) + Amount(LooseIn(db, period, N))
        /\ Amount(Within(shown, L)) = Amount(OwnedIn(db, period, L)) + Amount(LooseIn(db, period, L))
        /\ Amount(Within(shown, P)) = Amount(OwnedIn(db, period, P)) + Amount(LooseIn(db, period, P))
        /\ Amount(OwnedIn(db, period, N)) \in Int /\ Amount(LooseIn(db, period, N)) \in Int
        /\ Amount(OwnedIn(db, period, L)) \in Int /\ Amount(LooseIn(db, period, L)) \in Int
        /\ Amount(OwnedIn(db, period, P)) \in Int /\ Amount(LooseIn(db, period, P)) \in Int
    <3>1. "cost_of_goods_sold" \notin N /\ "cost_of_goods_sold" \notin L /\ "cost_of_goods_sold" \notin P
      BY MeasuresAre
    <3> HIDE DEF N, L, P
    <3> QED
      BY <3>1, ShownIs DEF shown
  <2>10. Amount(OwnedIn(db, period, P)) = 0
    <3>1. OwnedIn(db, period, P) = {} /\ Amount({}) = 0
      BY OwnedByType, AmountOfNone
    <3> QED
      BY <3>1
  <2>11. money.complete
    BY <1>1, <2>a
  <2>12. total.shop_total = money.after_returns
    <3> HIDE DEF N, L, P, rows, total
    <3>1. cogs = -costs
      BY <2>4, <2>5
    <3>2. money.after_returns = ((Amount(Within(shown, N)) + cogs) + Amount(Within(shown, P))) + Amount(Within(shown, L))
      BY <1>1
    <3> QED
      BY <2>6, <2>7, <2>8, <2>9, <2>10, <3>1, <3>2
  <2> QED
    BY <2>11, <2>12
<1> QED
  BY <1>2, <1>3, <1>4 DEF RankingAgrees, money

-------------------------------------------------------------------------------
(* Returns, the pace, records: what one category or one type comes to. *)

\* What each type and each category has, of all entries.
LEMMA EntriesByType ==
  ASSUME NEW d, Booked(d), NEW e \in d.ledger
  PROVE  /\ e.category \in VariantCategory \cup OfStatement /\ e.day \in 1 .. Today
         /\ e.type \in {"payout", "reserve"} <=> e.category \in PAYOUT
         /\ e.type \in NET_PROCEEDS_TYPES <=> e.category \in NET_PROCEEDS_CATEGORIES \ {"platform_adjustment"}
         /\ e.type \in RETURN_LOSS_TYPES <=> e.category \in RETURN_LOSSES
  BY EntriesAre, TypesOfCategories DEF RecordOK, RETURN_LOSSES

\* What returns cost is what the Money screen takes off for them.
LEMMA ReturnsAreAgreed ==
  ASSUME Booked(db), NEW period, {"basis", "from", "to"} \subseteq DOMAIN period
  PROVE  ReturnsAgree(Money([period EXCEPT !.basis = "sales"]), ReturnMetrics(db, period.from, period.to))
<1> DEFINE sales == [period EXCEPT !.basis = "sales"]
           shown == Shown(db, sales)
           lossy == {e \in db.ledger : e.type \in RETURN_LOSS_TYPES
                                         /\ InPeriod(e, [basis |-> "sales", from |-> period.from, to |-> period.to])}
           money == Money(sales)
           returns == ReturnMetrics(db, period.from, period.to)
<1>1. returns.error = "none" => returns.cost = -Amount(lossy)
  BY DEF ReturnMetrics
<1>2. money = Calculate(db, db, sales)
  BY DEF Money
<1>3. sales.basis = "sales" /\ sales.from = period.from /\ sales.to = period.to
  OBVIOUS
<1> HIDE DEF returns, money, sales
<1>4. lossy = Within(shown, RETURN_LOSSES)
  <2>1. ASSUME NEW e \in db.ledger PROVE e \in lossy <=> e \in Within(shown, RETURN_LOSSES)
    <3>1. InPeriod(e, sales) <=> InPeriod(e, [basis |-> "sales", from |-> period.from, to |-> period.to])
      BY <1>3 DEF InPeriod, DateOn
    <3>2. e.type \in RETURN_LOSS_TYPES <=> e.category \in RETURN_LOSSES
      BY EntriesByType
    <3>3. "cost_of_goods_sold" \notin RETURN_LOSSES
      BY DEF RETURN_LOSSES
    <3> QED
      BY <3>1, <3>2, <3>3 DEF Within, Shown
  <2> QED
    BY <2>1 DEF Within, Shown
<1> HIDE DEF shown, lossy
<1>5. /\ money.after_returns = money.gross_profit + Amount(Within(shown, RETURN_LOSSES))
      /\ money.gross_profit = (Amount(Within(shown, NET_PROCEEDS_CATEGORIES)) + CostOfSold(db, sales))
                                + Amount(Within(shown, {"seller_shipping"}))
  BY <1>2, MoneyIs DEF shown
<1>6. Amount(Within(shown, RETURN_LOSSES)) \in Int /\ money.gross_profit \in Int
  <2>1. \A C : Amount(Within(shown, C)) \in Int
    <3>1. \A C : Within(shown, C) \subseteq db.ledger
      BY DEF Within, shown, Shown
    <3> QED
      BY <3>1, SomeEntries
  <2>2. CostOfSold(db, sales) \in Int
    BY CostOfSoldType
  <2> QED
    BY <1>5, <2>1, <2>2
<1> QED
  BY <1>1, <1>4, <1>5, <1>6 DEF ReturnsAgree, returns, money, sales

\* The categories of a section, the payout's being the sixth.
SectionCategories(i) == IF i = 6 THEN PAYOUT ELSE CHAIN[i].categories

\* The line that no entry of the calculator is behind.
GoodsLine(d, period, i) ==
  IF i = 4 /\ CostOfSold(d, period) # 0
    THEN {[category |-> "cost_of_goods_sold", fee |-> None, amount |-> CostOfSold(d, period)]}
    ELSE {}

\* A section is shown when it has lines, and has those of its categories.
SectionIs(d, period, i, section) ==
  section.lines = Within(LinesOf(Shown(d, period)), SectionCategories(i)) \cup GoodsLine(d, period, i)
SectionShows(d, period, sec, sections) ==
  /\ sections = {sec[i] : i \in {i \in 1 .. 6 : sec[i].lines # {}}}
  /\ \A i \in 1 .. 6 : SectionIs(d, period, i, sec[i])

\* What each section of the calculator shows, and that a section is shown when it has a line.
LEMMA SectionsShow ==
  ASSUME NEW d, NEW period, NEW money, money = Calculate(d, d, period)
  PROVE  \E sec : SectionShows(d, period, sec, money.sections)
<1> DEFINE scoped == Shown(d, period)
           scopedLines == LinesOf(scoped)
           sold == SoldRows(d, period)
           costed == {row \in sold : row.without_cost = 0}
           complete == costed = sold
           cogs == IF complete THEN -MapThenSumSet(LAMBDA row : row.cost_retained, sold) ELSE 0
           goods(key) == IF key = "your_costs" /\ cogs # 0
                           THEN {[category |-> "cost_of_goods_sold", fee |-> None, amount |-> cogs]}
                           ELSE {}
           lines(i) == Within(scopedLines, CHAIN[i].categories) \cup goods(CHAIN[i].key)
           running(i) == MapThenSumSet(LAMBDA j : Amount(lines(j)), 1 .. i)
           apart(i) == CHAIN[i].key \in SECTION_TOTALS /\ ~complete
           section(i) == [key |-> CHAIN[i].key, lines |-> lines(i),
                          subtotal |-> IF apart(i) THEN Amount(lines(i)) ELSE running(i)]
           payout == Within(scopedLines, PAYOUT)
           paid == [key |-> "payout", lines |-> payout, subtotal |-> Amount(payout)]
           sec == [i \in 1 .. 6 |-> IF i = 6 THEN paid ELSE section(i)]
<1>1. money = View(scoped, scopedLines, sold, period)
  BY DEF Calculate, Shown, SoldRows
<1> HIDE DEF scoped, scopedLines, sold
<1>2. money.sections = {section(i) : i \in {i \in DOMAIN CHAIN : lines(i) # {}}} \cup (IF payout = {} THEN {} ELSE {paid})
  BY <1>1 DEF View
<1>3. cogs = CostOfSold(d, period)
  BY DEF CostOfSold, AllCosted, sold
<1> HIDE DEF cogs
<1>4. ASSUME NEW i \in 1 .. 5 PROVE lines(i) = Within(scopedLines, SectionCategories(i)) \cup GoodsLine(d, period, i)
  <2>1. CHAIN[i].key = "your_costs" <=> i = 4
    BY DEF CHAIN
  <2>2. SectionCategories(i) = CHAIN[i].categories
    BY DEF SectionCategories
  <2>3. goods(CHAIN[i].key) = GoodsLine(d, period, i)
    BY <1>3, <2>1 DEF GoodsLine
  <2> QED
    BY <2>2, <2>3
<1>5. payout = Within(scopedLines, SectionCategories(6)) \cup GoodsLine(d, period, 6)
  BY DEF SectionCategories, GoodsLine
<1>6. (\A i \in 1 .. 5 : section(i).lines = lines(i)) /\ paid.lines = payout
  OBVIOUS
<1> HIDE DEF section, paid, lines, payout
<1>7. \A i \in 1 .. 6 : SectionIs(d, period, i, sec[i])
  <2>1. ASSUME NEW i \in 1 .. 6 PROVE SectionIs(d, period, i, sec[i])
    <3>1. CASE i = 6
      BY <1>5, <1>6, <3>1 DEF SectionIs, scopedLines, scoped
    <3>2. CASE i # 6
      <4>1. i \in 1 .. 5
        BY <3>2
      <4>2. sec[i] = section(i)
        BY <3>2
      <4> QED
        BY <1>4, <1>6, <4>1, <4>2 DEF SectionIs, scopedLines, scoped
    <3> QED
      BY <3>1, <3>2
  <2> QED
    BY <2>1
<1>8. money.sections = {sec[i] : i \in {i \in 1 .. 6 : sec[i].lines # {}}}
  <2>1. DOMAIN CHAIN = 1 .. 5
    BY ChainIs
  <2>2. (\A i \in 1 .. 5 : sec[i] = section(i)) /\ sec[6] = paid
    OBVIOUS
  <2>3. 1 .. 6 = 1 .. 5 \cup {6}
    OBVIOUS
  <2> HIDE DEF sec
  <2>4. money.sections = {section(i) : i \in {i \in 1 .. 5 : section(i).lines # {}}} \cup (IF paid.lines = {} THEN {} ELSE {paid})
    BY <1>2, <1>6, <2>1
  <2> QED
    BY <2>2, <2>3, <2>4
<1> QED
  BY <1>7, <1>8 DEF SectionShows

\* What a section has of a category other than the goods' cost.
LEMMA InSection ==
  ASSUME NEW d, NEW period, NEW i, NEW section, SectionIs(d, period, i, section), NEW c, c # "cost_of_goods_sold"
  PROVE  {l \in section.lines : l.category = c} =
           IF c \in SectionCategories(i) THEN Within(LinesOf(Shown(d, period)), {c}) ELSE {}
<1>1. PICK lines : lines = LinesOf(Shown(d, period))
  OBVIOUS
<1>2. section.lines = Within(lines, SectionCategories(i)) \cup GoodsLine(d, period, i)
  BY <1>1 DEF SectionIs
<1>3. \A l \in GoodsLine(d, period, i) : l.category = "cost_of_goods_sold"
  BY DEF GoodsLine
<1> QED
  BY <1>1, <1>2, <1>3 DEF Within

\* The lines of a category come to its entries.
LEMMA CategoryComesTo ==
  ASSUME NEW d, Booked(d), NEW period, NEW C
  PROVE  /\ Amount(Within(LinesOf(Shown(d, period)), C)) = Amount(Within(Shown(d, period), C))
         /\ Amount(Within(Shown(d, period), C)) \in Int
<1>1. Shown(d, period) \subseteq d.ledger /\ Within(Shown(d, period), C) \subseteq d.ledger
  BY DEF Shown, Within
<1>2. IsFiniteSet(Shown(d, period)) /\ \A e \in Shown(d, period) : e.amount \in Int
  BY <1>1, SomeEntries
<1> QED
  BY <1>1, <1>2, LinesAddUp, SomeEntries

\* No entry is of a day that all time leaves out.
LEMMA AllDays == ASSUME NEW d, Booked(d), NEW x \in d.ledger PROVE InPeriod(x, AllTime)
<1>1. x.day \in 1 .. Today /\ Today \in Nat
  BY EntriesByType, LedgerAssumption DEF LedgerAssumption
<1> QED
  BY <1>1 DEF InPeriod, DateOn, AllTime, Since

\* The records of a category come to what its section has of it.
LEMMA RecordsAreAgreed == ASSUME Booked(db) PROVE RecordsAgree(Money(AllTime))
<1> DEFINE money == Money(AllTime)
           shown == Shown(db, AllTime)
<1>1. money = Calculate(db, db, AllTime)
  BY DEF Money
<1> HIDE DEF money
<1>2. PICK sec : SectionShows(db, AllTime, sec, money.sections)
  BY <1>1, SectionsShow
<1>3. ASSUME NEW s \in money.sections, NEW c \in {l.category : l \in s.lines} \ {"cost_of_goods_sold"}
      PROVE  Beside(db, "records", c) = Amount({l \in s.lines : l.category = c})
  <2>1. PICK i \in 1 .. 6 : s = sec[i] /\ SectionIs(db, AllTime, i, s)
    BY <1>2 DEF SectionShows
  <2>2. {l \in s.lines : l.category = c} # {} /\ c # "cost_of_goods_sold"
    OBVIOUS
  <2>3. {l \in s.lines : l.category = c} = Within(LinesOf(shown), {c})
    BY <2>1, <2>2, InSection
  <2>4. Amount({l \in s.lines : l.category = c}) = Amount(Within(shown, {c}))
    <3>1. Amount(Within(LinesOf(shown), {c})) = Amount(Within(shown, {c}))
      BY CategoryComesTo
    <3> QED
      BY <2>3, <3>1
  <2>5. PICK l \in Within(LinesOf(shown), {c}) : TRUE
    BY <2>2, <2>3
  <2>6. PICK e \in shown : l = LineOf(shown, KeyOf(e))
    <3>1. l \in LinesOf(shown)
      BY DEF Within
    <3> HIDE DEF shown
    <3> QED
      BY <3>1, LinesAre
  <2>7. e.category = c
    <3>1. l.category = c
      BY DEF Within
    <3>2. l.category = e.category
      BY <2>6 DEF LineOf, KeyOf
    <3> QED
      BY <3>1, <3>2
  <2>8. c # None
    <3>1. e \in db.ledger
      BY DEF Shown
    <3> QED
      BY <2>7, <3>1, EntriesByType, BooksAssumption DEF BooksAssumption
  <2>9. Records(db, c) = Within(shown, {c})
    <3>1. ASSUME NEW x \in db.ledger PROVE InPeriod(x, AllTime)
      BY AllDays
    <3> QED
      BY <2>2, <2>8, <3>1 DEF Records, Within, Shown
  <2>10. Beside(db, "records", c) = Amount(Records(db, c))
    BY DEF Beside
  <2> QED
    BY <2>4, <2>9, <2>10
<1> QED
  BY <1>3 DEF RecordsAgree, money

\* What the sections have of what TikTok adjusts is a sum.
LEMMA AdjustedIsSum ==
  ASSUME NEW S, IsFiniteSet(S), NEW q, \A s \in S : q[s] = Amount(Within(s.lines, {"platform_adjustment"}))
  PROVE  MapThenSumSet(LAMBDA s : Amount(Within(s.lines, {"platform_adjustment"})), S) = SumOf(q, S)
<1> DEFINE P(h) == h = [s \in SUBSET S |->
                    IF s = {} THEN 0
                    ELSE Amount(Within((CHOOSE x \in s : TRUE).lines, {"platform_adjustment"}))
                           + h[s \ {CHOOSE x \in s : TRUE}]]
<1>1. ASSUME NEW h PROVE P(h) <=> Adds(q, S, h)
  <2>1. \A s \in SUBSET S : s # {} => q[OneOf(s)] = Amount(Within(OneOf(s).lines, {"platform_adjustment"}))
    BY OneIn
  <2> QED
    BY <2>1 DEF Adds, OneOf
<1>2. MapThenSumSet(LAMBDA s : Amount(Within(s.lines, {"platform_adjustment"})), S) = (CHOOSE h : P(h))[S]
  BY DEF P, MapThenSumSet, MapThenFoldSet
<1> HIDE DEF P
<1>3. P(TheSums(q, S))
  BY <1>1, TheOnlySums
<1>4. Adds(q, S, CHOOSE h : P(h))
  BY <1>1, <1>3
<1> QED
  BY <1>2, <1>4, TheOnlySums DEF SumOf

\* It is what the entries of it come to: one section has them.
LEMMA AdjustedIs ==
  ASSUME NEW d, Booked(d), NEW period, NEW sections, sections = Calculate(d, d, period).sections
  PROVE  MapThenSumSet(LAMBDA s : Amount(Within(s.lines, {"platform_adjustment"})), sections)
           = Amount(Within(Shown(d, period), {"platform_adjustment"}))
<1> DEFINE A == {"platform_adjustment"}
           shown == Shown(d, period)
           own == Within(LinesOf(shown), A)
           q == [s \in sections |-> Amount(Within(s.lines, A))]
<1>1. PICK sec : SectionShows(d, period, sec, sections)
  BY SectionsShow
<1>2. IsFiniteSet(sections)
  <2> DEFINE I == {i \in 1 .. 6 : sec[i].lines # {}}
             f == [i \in I |-> sec[i]]
  <2>1. sections = {f[i] : i \in I} /\ I \subseteq 1 .. 6
    BY <1>1 DEF SectionShows
  <2> HIDE DEF I, f
  <2>2. PICK k \in Int : k = 6
    OBVIOUS
  <2>3. IsFiniteSet(I)
    <3>1. IsFiniteSet(1 .. k)
      BY FS_Interval
    <3>2. I \subseteq 1 .. k
      BY <2>1, <2>2
    <3> QED
      BY <3>1, <3>2, FS_Subset
  <2>4. IsFiniteSet({f[i] : i \in I})
    BY <2>3, FiniteImage
  <2> QED
    BY <2>1, <2>4
<1>3. \A s \in sections : q[s] = Amount(Within(s.lines, A))
  OBVIOUS
<1>4. Amount(own) = Amount(Within(shown, A)) /\ Amount(own) \in Int
  BY CategoryComesTo
<1>5. ASSUME NEW i \in 1 .. 6 PROVE "platform_adjustment" \in SectionCategories(i) <=> i = 2
  BY ChainIs DEF SectionCategories, TIKTOK_FEES, PAYOUT
<1>6. ASSUME NEW i \in 1 .. 6 PROVE Within(sec[i].lines, A) = IF i = 2 THEN own ELSE {}
  <2>1. SectionIs(d, period, i, sec[i])
    BY <1>1 DEF SectionShows
  <2>2. Within(sec[i].lines, A) = {l \in sec[i].lines : l.category = "platform_adjustment"}
    BY DEF Within
  <2>3. {l \in sec[i].lines : l.category = "platform_adjustment"} =
          IF "platform_adjustment" \in SectionCategories(i) THEN own ELSE {}
    BY <2>1, InSection
  <2> QED
    BY <1>5, <2>2, <2>3
<1> HIDE DEF q, own, shown, A
<1>7. ASSUME NEW s \in sections
      PROVE  q[s] \in Int /\ (s # sec[2] => q[s] = 0)
  <2>1. PICK i \in 1 .. 6 : s = sec[i]
    BY <1>1 DEF SectionShows
  <2>2. q[s] = Amount(Within(sec[i].lines, A))
    BY <1>3, <2>1
  <2>3. CASE i = 2
    BY <1>4, <1>6, <2>1, <2>2, <2>3
  <2>4. CASE i # 2
    BY <1>6, <2>2, <2>4, AmountOfNone
  <2> QED
    BY <2>3, <2>4
<1>8. MapThenSumSet(LAMBDA s : Amount(Within(s.lines, {"platform_adjustment"})), sections) = SumOf(q, sections)
  BY <1>2, <1>3, AdjustedIsSum DEF A
<1>9. CASE sec[2] \in sections
  <2> DEFINE rest == sections \ {sec[2]}
             z == [s \in rest |-> 0]
  <2>1. SumOf(q, sections) = q[sec[2]] + SumOf(q, rest)
    BY <1>2, <1>7, <1>9, SumAny
  <2>2. IsFiniteSet(rest) /\ {} \subseteq rest /\ \A s \in rest : q[s] \in Int /\ q[s] = 0
    BY <1>2, <1>7, FS_Subset
  <2> HIDE DEF rest, z
  <2>3. SumOf(q, rest) = 0
    BY <2>2, SumZeros, SumNothing
  <2>4. q[sec[2]] = Amount(own)
    BY <1>3, <1>6, <1>9
  <2> QED
    BY <1>4, <1>8, <2>1, <2>3, <2>4 DEF shown, A
<1>10. CASE sec[2] \notin sections
  <2>1. sec[2].lines = {}
    BY <1>1, <1>10 DEF SectionShows
  <2>2. Within(sec[2].lines, A) = {}
    BY <2>1 DEF Within
  <2>3. own = {}
    BY <1>6, <2>2
  <2>4. SumOf(q, sections) = 0
    BY <1>2, <1>7, <1>10, SumZeros, SumNothing
  <2> QED
    BY <1>4, <1>8, <2>3, <2>4, AmountOfNone DEF shown, A
<1> QED
  BY <1>9, <1>10

\* The pace of sales is that of the Money screen, adjustments apart.
LEMMA PaceIsAgreed == ASSUME Booked(db) PROVE PaceAgrees(Money(Since(Today - 6)), Velocity(db, db, "sales", 7), 7)
<1> DEFINE period == Since(Today - 6)
           money == Money(period)
           shown == Shown(db, period)
           pace == Velocity(db, db, "sales", 7)
           N == NET_PROCEEDS_CATEGORIES \ {"platform_adjustment"}
           A == {"platform_adjustment"}
           scoped == {e \in db.ledger : InPeriod(e, [basis |-> "sales", from |-> Today - (7 - 1), to |-> Today])}
           adjusted == MapThenSumSet(LAMBDA s : Amount(Within(s.lines, {"platform_adjustment"})), money.sections)
<1>1. /\ pace.gross = RoundHalfUp(Amount(Within(scoped, {"gross_sales"})), 7)
      /\ pace.net = RoundHalfUp(Amount({e \in scoped : e.type \in NET_PROCEEDS_TYPES}), 7)
  BY DEF Velocity
<1>2. Today - (7 - 1) = Today - 6
  BY LedgerAssumption DEF LedgerAssumption
<1>3. \A e : InPeriod(e, [basis |-> "sales", from |-> Today - (7 - 1), to |-> Today]) <=> InPeriod(e, period)
  BY <1>2 DEF Since
<1>4. Within(scoped, {"gross_sales"}) = Within(shown, {"gross_sales"})
  BY <1>3 DEF Within, Shown
<1>5. {e \in scoped : e.type \in NET_PROCEEDS_TYPES} = Within(shown, N)
  <2>1. ASSUME NEW e \in db.ledger
        PROVE  e.type \in NET_PROCEEDS_TYPES <=> e.category \in N /\ e.category # "cost_of_goods_sold"
    BY EntriesByType, MeasuresAre
  <2> HIDE DEF N, period
  <2> QED
    BY <1>3, <2>1 DEF Within, Shown
<1>6. money = Calculate(db, db, period)
  BY DEF Money
<1> HIDE DEF money, pace, scoped, period
<1>7. /\ money.gross_sales = Amount(Within(shown, {"gross_sales"}))
      /\ money.net_proceeds = Amount(Within(shown, NET_PROCEEDS_CATEGORIES))
  BY <1>6, MoneyIs
<1>8. adjusted = Amount(Within(shown, A))
  BY <1>6, AdjustedIs
<1> HIDE DEF adjusted
<1>9. Amount(Within(shown, NET_PROCEEDS_CATEGORIES)) = Amount(Within(shown, N)) + Amount(Within(shown, A))
  <2>1. N \cup A = NET_PROCEEDS_CATEGORIES /\ N \cap A = {}
    BY DEF NET_PROCEEDS_CATEGORIES, TIKTOK_FEES
  <2>2. shown \subseteq db.ledger
    BY DEF Shown
  <2> HIDE DEF N, A, shown
  <2>3. IsFiniteSet(shown) /\ \A e \in shown : e.amount \in Int
    BY <2>2, SomeEntries
  <2> QED
    BY <2>1, <2>3, CategoriesAddUp
<1>10. Amount(Within(shown, N)) \in Int /\ Amount(Within(shown, A)) \in Int
  BY CategoryComesTo
<1> HIDE DEF N, A, shown
<1>11. pace.gross = RoundHalfUp(money.gross_sales, 7) /\ pace.net = RoundHalfUp(money.net_proceeds - adjusted, 7)
  <2>1. money.net_proceeds - adjusted = Amount(Within(shown, N))
    BY <1>7, <1>8, <1>9, <1>10
  <2> QED
    BY <1>1, <1>4, <1>5, <1>7, <2>1
<1> QED
  BY <1>11 DEF PaceAgrees, adjusted, money, pace, period

-------------------------------------------------------------------------------
(* What needs the seller, and the lists it leads to. *)

\* An item, and what it is when it counts.
ItemOf(type, count, severity, stake) == [type |-> type, count |-> count, severity |-> severity, at_stake |-> stake]
Needed(item) == {i \in {item} : i.count > 0}

\* What the items count.
PendingItems(d) == {i \in d.items : i.check = "pending"}
OpenDiscs(d)    == {x \in d.discs : x.status = "open"}
OutOfStock(d)   == {p \in d.positions : p.on_shelf <= 0}
UnmappedOf(d)   == {e \in Within(d.ledger, {"unmapped_fee"}) : InPeriod(e, MonthSoFar)}

\* Of each type there is one item, if it counts.
LEMMA ItemsAre ==
  ASSUME NEW d, NEW items, items = NeedsYouItems(d)
  PROVE  /\ {i \in items : i.type = "open_discrepancies"}
              = Needed(ItemOf("open_discrepancies", Cardinality(OpenDiscs(d)), "warning", 0))
         /\ {i \in items : i.type = "unmapped_fees"}
              = Needed(ItemOf("unmapped_fees", Cardinality(UnmappedOf(d)), "warning", -Amount(UnmappedOf(d))))
         /\ {i \in items : i.type = "returns_to_check"}
              = Needed(ItemOf("returns_to_check", Cardinality(PendingItems(d)), "warning", 0))
         /\ {i \in items : i.type = "out_of_stock"}
              = Needed(ItemOf("out_of_stock", Cardinality(OutOfStock(d)), "info", 0))
<1> DEFINE link == d.link
           uncosted == {s \in Sku : /\ \E e \in Within(d.ledger, {"gross_sales"}) : e.sku = s
                                    /\ ~\E c \in d.costs : c.sku = s /\ c.current}
           runs(status) == Cardinality({r \in LatestRuns(d) : r.status = status})
           when(condition) == IF condition THEN 1 ELSE 0
           linked(condition) == when(link.connected /\ condition)
           broken == linked(Broken(link))
           failed == linked(RefreshFailed(link))
           missing == IF link.connected THEN Cardinality(link.missing) ELSE 0
           expiring == linked(~Broken(link) /\ link.refresh # 0 /\ link.refresh - Now <= EXPIRING_WITHIN)
           first == when(link.synced = 0)
           stale == when(link.synced # 0 /\ freshness(link.synced) = "stale")
           reconnect == runs("needs_reconnect")
           runFailed == runs("failed")
           partial == runs("partial")
           cost == Cardinality(uncosted)
           discs == Cardinality(OpenDiscs(d))
           unmapped == Cardinality(UnmappedOf(d))
           stake == -Amount(UnmappedOf(d))
           returns == Cardinality(PendingItems(d))
           out == Cardinality(OutOfStock(d))
<1>1. items = {i \in {ItemOf("connection_action_required", broken, "critical", 0),
                      ItemOf("refresh_failed", failed, "critical", 0),
                      ItemOf("missing_scope", missing, "critical", 0),
                      ItemOf("connection_expiring", expiring, "warning", 0),
                      ItemOf("sync_needs_reconnect", reconnect, "critical", 0),
                      ItemOf("sync_failed", runFailed, "warning", 0),
                      ItemOf("sync_partial", partial, "warning", 0),
                      ItemOf("first_sync_pending", first, "info", 0),
                      ItemOf("stale_data", stale, "warning", 0),
                      ItemOf("open_discrepancies", discs, "warning", 0),
                      ItemOf("unmapped_fees", unmapped, "warning", stake),
                      ItemOf("returns_to_check", returns, "warning", 0),
                      ItemOf("missing_costs", cost, "info", 0),
                      ItemOf("out_of_stock", out, "info", 0)} : i.count > 0}
  BY Zenon DEF NeedsYouItems, ItemOf, OpenDiscs, UnmappedOf, PendingItems, OutOfStock
<1> HIDE DEF broken, failed, missing, expiring, reconnect, runFailed, partial, first, stale, discs, unmapped, stake,
             returns, cost, out
<1>2. /\ {i \in items : i.type = "open_discrepancies"} = Needed(ItemOf("open_discrepancies", discs, "warning", 0))
      /\ {i \in items : i.type = "unmapped_fees"} = Needed(ItemOf("unmapped_fees", unmapped, "warning", stake))
      /\ {i \in items : i.type = "returns_to_check"} = Needed(ItemOf("returns_to_check", returns, "warning", 0))
      /\ {i \in items : i.type = "out_of_stock"} = Needed(ItemOf("out_of_stock", out, "info", 0))
  BY <1>1 DEF ItemOf, Needed
<1> QED
  BY <1>2 DEF discs, unmapped, stake, returns, out

\* What items count is a sum.
LEMMA CountsAreSum ==
  ASSUME NEW S, IsFiniteSet(S), NEW q, \A i \in S : q[i] = i.count
  PROVE  MapThenSumSet(LAMBDA i : i.count, S) = SumOf(q, S)
<1> DEFINE P(h) == h = [s \in SUBSET S |->
                    IF s = {} THEN 0 ELSE (CHOOSE x \in s : TRUE).count + h[s \ {CHOOSE x \in s : TRUE}]]
<1>1. ASSUME NEW h PROVE P(h) <=> Adds(q, S, h)
  <2>1. \A s \in SUBSET S : s # {} => q[OneOf(s)] = OneOf(s).count
    BY OneIn
  <2> QED
    BY <2>1 DEF Adds, OneOf
<1>2. MapThenSumSet(LAMBDA i : i.count, S) = (CHOOSE h : P(h))[S]
  BY DEF P, MapThenSumSet, MapThenFoldSet
<1> HIDE DEF P
<1>3. P(TheSums(q, S))
  BY <1>1, TheOnlySums
<1>4. Adds(q, S, CHOOSE h : P(h))
  BY <1>1, <1>3
<1> QED
  BY <1>2, <1>4, TheOnlySums DEF SumOf

\* An item that may count for nothing.
LEMMA NeededCounts ==
  ASSUME NEW item, item.count \in Nat
  PROVE  MapThenSumSet(LAMBDA i : i.count, Needed(item)) = item.count
<1> DEFINE S == Needed(item)
           q == [i \in S |-> i.count]
<1>1. S \subseteq {item} /\ (item.count > 0 => S = {item}) /\ (~(item.count > 0) => S = {})
  BY DEF Needed
<1>2. \A i \in S : q[i] = i.count
  OBVIOUS
<1> HIDE DEF S, q
<1>3. IsFiniteSet({item})
  BY FS_Singleton
<1>4. IsFiniteSet(S)
  BY <1>1, <1>3, FS_Subset
<1>5. MapThenSumSet(LAMBDA i : i.count, S) = SumOf(q, S)
  BY <1>2, <1>4, CountsAreSum
<1>6. CASE item.count > 0
  <2>1. item \in S /\ S \ {item} = {} /\ \A i \in S : q[i] \in Int
    BY <1>1, <1>2, <1>6
  <2>2. SumOf(q, S) = q[item] + SumOf(q, S \ {item})
    BY <1>4, <2>1, SumAny
  <2> QED
    BY <1>2, <1>5, <2>1, <2>2, SumNothing DEF S
<1>7. CASE ~(item.count > 0)
  <2>1. SumOf(q, S) = 0
    BY <1>1, <1>7, SumNothing
  <2> QED
    BY <1>5, <1>7, <2>1 DEF S
<1> QED
  BY <1>6, <1>7

\* Two sets whose members go with each other have as many.
LEMMA SameNumber ==
  ASSUME NEW S, IsFiniteSet(S), NEW f, \A x, y \in S : f[x] = f[y] => x = y
  PROVE  Cardinality({f[x] : x \in S}) = Cardinality(S)
<1> DEFINE T == {f[x] : x \in S}
           g == [x \in S |-> f[x]]
<1>1. g \in Bijection(S, T)
  <2>1. g \in [S -> T] /\ (\A x, y \in S : g[x] = g[y] => x = y) /\ \A t \in T : \E x \in S : g[x] = t
    OBVIOUS
  <2> HIDE DEF T, g
  <2> QED
    BY <2>1 DEF Bijection, Injection, IsInjective, Surjection
<1> HIDE DEF T, g
<1>2. ExistsBijection(S, T)
  BY <1>1 DEF ExistsBijection
<1>3. Cardinality(T) = Cardinality(S)
  BY <1>2, FS_Bijection
<1> QED
  BY <1>3 DEF T

\* The list of what is out of stock has a row for each position that is.
LEMMA OutRows ==
  ASSUME NEW d, Booked(d)
  PROVE  Cardinality(ListRows(d, "stock", "out")) = Cardinality(OutOfStock(d))
<1> DEFINE S == OutOfStock(d)
           shown(p) == [sku |-> p.sku, state |-> StockState(d, p), days_left |-> DaysLeft(d, p)]
           row(p) == [at |-> 0, id |-> <<-p.sku>>]
           f == [p \in S |-> row(p)]
<1>1. "out" # None
  BY BooksAssumption DEF BooksAssumption
<1>2. Positions(d, "out") = {q \in {shown(p) : p \in d.positions} : q.state = "out"}
  BY <1>1 DEF Positions
<1>3. \A p : StockState(d, p) = "out" <=> p.on_shelf <= 0
  BY DEF StockState
<1>4. Positions(d, "out") = {shown(p) : p \in S}
  <2>1. \A p : shown(p).state = StockState(d, p)
    OBVIOUS
  <2> HIDE DEF shown
  <2> QED
    BY <1>2, <1>3, <2>1 DEF OutOfStock
<1>5. ListRows(d, "stock", "out") = {row(p) : p \in Positions(d, "out")}
  BY DEF ListRows
<1>6. \A p : row(shown(p)) = row(p)
  OBVIOUS
<1> HIDE DEF shown
<1>7. ListRows(d, "stock", "out") = {f[p] : p \in S}
  <2>1. ListRows(d, "stock", "out") = {row(q) : q \in {shown(p) : p \in S}}
    BY <1>4, <1>5
  <2>2. {row(q) : q \in {shown(p) : p \in S}} = {row(shown(p)) : p \in S}
    OBVIOUS
  <2>3. {row(shown(p)) : p \in S} = {row(p) : p \in S}
    BY <1>6
  <2>4. {row(p) : p \in S} = {f[p] : p \in S}
    OBVIOUS
  <2> QED
    BY <2>1, <2>2, <2>3, <2>4
<1>8. IsFiniteSet(S)
  <2>1. S \subseteq d.positions /\ IsFiniteSet(d.positions)
    BY DEF OutOfStock, Booked, TablesOK
  <2> QED
    BY <2>1, FS_Subset
<1>9. ASSUME NEW p \in S, NEW o \in S, f[p] = f[o] PROVE p = o
  <2>1. p \in d.positions /\ o \in d.positions
    BY DEF OutOfStock
  <2>2. p.sku \in Int /\ o.sku \in Int
    BY <2>1 DEF Booked, TablesOK
  <2>3. row(p) = row(o)
    BY <1>9
  <2>4. <<-p.sku>>[1] = <<-o.sku>>[1]
    BY <2>3
  <2>5. p.sku = o.sku
    BY <2>2, <2>4
  <2> QED
    BY <2>1, <2>5 DEF Booked, SettledOK
<1> HIDE DEF S, f
<1> QED
  BY <1>7, <1>8, <1>9, SameNumber DEF S

\* What needs the seller is as much as the lists it leads to hold.
LEMMA NeedsAreAgreed == ASSUME Booked(db) PROVE NeedsAgree(NeedsYouItems(db), Money(MonthSoFar))
<1> DEFINE items == NeedsYouItems(db)
           month == Money(MonthSoFar)
           counted(S) == MapThenSumSet(LAMBDA i : i.count, S)
           needs(type) == counted({i \in items : i.type = type})
<1>1. /\ IsFiniteSet(OpenDiscs(db)) /\ IsFiniteSet(PendingItems(db))
      /\ IsFiniteSet(OutOfStock(db)) /\ IsFiniteSet(UnmappedOf(db))
  <2>1. /\ OpenDiscs(db) \subseteq db.discs /\ PendingItems(db) \subseteq db.items
        /\ OutOfStock(db) \subseteq db.positions /\ UnmappedOf(db) \subseteq db.ledger
    BY DEF OpenDiscs, PendingItems, OutOfStock, UnmappedOf, Within
  <2>2. IsFiniteSet(db.discs) /\ IsFiniteSet(db.items) /\ IsFiniteSet(db.positions) /\ IsFiniteSet(db.ledger)
    BY DEF Booked, TablesOK, FiguresOK, Keyed
  <2> QED
    BY <2>1, <2>2, FS_Subset
<1>2. /\ Cardinality(OpenDiscs(db)) \in Nat /\ Cardinality(PendingItems(db)) \in Nat
      /\ Cardinality(OutOfStock(db)) \in Nat /\ Cardinality(UnmappedOf(db)) \in Nat
  BY <1>1, FS_CardinalityType
<1>3. ASSUME NEW type, NEW count \in Nat, NEW severity, NEW stake,
             {i \in items : i.type = type} = Needed(ItemOf(type, count, severity, stake))
      PROVE  needs(type) = count
  <2> DEFINE item == ItemOf(type, count, severity, stake)
  <2>1. item.count = count
    BY DEF ItemOf
  <2> HIDE DEF item
  <2>2. counted(Needed(item)) = item.count
    BY <2>1, NeededCounts
  <2> QED
    BY <1>3, <2>1, <2>2 DEF item
<1> HIDE DEF needs, counted, items, month
<1>4. /\ needs("open_discrepancies") = Cardinality(OpenDiscs(db))
      /\ needs("unmapped_fees") = Cardinality(UnmappedOf(db))
      /\ needs("returns_to_check") = Cardinality(PendingItems(db))
      /\ needs("out_of_stock") = Cardinality(OutOfStock(db))
  BY <1>2, <1>3, ItemsAre DEF items
<1>5. Cardinality(ListRows(db, "discrepancies", "open")) = Cardinality(OpenDiscs(db))
  <2>1. "open" # None
    BY BooksAssumption DEF BooksAssumption
  <2> QED
    BY <2>1 DEF ListRows, OpenDiscs
<1>6. Beside(db, "returns", None) = Cardinality(PendingItems(db))
  BY DEF Beside, PendingItems
<1>7. month.unmapped = Cardinality(UnmappedOf(db))
  <2>1. UnmappedOf(db) = Within(Shown(db, MonthSoFar), {"unmapped_fee"})
    BY DEF UnmappedOf, Within, Shown
  <2> QED
    BY <2>1, MoneyIs DEF month, Money
<1> QED
  BY <1>4, <1>5, <1>6, <1>7, OutRows DEF NeedsAgree, needs, counted, items, month

-------------------------------------------------------------------------------
(* Shop Money: what was ever generated, and what was paid. *)

\* The groups of entries come to the entries.
LEMMA AmountGrouped ==
  ASSUME NEW S, IsFiniteSet(S), \A e \in S : e.amount \in Int,
         NEW f, NEW G, IsFiniteSet(G), \A e \in S : f[e] \in G,
         NEW h, \A g \in G : h[g] = Amount(GroupOf(S, f, g))
  PROVE  SumOf(h, G) = Amount(S) /\ \A g \in G : h[g] \in Int
<1> DEFINE a == [e \in S |-> e.amount]
<1>1. \A e \in S : a[e] = e.amount /\ a[e] \in Int
  OBVIOUS
<1> HIDE DEF a
<1>2. ASSUME NEW g \in G PROVE h[g] = SumOf(a, GroupOf(S, f, g)) /\ h[g] \in Int
  <2> DEFINE part == GroupOf(S, f, g)
  <2>1. part \subseteq S
    BY DEF GroupOf
  <2> HIDE DEF part
  <2>2. IsFiniteSet(part) /\ \A e \in part : a[e] = e.amount /\ e.amount \in Int
    BY <1>1, <2>1, FS_Subset
  <2>3. Amount(part) = SumOf(a, part) /\ Amount(part) \in Int
    BY <2>2, AmountIsSum, AmountType
  <2> QED
    BY <2>3 DEF part
<1>3. SumOf(h, G) = SumOf(a, S)
  <2>1. /\ \A e \in S : a[e] \in Int
        /\ \A g \in G : h[g] = SumOf(a, GroupOf(S, f, g))
    BY <1>1, <1>2
  <2> QED
    BY <2>1, SumGrouped
<1> QED
  BY <1>1, <1>2, <1>3, AmountIsSum

\* The statements that have entries, the entries that are paid out, and the payments.
StatementsOf(d) == {e.statement : e \in d.ledger} \ {0}
PaidOut(d)      == {e \in InShopMoney(d) : StatusOf(d, e) = "settled"}
Payments(d)     == Within(d.ledger, {"settlement"})

\* Of Shop Money's entries, what a statement has is paid out.
LEMMA PaidOutIs ==
  ASSUME NEW d, Booked(d)
  PROVE  PaidOut(d) = {e \in d.ledger : e.statement # 0 /\ e.type \notin {"payout", "reserve"}}
<1>1. ASSUME NEW e \in d.ledger
      PROVE  e \in PaidOut(d) <=> e.statement # 0 /\ e.type \notin {"payout", "reserve"}
  <2>1. RecordOK(e) /\ SettledWith(d, e)
    BY EntriesAre
  <2>2. e.type \notin {"payout", "reserve"} <=> e.category \notin PAYOUT
    BY EntriesByType
  <2>3. /\ e.category \in NET_PROCEEDS_CATEGORIES \cup {"return_shipping"} \cup OffStatement \cup PAYOUT
        /\ e.category \in NET_PROCEEDS_CATEGORIES \cup {"return_shipping"} => e.category \notin OffStatement \cup PAYOUT
    BY <2>1, CategoriesAre DEF RecordOK
  <2>4. e \in InShopMoney(d) <=> e.category \in NET_PROCEEDS_CATEGORIES \cup {"return_shipping"}
    BY <2>1 DEF InShopMoney, Postage, RecordOK
  <2>5. CASE e.statement # 0
    <3>1. StatusOf(d, e) = "settled"
      BY <2>5 DEF StatusOf
    <3>2. e.category \notin OffStatement
      BY <2>1, <2>5 DEF RecordOK
    <3> QED
      BY <2>2, <2>3, <2>4, <2>5, <3>1, <3>2 DEF PaidOut
  <2>6. CASE e.statement = 0
    <3>1. ASSUME e \in InShopMoney(d) PROVE StatusOf(d, e) # "settled"
      <4>1. e.category \notin OffStatement
        BY <2>3, <2>4, <3>1
      <4>2. e.order \in DOMAIN d.orders => d.orders[e.order].status # "settled"
        BY <2>1, <2>6, <4>1 DEF SettledWith
      <4> QED
        BY <2>6, <4>2 DEF StatusOf
    <3> QED
      BY <2>6, <3>1 DEF PaidOut
  <2> QED
    BY <2>5, <2>6
<1>2. PaidOut(d) \subseteq d.ledger
  BY DEF PaidOut, InShopMoney
<1> QED
  BY <1>1, <1>2

\* What is paid out is what was paid: of each statement, and so of all.
LEMMA PaidOutIsPaid ==
  ASSUME NEW d, Booked(d)
  PROVE  Amount(PaidOut(d)) = -Amount(Payments(d))
<1> DEFINE G == StatementsOf(d)
           A == PaidOut(d)
           B == Payments(d)
           f == [e \in d.ledger |-> e.statement]
           p == [g \in G |-> Amount(GroupOf(A, f, g))]
           q == [g \in G |-> Amount(GroupOf(B, f, g))]
<1>1. A \subseteq d.ledger /\ B \subseteq d.ledger
  BY DEF PaidOut, InShopMoney, Payments, Within
<1>2. \A e \in d.ledger : f[e] = e.statement
  OBVIOUS
<1>3. \A g \in G : p[g] = Amount(GroupOf(A, f, g)) /\ q[g] = Amount(GroupOf(B, f, g))
  OBVIOUS
<1>4. IsFiniteSet(G)
  <2>1. G \subseteq {f[e] : e \in d.ledger}
    BY DEF StatementsOf
  <2> HIDE DEF G, f
  <2>2. IsFiniteSet({f[e] : e \in d.ledger})
    BY EntriesAre, FiniteImage
  <2> QED
    BY <2>1, <2>2, FS_Subset
<1> HIDE DEF p, q, f
<1>5. /\ \A e \in A : e.statement # 0
      /\ \A e \in B : e.statement # 0
  <2>1. ASSUME NEW e \in B PROVE e.statement # 0
    BY EntriesAre DEF Payments, Within, RecordOK, OfStatement, PAYOUT
  <2> QED
    BY <2>1, PaidOutIs
<1>6. \A e \in A \cup B : f[e] \in G
  BY <1>1, <1>2, <1>5 DEF StatementsOf
<1>7. ASSUME NEW g \in G PROVE p[g] = -q[g]
  <2>1. PICK e \in d.ledger : g = e.statement /\ g # 0
    BY DEF StatementsOf
  <2>2. PICK s \in d.statements : s.id = <<g>>
    BY <2>1, EntriesAre DEF SettledWith
  <2>3. Reconciled(d, <<g>>) = -Paid(d, <<g>>)
    BY <2>2 DEF Booked, SettledOK
  <2>a. \A x : <<x>> = <<g>> <=> x = g
    OBVIOUS
  <2>4. GroupOf(A, f, g) = {x \in d.ledger : <<x.statement>> = <<g>> /\ x.type \notin {"payout", "reserve"}}
    BY <1>1, <1>2, <2>1, <2>a, PaidOutIs DEF GroupOf
  <2>5. GroupOf(B, f, g) = {x \in Within(d.ledger, {"settlement"}) : <<x.statement>> = <<g>>}
    BY <1>1, <1>2, <2>a DEF GroupOf, Payments
  <2> QED
    BY <1>3, <2>3, <2>4, <2>5 DEF Reconciled, Paid
<1>8. /\ IsFiniteSet(A) /\ \A e \in A : e.amount \in Int
      /\ IsFiniteSet(B) /\ \A e \in B : e.amount \in Int
  BY <1>1, SomeEntries
<1> HIDE DEF A, B, G
<1>9. SumOf(p, G) = Amount(A) /\ \A g \in G : p[g] \in Int
  BY <1>3, <1>4, <1>6, <1>8, AmountGrouped
<1>10. SumOf(q, G) = Amount(B) /\ \A g \in G : q[g] \in Int
  BY <1>3, <1>4, <1>6, <1>8, AmountGrouped
<1>11. \A g \in G : p[g] = (-1) * q[g]
  BY <1>7, <1>10
<1>12. SumOf(p, G) = (-1) * SumOf(q, G)
  BY <1>4, <1>10, <1>11, SumTimes
<1>13. SumOf(q, G) \in Int
  BY <1>4, <1>10, SumType
<1> QED
  BY <1>9, <1>10, <1>12, <1>13 DEF A, B

\* Shop Money is what the Money screen has of all time, and what was paid.
LEMMA ShopMoneyIsAgreed == ASSUME Booked(db) PROVE ShopMoneyAgrees(Money(AllTime), ShopMoney(db))
<1>1. /\ ShopMoney(db).generated = Amount({e \in InShopMoney(db) : ~Postage(e)})
      /\ ShopMoney(db).paid_out = Amount(PaidOut(db))
  BY DEF ShopMoney, PaidOut
<1>2. {e \in InShopMoney(db) : ~Postage(e)} = Within(Shown(db, AllTime), NET_PROCEEDS_CATEGORIES)
  <2>1. "return_shipping" \notin NET_PROCEEDS_CATEGORIES /\ "cost_of_goods_sold" \notin NET_PROCEEDS_CATEGORIES
    BY CategoriesAre, MeasuresAre
  <2>2. ASSUME NEW e \in db.ledger PROVE InPeriod(e, AllTime)
    BY AllDays
  <2>3. \A e : Postage(e) => e.category = "return_shipping"
    BY DEF Postage
  <2> QED
    BY <2>1, <2>2, <2>3 DEF InShopMoney, Within, Shown
<1>3. Money(AllTime).net_proceeds = Amount(Within(Shown(db, AllTime), NET_PROCEEDS_CATEGORIES))
  BY MoneyIs DEF Money
<1> QED
  BY <1>1, <1>2, <1>3, PaidOutIsPaid DEF ShopMoneyAgrees, Payments

-------------------------------------------------------------------------------
(* The months of the VAT monitor. *)

\* A finite set of numbers has a greatest and a least one.
LEMMA Extremes ==
  ASSUME NEW S, IsFiniteSet(S), \A y \in S : y \in Int, S # {}
  PROVE  /\ Max(S) \in S /\ \A y \in S : y <= Max(S)
         /\ Min(S) \in S /\ \A y \in S : Min(S) <= y
<1>a. \A y \in S : y \in Int
  OBVIOUS
<1>1. \E x \in S : \A y \in S : x >= y
  <2> DEFINE from(x) == {y \in S : y >= x}
             T == {from(x) : x \in S}
  <2>1. PICK R \in T : \A t \in T : t \subseteq R => t = R
    <3>1. T \subseteq SUBSET S
      OBVIOUS
    <3>2. T # {}
      OBVIOUS
    <3> HIDE DEF T
    <3>3. \E s \in T : \A t \in T : t \subseteq s => t = s
      BY <3>1, <3>2, Smallest
    <3> QED
      BY <3>3
  <2>2. PICK x \in S : R = from(x)
    OBVIOUS
  <2>3. ASSUME NEW y \in S, ~(x >= y) PROVE FALSE
    <3>1. \A z \in S : z >= y => z >= x
      BY <1>a, <2>3
    <3>2. x >= x /\ ~(x >= y)
      BY <1>a, <2>3
    <3>3. from(y) \subseteq from(x)
      BY <3>1
    <3>4. x \in from(x) /\ x \notin from(y)
      BY <3>2
    <3>5. from(y) \in T
      OBVIOUS
    <3> QED
      BY <2>1, <2>2, <3>3, <3>4, <3>5
  <2> QED
    BY <2>3
<1>2. \E x \in S : \A y \in S : x <= y
  <2> DEFINE upto(x) == {y \in S : y <= x}
             T == {upto(x) : x \in S}
  <2>1. PICK R \in T : \A t \in T : t \subseteq R => t = R
    <3>1. T \subseteq SUBSET S
      OBVIOUS
    <3>2. T # {}
      OBVIOUS
    <3> HIDE DEF T
    <3>3. \E s \in T : \A t \in T : t \subseteq s => t = s
      BY <3>1, <3>2, Smallest
    <3> QED
      BY <3>3
  <2>2. PICK x \in S : R = upto(x)
    OBVIOUS
  <2>3. ASSUME NEW y \in S, ~(x <= y) PROVE FALSE
    <3>1. \A z \in S : z <= y => z <= x
      BY <1>a, <2>3
    <3>2. x <= x /\ ~(x <= y)
      BY <1>a, <2>3
    <3>3. upto(y) \subseteq upto(x)
      BY <3>1
    <3>4. x \in upto(x) /\ x \notin upto(y)
      BY <3>2
    <3>5. upto(y) \in T
      OBVIOUS
    <3> QED
      BY <2>1, <2>2, <3>3, <3>4, <3>5
  <2> QED
    BY <2>3
<1>3. Max(S) \in S /\ \A y \in S : Max(S) >= y
  BY <1>1 DEF Max
<1>4. Min(S) \in S /\ \A y \in S : Min(S) <= y
  BY <1>2 DEF Min
<1> QED
  BY <1>3, <1>4

\* The month of a day is the last one that has begun.
LEMMA MonthIs ==
  ASSUME NEW day \in Nat \ {0}
  PROVE  /\ MonthOf(day) \in MonthStart /\ MonthOf(day) <= day
         /\ \A m \in MonthStart : m <= day => m <= MonthOf(day)
<1> DEFINE S == {m \in MonthStart : m <= day}
<1>1. (\A m \in MonthStart : m \in Int /\ m >= 1) /\ 1 \in MonthStart
  BY LedgerAssumption DEF LedgerAssumption
<1>2. (\A y \in S : y \in Int) /\ S # {} /\ S \subseteq 1 .. day
  BY <1>1
<1>3. IsFiniteSet(S)
  <2>1. IsFiniteSet(1 .. day)
    BY FS_Interval
  <2> QED
    BY <1>2, <2>1, FS_Subset
<1>4. MonthOf(day) = Max(S)
  BY DEF MonthOf
<1> HIDE DEF S
<1>5. Max(S) \in S /\ \A y \in S : y <= Max(S)
  BY <1>2, <1>3, Extremes
<1> QED
  BY <1>4, <1>5 DEF S

\* The twelve months are those from the first of them to today's.
LEMMA MonthsAre ==
  /\ IsFiniteSet(TwelveMonths) /\ Min(TwelveMonths) \in MonthStart
  /\ TwelveMonths = {m \in MonthStart : Min(TwelveMonths) <= m /\ m <= Today}
  /\ Min(TwelveMonths) <= Today
<1> DEFINE T == TwelveMonths
           after(m) == {n \in MonthStart : m < n /\ n <= Today}
<1>1. (\A m \in MonthStart : m \in Int /\ m >= 1) /\ Today \in Nat \ {0}
  BY LedgerAssumption DEF LedgerAssumption
<1>2. T = {m \in MonthStart : m <= Today /\ Cardinality(after(m)) < 12}
  BY DEF TwelveMonths
<1>3. IsFiniteSet(1 .. Today)
  BY <1>1, FS_Interval
<1>4. ASSUME NEW m PROVE IsFiniteSet(after(m)) /\ Cardinality(after(m)) \in Nat
  <2>1. after(m) \subseteq 1 .. Today
    BY <1>1
  <2> HIDE DEF after
  <2> QED
    BY <1>3, <2>1, FS_Subset, FS_CardinalityType
<1>5. T \subseteq 1 .. Today /\ (\A y \in T : y \in Int) /\ IsFiniteSet(T)
  <2>1. T \subseteq 1 .. Today
    BY <1>1, <1>2
  <2> HIDE DEF T
  <2>2. IsFiniteSet(T)
    BY <1>3, <2>1, FS_Subset
  <2> QED
    BY <1>1, <2>1, <2>2
<1>6. MonthOf(Today) \in T
  <2>1. after(MonthOf(Today)) = {}
    BY <1>1, MonthIs
  <2>2. Cardinality(after(MonthOf(Today))) = 0
    BY <2>1, FS_EmptySet
  <2> QED
    BY <1>1, <1>2, <2>2, MonthIs
<1>7. Min(T) \in T /\ \A y \in T : Min(T) <= y
  <2> HIDE DEF T
  <2> QED
    BY <1>5, <1>6, Extremes
<1>8. ASSUME NEW m \in MonthStart, Min(T) <= m, m <= Today PROVE m \in T
  <2>1. Min(T) \in Int /\ m \in Int
    BY <1>1, <1>2, <1>7
  <2>2. after(m) \subseteq after(Min(T))
    <3>1. PICK w : w = Min(T)
      OBVIOUS
    <3>2. w \in Int /\ w <= m
      BY <1>8, <2>1, <3>1
    <3>3. \A n \in MonthStart : m < n => w < n
      BY <1>1, <2>1, <3>2
    <3>4. after(m) \subseteq after(w)
      BY <3>3
    <3> QED
      BY <3>1, <3>4
  <2>3. Cardinality(after(Min(T))) < 12
    BY <1>2, <1>7
  <2> HIDE DEF after
  <2>4. Cardinality(after(m)) <= Cardinality(after(Min(T)))
    BY <1>4, <2>2, FS_Subset
  <2> QED
    BY <1>2, <1>4, <1>8, <2>3, <2>4
<1> HIDE DEF after
<1>9. T = {m \in MonthStart : Min(T) <= m /\ m <= Today}
  BY <1>2, <1>7, <1>8
<1> HIDE DEF T
<1>10. Min(T) \in MonthStart /\ Min(T) <= Today
  BY <1>7, <1>9
<1> QED
  BY <1>5, <1>9, <1>10 DEF T

\* What other channels sold is a sum.
LEMMA OthersAreSum ==
  ASSUME NEW S, IsFiniteSet(S), NEW q, \A o \in S : q[o] = o.gross
  PROVE  MapThenSumSet(LAMBDA o : o.gross, S) = SumOf(q, S)
<1> DEFINE P(h) == h = [s \in SUBSET S |->
                    IF s = {} THEN 0 ELSE (CHOOSE x \in s : TRUE).gross + h[s \ {CHOOSE x \in s : TRUE}]]
<1>1. ASSUME NEW h PROVE P(h) <=> Adds(q, S, h)
  <2>1. \A s \in SUBSET S : s # {} => q[OneOf(s)] = OneOf(s).gross
    BY OneIn
  <2> QED
    BY <2>1 DEF Adds, OneOf
<1>2. MapThenSumSet(LAMBDA o : o.gross, S) = (CHOOSE h : P(h))[S]
  BY DEF P, MapThenSumSet, MapThenFoldSet
<1> HIDE DEF P
<1>3. P(TheSums(q, S))
  BY <1>1, TheOnlySums
<1>4. Adds(q, S, CHOOSE h : P(h))
  BY <1>1, <1>3
<1> QED
  BY <1>2, <1>4, TheOnlySums DEF SumOf

\* What TikTok sold in a month, and what other channels did.
TikTokIn(d, w, m) == Amount({e \in Within(d.ledger, {"gross_sales"}) : e.day >= w /\ MonthOf(e.day) = m})
ElsewhereIn(d, m) == MapThenSumSet(LAMBDA o : o.gross, {o \in d.others : o.month = m})

\* The months of the VAT monitor, when it has a threshold to compare them with.
LEMMA VatIs ==
  ASSUME NEW d, VatMonitor(d, d, d).error = "none"
  PROVE  VatMonitor(d, d, d).months =
           [m \in TwelveMonths |-> [tiktok |-> TikTokIn(d, Min(TwelveMonths), m), other |-> ElsewhereIn(d, m)]]
<1>1. {r \in RULE : r.set = "vat" /\ r.key = "registration_threshold" /\ InForce(r, Today)} # {}
  BY DEF VatMonitor
<1> QED
  BY <1>1 DEF VatMonitor, TikTokIn, ElsewhereIn

\* TikTok's months come to what was sold since the first of them.
LEMMA TikTokAddsUp ==
  ASSUME Booked(db), NEW w, w = Min(TwelveMonths),
         NEW q, DOMAIN q = TwelveMonths, \A m \in TwelveMonths : q[m] = TikTokIn(db, w, m)
  PROVE  SumFunction(q) = Money(Since(w)).gross_sales
<1> DEFINE S == Within(Shown(db, Since(w)), {"gross_sales"})
           f == [e \in S |-> MonthOf(e.day)]
           T == TwelveMonths
<1>1. /\ w \in Int /\ Today \in Int
      /\ \A m \in T : m \in MonthStart
      /\ \A m \in MonthStart : w <= m /\ m <= Today => m \in T
      /\ w \in MonthStart /\ IsFiniteSet(T)
  <2>1. Today \in Nat \ {0} /\ \A m \in MonthStart : m \in Nat \ {0}
    BY LedgerAssumption DEF LedgerAssumption
  <2>2. w \in MonthStart /\ IsFiniteSet(T) /\ T = {m \in MonthStart : w <= m /\ m <= Today}
    BY MonthsAre
  <2> HIDE DEF T
  <2> QED
    BY <2>1, <2>2
<1> HIDE DEF T
<1>2. ASSUME NEW e \in db.ledger
      PROVE  e \in S <=> e.category = "gross_sales" /\ e.day >= w
  <2>1. e.day \in 1 .. Today
    BY EntriesAre DEF RecordOK
  <2>2. InPeriod(e, Since(w)) <=> e.day >= w
    BY <1>1, <2>1 DEF InPeriod, Since, DateOn
  <2> QED
    BY <2>2 DEF Within, Shown
<1>3. S \subseteq db.ledger
  BY DEF Within, Shown
<1>4. ASSUME NEW e \in S PROVE MonthOf(e.day) \in T
  <2>1. e.day \in 1 .. Today /\ e.day >= w
    BY <1>2, <1>3, EntriesAre DEF RecordOK
  <2>2. e.day \in Nat \ {0}
    BY <1>1, <2>1
  <2>3. /\ MonthOf(e.day) \in MonthStart /\ MonthOf(e.day) <= e.day
        /\ w <= MonthOf(e.day)
    BY <1>1, <2>1, <2>2, MonthIs
  <2>4. MonthOf(e.day) \in Int
    <3>1. \A m \in MonthStart : m \in Int
      BY LedgerAssumption DEF LedgerAssumption
    <3> QED
      BY <2>3, <3>1
  <2>5. MonthOf(e.day) <= Today
    BY <1>1, <2>1, <2>3, <2>4
  <2> QED
    BY <1>1, <2>3, <2>5
<1>5. ASSUME NEW m \in T PROVE q[m] = Amount(GroupOf(S, f, m))
  <2>1. {e \in Within(db.ledger, {"gross_sales"}) : e.day >= w /\ MonthOf(e.day) = m} = GroupOf(S, f, m)
    BY <1>2, <1>3 DEF GroupOf, Within
  <2> QED
    BY <2>1 DEF TikTokIn, T
<1>6. \A e \in S : f[e] \in T
  BY <1>4
<1>7. IsFiniteSet(S) /\ \A e \in S : e.amount \in Int
  BY <1>3, SomeEntries
<1>8. Money(Since(w)).gross_sales = Amount(S)
  BY MoneyIs DEF Money
<1> HIDE DEF S, f
<1>9. \A m \in T : q[m] = Amount(GroupOf(S, f, m))
  BY <1>5
<1>10. SumOf(q, T) = Amount(S)
  BY <1>1, <1>6, <1>7, <1>9, AmountGrouped
<1>11. SumFunction(q) = SumOf(q, T)
  BY <1>1, FunctionIsSum DEF T
<1> QED
  BY <1>8, <1>10, <1>11

\* The months of other channels come to what the list of them has of the same days.
LEMMA OthersAddUp ==
  ASSUME Booked(db), NEW w, w = Min(TwelveMonths),
         NEW q, DOMAIN q = TwelveMonths, \A m \in TwelveMonths : q[m] = ElsewhereIn(db, m)
  PROVE  SumFunction(q) = SumFunction(OtherSales(db, w, Today))
<1> DEFINE T == TwelveMonths
           in == {o \in db.others : MonthOf(w) <= o.month /\ o.month <= MonthOf(Today)}
           M == {o.month : o \in in}
           of(m) == {o \in db.others : o.month = m}
           p == [m \in M |-> MapThenSumSet(LAMBDA o : o.gross, {o \in in : o.month = m})]
           g == [o \in db.others |-> o.gross]
           k == [o \in db.others |-> o.month]
<1>1. /\ w \in Nat \ {0} /\ Today \in Nat \ {0}
      /\ T = {m \in MonthStart : w <= m /\ m <= Today}
      /\ w \in MonthStart /\ IsFiniteSet(T) /\ w <= Today
      /\ \A m \in MonthStart : m \in Int /\ m >= 1
  <2>1. Today \in Nat \ {0} /\ \A m \in MonthStart : m \in Nat \ {0}
    BY LedgerAssumption DEF LedgerAssumption
  <2>2. /\ w \in MonthStart /\ IsFiniteSet(T) /\ w <= Today
        /\ T = {m \in MonthStart : w <= m /\ m <= Today}
    BY MonthsAre
  <2> HIDE DEF T
  <2> QED
    BY <2>1, <2>2
<1>2. IsFiniteSet(db.others) /\ \A o \in db.others : o.month \in MonthStart /\ o.gross \in Int
  BY DEF Booked, SettledOK
<1>3. ASSUME NEW m \in MonthStart PROVE MonthOf(w) <= m /\ m <= MonthOf(Today) <=> m \in T
  <2>1. MonthOf(w) = w
    <3>1. MonthOf(w) \in MonthStart /\ MonthOf(w) <= w /\ w <= MonthOf(w) /\ w \in Int
      BY <1>1, MonthIs
    <3>2. MonthOf(w) \in Int
      BY <1>1, <3>1
    <3> QED
      BY <3>1, <3>2
  <2>2. MonthOf(Today) \in Int /\ MonthOf(Today) <= Today /\ m \in Int
    BY <1>1, MonthIs
  <2>3. m <= MonthOf(Today) <=> m <= Today
    BY <1>1, <2>2, MonthIs
  <2> QED
    BY <1>1, <2>1, <2>3
<1>4. in = {o \in db.others : o.month \in T}
  BY <1>2, <1>3
<1>5. OtherSales(db, w, Today) = p
  BY DEF OtherSales
<1> HIDE DEF in, T
<1>6. M \subseteq T /\ in \subseteq db.others
  BY <1>4
<1>7. ASSUME NEW m \in M PROVE q[m] = p[m]
  <2>1. {o \in in : o.month = m} = of(m)
    BY <1>4, <1>6
  <2>2. p[m] = MapThenSumSet(LAMBDA o : o.gross, of(m))
    BY <2>1
  <2> QED
    BY <1>6, <2>2 DEF ElsewhereIn, T
<1>8. ASSUME NEW m \in T PROVE q[m] = SumOf(g, of(m)) /\ q[m] \in Int
  <2>1. of(m) \subseteq db.others
    OBVIOUS
  <2>2. q[m] = MapThenSumSet(LAMBDA o : o.gross, of(m))
    BY DEF ElsewhereIn, T
  <2>3. \A o \in of(m) : g[o] = o.gross /\ g[o] \in Int
    BY <1>2
  <2> HIDE DEF of, g
  <2>4. IsFiniteSet(of(m))
    BY <1>2, <2>1, FS_Subset
  <2>5. MapThenSumSet(LAMBDA o : o.gross, of(m)) = SumOf(g, of(m))
    BY <2>3, <2>4, OthersAreSum
  <2>6. SumOf(g, of(m)) \in Int
    BY <2>3, <2>4, SumType
  <2> QED
    BY <2>2, <2>5, <2>6
<1>9. ASSUME NEW m \in T \ M PROVE q[m] = 0
  <2>1. of(m) = {}
    BY <1>4
  <2> QED
    BY <1>8, <2>1, SumNothing
<1>10. IsFiniteSet(M)
  <2>1. IsFiniteSet(in)
    BY <1>2, <1>6, FS_Subset
  <2>2. IsFiniteSet({k[o] : o \in in})
    BY <2>1, FiniteImage
  <2>3. {k[o] : o \in in} = M
    BY <1>6
  <2> QED
    BY <2>2, <2>3
<1>11. DOMAIN p = M
  OBVIOUS
<1>12. (\A m \in T : q[m] \in Int) /\ (\A m \in T \ M : q[m] = 0) /\ \A m \in M : q[m] = p[m]
  BY <1>7, <1>8, <1>9
<1> HIDE DEF M, p, of, g, k
<1>13. SumOf(q, T) = SumOf(q, M)
  <2>1. IsFiniteSet(T) /\ M \subseteq T
    BY <1>1, <1>6
  <2>2. \A m \in T : q[m] \in Int
    BY <1>12
  <2>3. \A m \in T \ M : q[m] = 0
    BY <1>12
  <2> QED
    BY <2>1, <2>2, <2>3, SumZeros
<1>14. SumOf(q, M) = SumOf(p, M)
  BY <1>10, <1>12, SumSame
<1>15. SumFunction(q) = SumOf(q, T) /\ SumFunction(p) = SumOf(p, M)
  BY <1>1, <1>10, <1>11, FunctionIsSum DEF T
<1> QED
  BY <1>5, <1>13, <1>14, <1>15

\* The VAT monitor's months come to the Money screen's sales of the same days, and to what the
\* list of other channels has of them.
LEMMA VatIsAgreed ==
  ASSUME Booked(db)
  PROVE  VatAgrees(Money(Since(Min(TwelveMonths))), VatMonitor(db, db, db), Since(Min(TwelveMonths)))
<1>1. PICK w : w = Min(TwelveMonths)
  OBVIOUS
<1>2. PICK vat : vat = VatMonitor(db, db, db)
  OBVIOUS
<1>3. ASSUME vat.error = "none"
      PROVE  /\ SumFunction([m \in DOMAIN vat.months |-> vat.months[m]["tiktok"]]) = Money(Since(w)).gross_sales
             /\ SumFunction([m \in DOMAIN vat.months |-> vat.months[m]["other"]])
                  = SumFunction(OtherSales(db, w, Today))
  <2>1. vat.months = [m \in TwelveMonths |-> [tiktok |-> TikTokIn(db, w, m), other |-> ElsewhereIn(db, m)]]
    BY <1>1, <1>2, <1>3, VatIs
  <2>2. PICK q : q = [m \in DOMAIN vat.months |-> vat.months[m]["tiktok"]]
    OBVIOUS
  <2>3. PICK r : r = [m \in DOMAIN vat.months |-> vat.months[m]["other"]]
    OBVIOUS
  <2>4. DOMAIN q = TwelveMonths /\ \A m \in TwelveMonths : q[m] = TikTokIn(db, w, m)
    BY <2>1, <2>2
  <2>5. DOMAIN r = TwelveMonths /\ \A m \in TwelveMonths : r[m] = ElsewhereIn(db, m)
    BY <2>1, <2>3
  <2>6. SumFunction(q) = Money(Since(w)).gross_sales
    BY <1>1, <2>4, TikTokAddsUp
  <2>7. SumFunction(r) = SumFunction(OtherSales(db, w, Today))
    BY <1>1, <2>5, OthersAddUp
  <2> QED
    BY <2>2, <2>3, <2>6, <2>7
<1>4. Since(w).from = w /\ Since(w).to = Today
  BY DEF Since
<1>5. VatAgrees(Money(Since(w)), vat, Since(w))
  BY <1>3, <1>4 DEF VatAgrees
<1> QED
  BY <1>1, <1>2, <1>5

-------------------------------------------------------------------------------
(* All of them. *)

\* The books as any commit leaves them are such as the screens rely on.
LEMMA BooksAreBooked == ASSUME PagingInv, DetailInv, ScreensInv PROVE Booked(db)
<1>1. FiguresOK(db)
  BY Growing DEF DetailInv, PagingInv, HistoryOK, db
<1>2. TablesOK(db)
  BY Growing DEF PagingInv, HistoryOK, db
<1> QED
  BY <1>1, <1>2 DEF Booked, ScreensInv

\* A period that is asked for has days of its own.
LEMMA PeriodsAre == \A period \in Periods : {"basis", "from", "to"} \subseteq DOMAIN period
<1>1. {"basis", "from", "to"} \subseteq DOMAIN AllTime
  BY DEF AllTime, Since
<1>2. ASSUME NEW q \in Question, "period" \in DOMAIN q PROVE {"basis", "from", "to"} \subseteq DOMAIN q.period
  BY <1>2, BooksAssumption DEF BooksAssumption
<1> QED
  BY <1>1, <1>2 DEF Periods

\* Screens of the same books agree.
LEMMA ScreensAreAgreed == ASSUME PagingInv, DetailInv, ScreensInv PROVE ScreensAgree
<1>1. Booked(db)
  BY BooksAreBooked
<1>2. ASSUME NEW period \in Periods PROVE RankingAgrees(Money(period), Totals(period))
  BY <1>1, RankingIsAgreed
<1>3. ASSUME NEW period \in Periods
      PROVE  ReturnsAgree(Money([period EXCEPT !.basis = "sales"]), ReturnMetrics(db, period.from, period.to))
  BY <1>1, PeriodsAre, ReturnsAreAgreed
<1>4. PaceAgrees(Money(Since(Today - 6)), Velocity(db, db, "sales", 7), 7)
  BY <1>1, PaceIsAgreed
<1>5. VatAgrees(Money(Since(Min(TwelveMonths))), VatMonitor(db, db, db), Since(Min(TwelveMonths)))
  BY <1>1, VatIsAgreed
<1>6. NeedsAgree(NeedsYouItems(db), Money(MonthSoFar))
  BY <1>1, NeedsAreAgreed
<1>7. ShopMoneyAgrees(Money(AllTime), ShopMoney(db)) /\ RecordsAgree(Money(AllTime)) /\ StatementsAgree
  BY <1>1, ShopMoneyIsAgreed, RecordsAreAgreed, StatementsAreAgreed
<1> QED
  BY <1>2, <1>3, <1>4, <1>5, <1>6, <1>7 DEF ScreensAgree

\* What the screens rely on holds whatever is committed, for any books and writes.
THEOREM ScreensRely == Spec => [](PagingInv /\ DetailInv /\ ScreensInv)
<1>1. Init => PagingInv /\ DetailInv /\ ScreensInv
  BY PagingInit, DetailInit, ScreensInit
<1>2. PagingInv /\ DetailInv /\ ScreensInv /\ [Next]_vars => (PagingInv /\ DetailInv /\ ScreensInv)'
  BY PagingStep, DetailStep, ScreensStep
<1> QED
  BY <1>1, <1>2, PTL DEF Spec

\* Two screens that show one figure of the same tables show the same amount: the Money screen
\* and the ranking, the returns, the pace, the VAT monitor, Shop Money, the records, the
\* settlements and what needs the seller, each with statements of its own.
THEOREM ScreensAgreeHolds == Spec => []ScreensAgree
BY ScreensRely, ScreensAreAgreed, PTL
===============================================================================
