-------------------------- MODULE Services_proofs --------------------------
(***************************************************************************)
(* The parts of Services, each for itself, and together.                   *)
(*                                                                         *)
(* Chat.  Messages are found in one call and written back in another, at   *)
(* an index where by then another message may be.  However many writers do *)
(* that at a time, what is marked as deleted is what its author wanted     *)
(* deleted: the message that is written is the one that was found          *)
(* (ChatInv).  With one handler at a time what it has in hand is what the  *)
(* lists hold (ChatCalm), and so the chat is the board it promises to be.  *)
(*                                                                         *)
(* End of rooms.  The cleanup deletes what it should and nothing else, for *)
(* any number of guests, rooms and days.  That it deletes nothing else     *)
(* rests on the marks being newer than the last time somebody was there,   *)
(* which holds once nobody is about to write one (MarksAreNew), and on the *)
(* cleanup's copies of the marks and of the rooms in memory not being      *)
(* stale (CopiesAreFresh): so it holds only as long as guests and cleanup  *)
(* take turns.  That it deletes all it should needs less: a mark that      *)
(* changes during a cleanup is new or gone (MarksChangeToNow).             *)
(*                                                                         *)
(* Documents.  Each is read whole, edited and written whole.  Merging the  *)
(* spenders loses no money (MergeAddsUp).  With one request at a time and  *)
(* no error of Redis what was read is what is stored, and what was written *)
(* is what is used (CalmDocs): so the clock plays the schedules stored,    *)
(* the totals announced are those stored, and an edit leaves the other     *)
(* entries alone.                                                          *)
(***************************************************************************)
EXTENDS Services, Delivery_proofs, FiniteSetTheorems, WellFoundedInduction

-----------------------------------------------------------------------------
(* Numbers and lists.  The induction theorems of the library are about     *)
(* operators; that a set of numbers has a smallest element does as well.   *)

\* A set of natural numbers has a smallest element.
LEMMA SmallestNat ==
    ASSUME NEW S \in SUBSET Nat, S # {}
    PROVE  \E n \in S : \A m \in S : n <= m
<1> DEFINE R == OpToRel(<, Nat)
<1>1. IsWellFoundedOn(R, Nat)
  BY NatLessThanWellFounded
<1> HIDE DEF R
<1>2. PICK x \in S : \A y \in S : <<y, x>> \notin R
  BY <1>1, WFMin
<1>3. \A y \in S : ~ (y < x)
  BY <1>2 DEF R, OpToRel
<1> QED
  BY <1>3

\* Nth counts through the places of a list, in their order.
LEMMA NthProperties ==
    ASSUME NEW n \in Nat, NEW places \in SUBSET (1..n)
    PROVE  /\ Cardinality(places) \in 0..n
           /\ \A k \in 1..Cardinality(places) : Nth(places, k) \in places
           /\ \A i \in places : \E k \in 1..Cardinality(places) : Nth(places, k) = i
           /\ \A k, l \in 1..Cardinality(places) : Nth(places, k) = Nth(places, l) => k = l
<1> DEFINE m == Cardinality(places)
           Before(i) == {j \in places : j < i}
           rank == [i \in places |-> Cardinality(Before(i)) + 1]
<1>1. IsFiniteSet(places) /\ m \in Nat /\ m <= n
  <2>1. IsFiniteSet(1..n) /\ Cardinality(1..n) = n
    <3>1. 1 \in Int /\ n \in Int
      OBVIOUS
    <3>2. IsFiniteSet(1..n) /\ Cardinality(1..n) = IF 1 > n THEN 0 ELSE n - 1 + 1
      BY <3>1, FS_Interval
    <3> QED
      BY <3>2
  <2> QED
    BY <2>1, FS_Subset, FS_CardinalityType
<1>2. \A i \in places : IsFiniteSet(Before(i)) /\ Cardinality(Before(i)) \in Nat
  <2> TAKE i \in places
  <2>1. IsFiniteSet(Before(i))
    BY <1>1, FS_Subset
  <2> QED
    BY <2>1, FS_CardinalityType
<1>3. \A i \in places, T \in SUBSET places : i \notin T => Cardinality(T) < m
  <2> TAKE i \in places, T \in SUBSET places
  <2> HAVE i \notin T
  <2>1. IsFiniteSet(T) /\ Cardinality(T) <= m /\ (Cardinality(T) = m => T = places)
    BY <1>1, FS_Subset
  <2>2. Cardinality(T) \in Nat
    BY <2>1, FS_CardinalityType
  <2> QED
    BY <1>1, <2>1, <2>2
<1>4. \A i \in places : rank[i] \in 1..m
  <2> TAKE i \in places
  <2>1. i \notin Before(i) /\ Before(i) \in SUBSET places
    BY DEF Before
  <2> QED
    BY <1>1, <1>2, <1>3, <2>1
<1>5. \A i, j \in places : i < j => rank[i] < rank[j]
  <2> TAKE i \in places, j \in places
  <2> HAVE i < j
  <2>1. Before(i) \cup {i} \subseteq Before(j) /\ i \notin Before(i)
    <3>1. \A x \in places : x \in Int
      OBVIOUS
    <3>2. \A x \in places : x < i => x < j
      BY <3>1
    <3>3. ~(i < i)
      BY <3>1
    <3> QED
      BY <3>2, <3>3 DEF Before
  <2>2. Cardinality(Before(i) \cup {i}) = Cardinality(Before(i)) + 1
    BY <1>2, <2>1, FS_AddElement
  <2>3. Cardinality(Before(i) \cup {i}) <= Cardinality(Before(j))
    BY <1>2, <2>1, FS_Subset
  <2> QED
    BY <1>2, <2>2, <2>3
<1>6. \A i, j \in places : rank[i] = rank[j] => i = j
  BY <1>4, <1>5
<1>7. \A k \in 1..m : \E i \in places : rank[i] = k
  <2>1. rank \in Injection(places, 1..m)
    BY <1>4, <1>6 DEF Injection, IsInjective
  <2>2. IsFiniteSet(1..m) /\ Cardinality(1..m) = m
    <3>1. 1 \in Int /\ m \in Int
      BY <1>1
    <3>2. IsFiniteSet(1..m) /\ Cardinality(1..m) = IF 1 > m THEN 0 ELSE m - 1 + 1
      BY <3>1, FS_Interval
    <3> QED
      BY <1>1, <3>2
  <2>3. rank \in Surjection(places, 1..m)
    BY <2>1, <2>2, FS_Injection
  <2> QED
    BY <2>3 DEF Surjection
<1>8. \A i \in places, k \in 1..m : Cardinality({j \in places : j < i}) = k - 1 <=> rank[i] = k
  BY <1>2
<1> HIDE DEF rank
<1>9. \A k \in 1..m : Nth(places, k) \in places /\ rank[Nth(places, k)] = k
  <2> TAKE k \in 1..m
  <2>1. \E i \in places : Cardinality({j \in places : j < i}) = k - 1
    BY <1>7, <1>8
  <2>2. /\ Nth(places, k) \in places
        /\ Cardinality({j \in places : j < Nth(places, k)}) = k - 1
    BY <2>1 DEF Nth
  <2> QED
    BY <1>8, <2>2
<1> HIDE DEF Before
<1>10. ASSUME NEW i \in places
       PROVE  \E k \in 1..m : Nth(places, k) = i
  <2>1. rank[i] \in 1..m
    BY <1>4
  <2>2. Nth(places, rank[i]) \in places /\ rank[Nth(places, rank[i])] = rank[i]
    BY <1>9, <2>1
  <2>3. Nth(places, rank[i]) = i
    BY <1>6, <2>2
  <2> QED
    BY <2>1, <2>3
<1>11. ASSUME NEW k \in 1..m, NEW l \in 1..m, Nth(places, k) = Nth(places, l)
       PROVE  k = l
  BY <1>9, <1>11
<1>12. m \in 0..n
  BY <1>1
<1> QED
  BY <1>9, <1>10, <1>11, <1>12

\* What a list has at some of its places is a list of the same things, each at most once.
LEMMA AtProperties ==
    ASSUME NEW S, NEW list \in Seq(S), NEW places \in SUBSET DOMAIN list
    PROVE  /\ At(list, places) \in Seq(S)
           /\ Len(At(list, places)) = Cardinality(places)
           /\ Len(At(list, places)) <= Len(list)
           /\ \A k \in DOMAIN At(list, places) :
                Nth(places, k) \in places /\ At(list, places)[k] = list[Nth(places, k)]
           /\ \A i \in places : \E k \in DOMAIN At(list, places) : Nth(places, k) = i
           /\ \A k, l \in DOMAIN At(list, places) :
                Nth(places, k) = Nth(places, l) => k = l
<1> DEFINE m == Cardinality(places)
<1>1. /\ Len(list) \in Nat /\ DOMAIN list = 1..Len(list)
      /\ \A i \in places : list[i] \in S
  BY ElementOfSeq
<1>2. /\ m \in 0..Len(list)
      /\ \A k \in 1..m : Nth(places, k) \in places
      /\ \A i \in places : \E k \in 1..m : Nth(places, k) = i
      /\ \A k, l \in 1..m : Nth(places, k) = Nth(places, l) => k = l
  BY <1>1, NthProperties
<1> HIDE DEF m
<1>3. At(list, places) = [k \in 1..m |-> list[Nth(places, k)]]
  BY DEF At, m
<1>4. /\ At(list, places) \in Seq(S) /\ DOMAIN At(list, places) = 1..m
      /\ Len(At(list, places)) = m
  <2>1. \A k \in 1..m : list[Nth(places, k)] \in S
    BY <1>1, <1>2
  <2>2. m \in Nat
    BY <1>1, <1>2
  <2>3. [k \in 1..m |-> list[Nth(places, k)]] \in [1..m -> S]
    BY <2>1
  <2> QED
    BY <1>3, <2>2, <2>3
<1>5. Len(At(list, places)) <= Len(list)
  BY <1>1, <1>2, <1>4
<1>6. \A k \in 1..m : Nth(places, k) \in places /\ At(list, places)[k] = list[Nth(places, k)]
  BY <1>2, <1>3
<1>7. /\ \A k \in DOMAIN At(list, places) :
           Nth(places, k) \in places /\ At(list, places)[k] = list[Nth(places, k)]
      /\ \A i \in places : \E k \in DOMAIN At(list, places) : Nth(places, k) = i
      /\ \A k, l \in DOMAIN At(list, places) : Nth(places, k) = Nth(places, l) => k = l
  BY <1>2, <1>4, <1>6
<1>8. Len(At(list, places)) = Cardinality(places)
  BY <1>4 DEF m
<1> QED
  BY <1>4, <1>5, <1>7, <1>8

\* The recursion of Amount has a solution.
LEMMA SumExists ==
    ASSUME NEW n \in Nat, NEW w \in [1..n -> Int]
    PROVE  \E f : f = [i \in 0..n |-> IF i = 0 THEN 0 ELSE f[i - 1] + w[i]]
<1> DEFINE Solved(k, f) == f = [i \in 0..k |-> IF i = 0 THEN 0 ELSE f[i - 1] + w[i]]
           Bad == {k \in 0..n : ~ \E f : Solved(k, f)}
<1>1. CASE Bad # {}
  <2>1. PICK k \in Bad : \A l \in Bad : k <= l
    <3>1. Bad \in SUBSET Nat
      OBVIOUS
    <3> HIDE DEF Bad
    <3> QED
      BY <1>1, <3>1, SmallestNat
  <2>2. k \in 0..n /\ ~ \E f : Solved(k, f)
    OBVIOUS
  <2>3. CASE k = 0
    <3> DEFINE f == [i \in 0..0 |-> 0]
    <3>1. f = [i \in 0..0 |-> IF i = 0 THEN 0 ELSE f[i - 1] + w[i]]
      OBVIOUS
    <3>2. Solved(0, f)
      BY <3>1
    <3> HIDE DEF Solved
    <3> QED
      BY <2>2, <2>3, <3>2
  <2>4. CASE k # 0
    <3>1. k - 1 \in 0..n /\ k - 1 \notin Bad /\ k \in 1..n
      <4>1. k - 1 \in 0..n /\ k \in 1..n
        BY <2>2, <2>4
      <4> HIDE DEF Bad
      <4> QED
        BY <2>1, <4>1
    <3>2. PICK f : Solved(k - 1, f)
      BY <3>1
    <3> DEFINE g == [i \in 0..k |-> IF i = k THEN f[k - 1] + w[k] ELSE f[i]]
    <3>3. /\ \A i \in 0..(k - 1) : f[i] = IF i = 0 THEN 0 ELSE f[i - 1] + w[i]
      BY <3>2
    <3>4. \A i \in 0..(k - 1) : g[i] = f[i]
      BY <3>1
    <3>5. g[k] = g[k - 1] + w[k]
      BY <3>1
    <3>6. \A i \in 0..k : g[i] = IF i = 0 THEN 0 ELSE g[i - 1] + w[i]
      <4> TAKE i \in 0..k
      <4>1. CASE i = k
        BY <3>1, <3>5, <4>1
      <4>2. CASE i # k
        <5>1. i \in 0..(k - 1) /\ (i # 0 => i - 1 \in 0..(k - 1))
          BY <3>1, <4>2
        <5> HIDE DEF g
        <5> QED
          BY <3>3, <3>4, <5>1
      <4> QED
        BY <4>1, <4>2
    <3>7. g = [i \in 0..k |-> g[i]]
      OBVIOUS
    <3> HIDE DEF g
    <3>8. g = [i \in 0..k |-> IF i = 0 THEN 0 ELSE g[i - 1] + w[i]]
      BY <3>6, <3>7
    <3>9. Solved(k, g)
      BY <3>8
    <3> HIDE DEF Solved
    <3> QED
      BY <2>2, <3>9
  <2> QED
    BY <2>3, <2>4
<1>2. CASE Bad = {}
  <2>1. n \in 0..n
    OBVIOUS
  <2>2. \E f : Solved(n, f)
    BY <1>2, <2>1
  <2> QED
    BY <2>2
<1> QED
  BY <1>1, <1>2

\* How the sum of the amounts at some places grows along the list.
SumsUp(u, list, places) ==
    /\ u \in [0..Len(list) -> Int]
    /\ u[0] = 0
    /\ \A i \in 1..Len(list) : u[i] = u[i - 1] + (IF i \in places THEN list[i].of.amount ELSE 0)

\* The sum of the amounts is what it is at the end.
LEMMA AmountSumsUp ==
    ASSUME NEW S, NEW list \in Seq(S), \A x \in S : x.of.amount \in Int, NEW places
    PROVE  \E u : SumsUp(u, list, places) /\ Amount(list, places) = u[Len(list)]
<1> DEFINE n == Len(list)
           w == [i \in 1..n |-> IF i \in places THEN list[i].of.amount ELSE 0]
           Solves(f) ==
             f = [i \in 0..n |->
                    IF i = 0 THEN 0 ELSE f[i - 1] + (IF i \in places THEN list[i].of.amount ELSE 0)]
<1>1. n \in Nat /\ \A i \in 1..n : list[i].of.amount \in Int
  BY ElementOfSeq
<1>2. w \in [1..n -> Int]
  BY <1>1
<1>3. PICK f : f = [i \in 0..n |-> IF i = 0 THEN 0 ELSE f[i - 1] + w[i]]
  <2> HIDE DEF w
  <2> QED
    BY <1>1, <1>2, SumExists
<1>4. Solves(f)
  <2>1. \A i \in 0..n : f[i] = IF i = 0 THEN 0
                               ELSE f[i - 1] + (IF i \in places THEN list[i].of.amount ELSE 0)
    <3>1. \A i \in 0..n : f[i] = IF i = 0 THEN 0 ELSE f[i - 1] + w[i]
      <4> HIDE DEF w, n
      <4> QED
        BY <1>3
    <3>2. \A i \in 0..n : i # 0 => i \in 1..n
      BY <1>1
    <3>3. \A i \in 1..n : w[i] = IF i \in places THEN list[i].of.amount ELSE 0
      OBVIOUS
    <3> HIDE DEF w, n
    <3> QED
      BY <3>1, <3>2, <3>3
  <2>2. f = [i \in 0..n |-> f[i]]
    BY <1>3
  <2> QED
    BY <2>1, <2>2
<1> DEFINE u == CHOOSE g : Solves(g)
<1>5. Solves(u)
  <2> HIDE DEF Solves
  <2> QED
    BY <1>4
<1>6. Amount(list, places) = u[n]
  BY DEF Amount
<1> HIDE DEF u
<1>7. /\ DOMAIN u = 0..n /\ u[0] = 0 /\ u = [i \in 0..n |-> u[i]]
      /\ \A i \in 1..n : u[i] = u[i - 1] + (IF i \in places THEN list[i].of.amount ELSE 0)
  BY <1>1, <1>5
<1> HIDE DEF Solves
<1> DEFINE Bad == {i \in 0..n : u[i] \notin Int}
<1>8. CASE Bad # {}
  <2>1. PICK k \in Bad : \A l \in Bad : k <= l
    <3>1. Bad \in SUBSET Nat
      BY <1>1
    <3> HIDE DEF Bad
    <3> QED
      BY <1>8, <3>1, SmallestNat
  <2>2. k \in 0..n /\ k # 0 /\ u[k] \notin Int
    BY <1>7
  <2>3. k - 1 \in 0..n /\ k - 1 \notin Bad /\ k \in 1..n
    BY <1>1, <2>1, <2>2
  <2>4. u[k - 1] \in Int
    BY <2>3
  <2>5. u[k] = u[k - 1] + (IF k \in places THEN list[k].of.amount ELSE 0)
    BY <1>7, <2>3
  <2>6. list[k].of.amount \in Int
    BY <1>1, <2>3
  <2>7. u[k] \in Int
    BY <2>4, <2>5, <2>6
  <2> QED
    BY <2>2, <2>7
<1>9. CASE Bad = {}
  <2>1. \A i \in 0..n : u[i] \in Int
    BY <1>9
  <2>2. u \in [0..n -> Int]
    BY <1>7, <2>1
  <2>3. SumsUp(u, list, places)
    BY <1>7, <2>2 DEF SumsUp
  <2> QED
    BY <1>6, <2>3
<1> QED
  BY <1>8, <1>9

\* Sums over the same places are the same, over none are zero, over two parts add up.
LEMMA AmountAdds ==
    ASSUME NEW S, NEW list \in Seq(S), \A x \in S : x.of.amount \in Int,
           NEW A, NEW B, A \cap B = {}
    PROVE  /\ Amount(list, A \cup B) = Amount(list, A) + Amount(list, B)
           /\ Amount(list, A) \in Int
<1>1. PICK a : SumsUp(a, list, A) /\ Amount(list, A) = a[Len(list)]
  BY AmountSumsUp
<1>2. PICK b : SumsUp(b, list, B) /\ Amount(list, B) = b[Len(list)]
  BY AmountSumsUp
<1>3. PICK c : SumsUp(c, list, A \cup B) /\ Amount(list, A \cup B) = c[Len(list)]
  BY AmountSumsUp
<1> DEFINE n == Len(list)
           Bad == {i \in 0..n : c[i] # a[i] + b[i]}
<1>4. n \in Nat /\ \A i \in 1..n : list[i].of.amount \in Int
  BY ElementOfSeq
<1>5. /\ a \in [0..n -> Int] /\ b \in [0..n -> Int] /\ c \in [0..n -> Int]
      /\ a[0] = 0 /\ b[0] = 0 /\ c[0] = 0
      /\ \A i \in 1..n : a[i] = a[i - 1] + (IF i \in A THEN list[i].of.amount ELSE 0)
      /\ \A i \in 1..n : b[i] = b[i - 1] + (IF i \in B THEN list[i].of.amount ELSE 0)
      /\ \A i \in 1..n : c[i] = c[i - 1] + (IF i \in A \cup B THEN list[i].of.amount ELSE 0)
  BY <1>1, <1>2, <1>3 DEF SumsUp
<1> HIDE DEF n
<1>6. CASE Bad # {}
  <2>1. PICK k \in Bad : \A l \in Bad : k <= l
    <3>1. Bad \in SUBSET Nat
      BY <1>4
    <3> HIDE DEF Bad
    <3> QED
      BY <1>6, <3>1, SmallestNat
  <2>2. k \in 0..n /\ k # 0 /\ c[k] # a[k] + b[k]
    BY <1>5
  <2>3. k - 1 \in 0..n /\ k - 1 \notin Bad /\ k \in 1..n
    BY <1>4, <2>1, <2>2
  <2>4. c[k - 1] = a[k - 1] + b[k - 1]
    BY <2>3
  <2>5. /\ a[k - 1] \in Int /\ b[k - 1] \in Int /\ list[k].of.amount \in Int
        /\ ~(k \in A /\ k \in B)
    BY <1>4, <1>5, <2>3
  <2> QED
    BY <1>5, <2>2, <2>3, <2>4, <2>5
<1>7. CASE Bad = {}
  <2>1. n \in 0..n
    BY <1>4
  <2> QED
    BY <1>1, <1>2, <1>3, <1>5, <1>7, <2>1 DEF n
<1> QED
  BY <1>6, <1>7

\* Some dates of a list have a last one.
LEMMA LastDate ==
    ASSUME NEW S, NEW list \in Seq(S), \A x \in S : x.of.date \in Nat,
           NEW places \in SUBSET DOMAIN list, places # {}
    PROVE  LET dates == {list[j].of.date : j \in places}
           IN  /\ Max(dates) \in Nat
               /\ \A j \in places : Max(dates) >= list[j].of.date
<1> DEFINE n == Len(list)
           dates == {list[j].of.date : j \in places}
           Bounded(m) == \E b \in Nat : \A l \in 1..m : list[l].of.date <= b
           Bad == {m \in 0..n : ~ Bounded(m)}
<1>1. n \in Nat /\ DOMAIN list = 1..n /\ \A i \in 1..n : list[i].of.date \in Nat
  BY ElementOfSeq
<1> HIDE DEF n
<1>2. CASE Bad # {}
  <2>1. PICK k \in Bad : \A l \in Bad : k <= l
    <3>1. Bad \in SUBSET Nat
      BY <1>1
    <3> HIDE DEF Bad
    <3> QED
      BY <1>2, <3>1, SmallestNat
  <2>2. k \in 0..n /\ ~ Bounded(k)
    OBVIOUS
  <2>3. k # 0
    <3>1. 0 \in Nat /\ \A l \in 1..0 : list[l].of.date <= 0
      OBVIOUS
    <3>2. Bounded(0)
      BY <3>1
    <3> HIDE DEF Bounded
    <3> QED
      BY <2>2, <3>2
  <2>4. k - 1 \in 0..n /\ k \in 1..n
    BY <1>1, <2>2, <2>3
  <2>5. Bounded(k - 1)
    <3>1. k - 1 \notin Bad
      <4> HIDE DEF Bad
      <4> QED
        BY <2>1, <2>4
    <3> HIDE DEF Bounded
    <3> QED
      BY <2>4, <3>1
  <2>6. PICK b \in Nat : \A l \in 1..(k - 1) : list[l].of.date <= b
    BY <2>5
  <2>7. b + list[k].of.date \in Nat /\ \A l \in 1..k : list[l].of.date <= b + list[k].of.date
    <3>1. list[k].of.date \in Nat /\ \A l \in 1..n : list[l].of.date \in Nat
      BY <1>1, <2>4
    <3>2. \A l \in 1..k : (l = k \/ l \in 1..(k - 1)) /\ l \in 1..n
      BY <1>1, <2>4
    <3>3. \A l \in 1..(k - 1) : list[l].of.date <= b
      BY <2>6
    <3>4. ASSUME NEW l \in 1..k
          PROVE  list[l].of.date <= b + list[k].of.date
      <4>1. list[l].of.date \in Nat /\ (list[l].of.date <= b \/ list[l].of.date = list[k].of.date)
        BY <3>1, <3>2, <3>3
      <4>2. \A x, y, z \in Nat : x <= y \/ x = z => x <= y + z
        OBVIOUS
      <4> HIDE DEF n
      <4> QED
        BY <3>1, <4>1, <4>2
    <3>5. b + list[k].of.date \in Nat
      <4>1. \A x, y \in Nat : x + y \in Nat
        OBVIOUS
      <4> HIDE DEF n, Bad, Bounded
      <4> QED
        BY <3>1, <4>1, Zenon
    <3> HIDE DEF n
    <3> QED
      BY <3>4, <3>5
  <2>8. Bounded(k)
    BY <2>7
  <2> HIDE DEF Bounded
  <2> QED
    BY <2>2, <2>8
<1>3. CASE Bad = {}
  <2>1. n \in 0..n
    BY <1>1
  <2>2. Bounded(n)
    <3> HIDE DEF Bounded
    <3> QED
      BY <1>3, <2>1
  <2>3. PICK b \in Nat : \A l \in 1..n : list[l].of.date <= b
    BY <2>2
  <2> DEFINE short == {b - d : d \in dates}
  <2>4. \A d \in dates : d \in Nat /\ b - d \in Nat
    BY <1>1, <2>3
  <2>5. short \in SUBSET Nat /\ short # {}
    BY <2>4
  <2> HIDE DEF short
  <2>6. PICK x \in short : \A y \in short : x <= y
    BY <2>5, SmallestNat
  <2>7. PICK d \in dates : x = b - d
    BY <2>6 DEF short
  <2> HIDE DEF dates
  <2>8. \A e \in dates : d >= e
    <3> TAKE e \in dates
    <3>1. b - d <= b - e
      BY <2>6, <2>7 DEF short
    <3> QED
      BY <2>4, <3>1
  <2>9. Max(dates) \in dates /\ \A e \in dates : Max(dates) >= e
    BY <2>8 DEF Max
  <2>10. \A j \in places : list[j].of.date \in dates
    BY DEF dates
  <2> QED
    BY <2>4, <2>9, <2>10 DEF dates
<1> QED
  BY <1>2, <1>3

\* What a list of spenders is.
SpenderEntry == [id : EntryID, of : Spender]

\* Spenders merged: every name once, with all its amounts and the last of its dates.
LEMMA MergeAddsUp ==
    ASSUME NEW list \in Seq(SpenderEntry)
    PROVE  LET m == MergeTopSpenders(list)
           IN  /\ \A k, l \in DOMAIN m : m[k].of.who = m[l].of.who => k = l
               /\ Amount(m, DOMAIN m) = Amount(list, DOMAIN list)
               /\ \A i \in DOMAIN list : \E k \in DOMAIN m :
                    m[k].of.who = list[i].of.who /\ m[k].of.date >= list[i].of.date
<1> DEFINE n == Len(list)
           same == [i \in 1..n |-> {j \in 1..n : list[j].of.who = list[i].of.who}]
           firsts == {i \in 1..n : \A j \in same[i] : i <= j}
           merge(i) == [list[i] EXCEPT !.of.amount = Amount(list, same[i]),
                                       !.of.date = Max({list[j].of.date : j \in same[i]})]
           full == [i \in 1..n |-> merge(i)]
           m == At(full, firsts)
           MergedEntry == {e \in {merge(i) : i \in 1..n} : TRUE}
<1>1. /\ n \in Nat /\ DOMAIN list = 1..n
      /\ \A i \in 1..n : list[i] \in SpenderEntry
      /\ \A x \in SpenderEntry : x.of.amount \in Int /\ x.of.date \in Nat
  <2>1. \A x \in SpenderEntry : x.of \in Spender
    BY DEF SpenderEntry
  <2>2. \A of \in Spender : of \in [who : {o.who : o \in Spender},
                                   spelled : Nat,
                                   amount : Int, date : Nat]
    BY DocumentsAssumption
  <2>3. \A of \in Spender : of.amount \in Int /\ of.date \in Nat
    BY <2>2
  <2> QED
    BY <2>1, <2>3, ElementOfSeq
<1>2. MergeTopSpenders(list) = m
  BY <1>1 DEF MergeTopSpenders, Merged
<1>3. /\ \A i \in 1..n : same[i] \subseteq 1..n /\ i \in same[i]
      /\ \A i, j \in 1..n : j \in same[i] <=> list[j].of.who = list[i].of.who
  OBVIOUS
<1> HIDE DEF same, n
<1>4. \A i \in 1..n : \E f \in firsts : f \in same[i]
  <2> TAKE i \in 1..n
  <2>1. same[i] \in SUBSET Nat /\ same[i] # {}
    BY <1>1, <1>3
  <2>2. PICK f \in same[i] : \A j \in same[i] : f <= j
    BY <2>1, SmallestNat
  <2>3. f \in 1..n /\ \A j \in same[f] : j \in same[i]
    BY <1>3
  <2> QED
    BY <2>2, <2>3
<1>5. \A A, B : A \cap B = {} =>
        /\ Amount(list, A \cup B) = Amount(list, A) + Amount(list, B)
        /\ Amount(list, A) \in Int
  BY <1>1, AmountAdds
<1>6. \A i \in 1..n :
        /\ merge(i).of.who = list[i].of.who
        /\ merge(i).of.amount = Amount(list, same[i])
        /\ merge(i).of.date \in Nat
        /\ \A j \in same[i] : merge(i).of.date >= list[j].of.date
  <2> TAKE i \in 1..n
  <2> DEFINE amount == Amount(list, same[i])
             date == Max({list[j].of.date : j \in same[i]})
  <2>1. date \in Nat /\ \A j \in same[i] : date >= list[j].of.date
    <3>1. same[i] \in SUBSET DOMAIN list /\ same[i] # {}
      BY <1>1, <1>3
    <3> QED
      BY <1>1, <3>1, LastDate
  <2> HIDE DEF amount, date
  <2>2. list[i] \in [id : EntryID, of : [who : {of.who : of \in Spender},
                                         spelled : Nat, amount : Int, date : Nat]]
    BY <1>1, DocumentsAssumption DEF SpenderEntry
  <2>3. LET e == [list[i] EXCEPT !.of.amount = amount, !.of.date = date]
        IN  e.of.who = list[i].of.who /\ e.of.amount = amount /\ e.of.date = date
    BY <2>2
  <2> QED
    BY <2>1, <2>3 DEF amount, date
<1> HIDE DEF merge
<1>7. /\ full \in Seq(MergedEntry) /\ DOMAIN full = 1..n /\ Len(full) = n
      /\ \A i \in 1..n : full[i] = merge(i)
  <2>1. \A i \in 1..n : merge(i) \in MergedEntry
    OBVIOUS
  <2> HIDE DEF MergedEntry
  <2>2. full \in [1..n -> MergedEntry] /\ \A i \in 1..n : full[i] = merge(i)
    BY <2>1
  <2> HIDE DEF full
  <2> QED
    BY <1>1, <2>2
<1>8. firsts \subseteq 1..n
  OBVIOUS
<1> DEFINE K == Cardinality(firsts)
           p(k) == Nth(firsts, k)
<1>9. /\ m \in Seq(MergedEntry) /\ Len(m) = K /\ K \in Nat /\ DOMAIN m = 1..K
      /\ \A k \in 1..K : p(k) \in firsts /\ m[k] = merge(p(k))
      /\ \A i \in firsts : \E k \in 1..K : p(k) = i
      /\ \A k, l \in 1..K : p(k) = p(l) => k = l
  <2>1. firsts \in SUBSET DOMAIN full
    BY <1>7, <1>8
  <2>2. K \in Nat
    BY <1>1, <1>8, NthProperties
  <2> HIDE DEF full, firsts, MergedEntry
  <2>3. /\ m \in Seq(MergedEntry) /\ Len(m) = K
        /\ \A k \in DOMAIN m : p(k) \in firsts /\ m[k] = full[p(k)]
        /\ \A i \in firsts : \E k \in DOMAIN m : p(k) = i
        /\ \A k, l \in DOMAIN m : p(k) = p(l) => k = l
    BY <1>7, <2>1, AtProperties
  <2>4. DOMAIN m = 1..K
    BY <2>3
  <2> QED
    BY <1>7, <1>8, <2>2, <2>3, <2>4
<1>10. \A i, j \in firsts : list[i].of.who = list[j].of.who => i = j
  BY <1>1, <1>3
<1> HIDE DEF firsts, full, m, K, p, MergedEntry
<1>11. \A k, l \in DOMAIN m : m[k].of.who = m[l].of.who => k = l
  <2> SUFFICES ASSUME NEW k \in 1..K, NEW l \in 1..K, m[k].of.who = m[l].of.who
               PROVE  k = l
    BY <1>9
  <2>1. p(k) \in firsts /\ p(l) \in firsts /\ m[k] = merge(p(k)) /\ m[l] = merge(p(l))
    BY <1>9
  <2>2. p(k) \in 1..n /\ p(l) \in 1..n
    BY <1>8, <2>1
  <2>3. m[k].of.who = list[p(k)].of.who
    BY <1>6, <2>1, <2>2
  <2>4. m[l].of.who = list[p(l)].of.who
    BY <1>6, <2>1, <2>2
  <2>5. p(k) = p(l)
    BY <1>10, <2>1, <2>3, <2>4
  <2> QED
    BY <1>9, <2>5
<1>12. \A i \in 1..n : \E k \in DOMAIN m :
         m[k].of.who = list[i].of.who /\ m[k].of.date >= list[i].of.date
  <2> TAKE i \in 1..n
  <2>1. PICK f \in firsts : f \in same[i]
    BY <1>4
  <2>2. PICK k \in 1..K : p(k) = f
    BY <1>9
  <2>3. i \in same[f] /\ f \in 1..n
    BY <1>3, <1>8, <2>1
  <2> QED
    BY <1>3, <1>6, <1>9, <2>1, <2>2, <2>3
<1>13. Amount(m, DOMAIN m) = Amount(list, DOMAIN list)
  <2>1. \A x \in MergedEntry : x.of.amount \in Int
    <3> SUFFICES ASSUME NEW x \in MergedEntry
                 PROVE  x.of.amount \in Int
      OBVIOUS
    <3>1. PICK i \in 1..n : x = merge(i)
      BY DEF MergedEntry
    <3>2. x.of.amount = Amount(list, same[i])
      BY <1>6, <3>1
    <3>3. same[i] \cap {} = {}
      OBVIOUS
    <3> QED
      BY <1>5, <3>2, <3>3
  <2>2. PICK u : SumsUp(u, m, DOMAIN m) /\ Amount(m, DOMAIN m) = u[Len(m)]
    BY <1>9, <2>1, AmountSumsUp
  <2>3. /\ u \in [0..K -> Int] /\ u[0] = 0
        /\ \A k \in 1..K : u[k] = u[k - 1] + m[k].of.amount
    BY <1>9, <2>2 DEF SumsUp
  <2> DEFINE Upto(k) == {j \in 1..n : \E l \in 1..k : j \in same[p(l)]}
             Bad == {k \in 0..K : u[k] # Amount(list, Upto(k))}
  <2>4. Amount(list, {}) = 0
    <3>1. Amount(list, {} \cup {}) = Amount(list, {}) + Amount(list, {}) /\ Amount(list, {}) \in Int
      BY <1>5
    <3>2. {} \cup {} = {}
      OBVIOUS
    <3> HIDE <1>5
    <3> QED
      BY <3>1, <3>2
  <2>5. CASE Bad # {}
    <3>1. PICK k \in Bad : \A l \in Bad : k <= l
      <4>1. Bad \in SUBSET Nat
        BY <1>9
      <4> HIDE DEF Bad
      <4> QED
        BY <2>5, <4>1, SmallestNat
    <3>2. k \in 0..K /\ u[k] # Amount(list, Upto(k))
      OBVIOUS
    <3>3. k # 0
      <4>1. Upto(0) = {}
        OBVIOUS
      <4> HIDE DEF Upto
      <4> QED
        BY <2>3, <2>4, <3>2, <4>1
    <3>4. k - 1 \in 0..K /\ k \in 1..K
      BY <1>9, <3>2, <3>3
    <3>5. u[k - 1] = Amount(list, Upto(k - 1))
      <4>1. k - 1 \notin Bad
        <5> HIDE DEF Bad
        <5> QED
          BY <3>1, <3>4
      <4> HIDE DEF Upto
      <4> QED
        BY <3>4, <4>1
    <3>6. p(k) \in 1..n /\ \A l \in 1..(k - 1) : p(l) \in 1..n /\ p(l) \in firsts /\ p(l) # p(k)
      <4>1. \A l \in 1..(k - 1) : l \in 1..K /\ l # k
        BY <1>9, <3>4
      <4> QED
        BY <1>8, <1>9, <3>4, <4>1
    <3>7. Upto(k - 1) \cap same[p(k)] = {}
      <4> SUFFICES ASSUME NEW j \in 1..n, NEW l \in 1..(k - 1), j \in same[p(l)], j \in same[p(k)]
                   PROVE  FALSE
        OBVIOUS
      <4>1. list[p(l)].of.who = list[p(k)].of.who
        BY <1>3, <3>6
      <4> QED
        BY <1>9, <1>10, <3>4, <3>6, <4>1
    <3>8. Upto(k) = Upto(k - 1) \cup same[p(k)]
      <4>1. \A l \in 1..k : l \in 1..(k - 1) \/ l = k
        BY <3>4
      <4>2. k \in 1..k /\ \A l \in 1..(k - 1) : l \in 1..k
        BY <3>4
      <4>3. same[p(k)] \subseteq 1..n
        BY <1>3, <3>6
      <4> QED
        BY <4>1, <4>2, <4>3
    <3>9. u[k] = u[k - 1] + Amount(list, same[p(k)])
      <4>1. m[k] = merge(p(k))
        BY <1>9, <3>4
      <4>2. merge(p(k)).of.amount = Amount(list, same[p(k)])
        BY <1>6, <3>6
      <4> QED
        BY <2>3, <3>4, <4>1, <4>2
    <3> HIDE DEF Upto
    <3>10. Amount(list, Upto(k)) = Amount(list, Upto(k - 1)) + Amount(list, same[p(k)])
      BY <1>5, <3>7, <3>8
    <3> QED
      BY <3>2, <3>5, <3>9, <3>10
  <2>6. CASE Bad = {}
    <3>1. K \in 0..K
      BY <1>9
    <3>2. u[K] = Amount(list, Upto(K))
      <4> HIDE DEF Upto
      <4> QED
        BY <2>6, <3>1
    <3>3. Upto(K) = 1..n
      <4>1. \A j \in 1..n : \E l \in 1..K : j \in same[p(l)]
        <5> TAKE j \in 1..n
        <5>1. PICK f \in firsts : f \in same[j]
          BY <1>4
        <5>2. PICK l \in 1..K : p(l) = f
          BY <1>9
        <5> QED
          BY <1>3, <1>8, <5>1, <5>2
      <4> QED
        BY <4>1
    <3> HIDE DEF Upto
    <3> QED
      BY <1>1, <1>9, <2>2, <3>2, <3>3
  <2> QED
    BY <2>5, <2>6
<1> QED
  BY <1>1, <1>2, <1>11, <1>12, <1>13


-----------------------------------------------------------------------------
(* The chat.                                                               *)

\* A message that may be in the list when the messages wanted deleted are ids.
Licit(m, ids) == m \in Message /\ (m.deleted => m.id \in ids)

\* What a handler remembers: the message to delete, and the message to write.
Remembers(j, ids) ==
    /\ DOMAIN j = {"at", "op", "id", "index", "item"}
    /\ j.index \in Nat
    /\ j.op = "delete" => j.id \in ids
    /\ j.at = "set" => Licit(j.item, ids)

ChatInv ==
    /\ chat \in Seq(Message)
    /\ \A i \in DOMAIN chat : Licit(chat[i], condemned)
    /\ DOMAIN chatJob = Writers
    /\ \A w \in Writers : Remembers(chatJob[w], condemned)
    /\ sent \in Nat

-----------------------------------------------------------------------------

\* A push keeps at most what was in the list and the new message.
LEMMA LPushProperties ==
    ASSUME NEW s \in Seq(Message), NEW x \in Message, NEW n \in Nat
    PROVE  /\ LPush(s, x, n) \in Seq(Message)
           /\ \A i \in DOMAIN LPush(s, x, n) :
                LPush(s, x, n)[i] = x \/ \E k \in DOMAIN s : LPush(s, x, n)[i] = s[k]
<1> DEFINE t == <<x>> \o s
           m == IF Len(t) < n THEN Len(t) ELSE n
<1>1. /\ t \in Seq(Message) /\ Len(t) = Len(s) + 1 /\ Len(s) \in Nat
      /\ t[1] = x /\ \A i \in 2..Len(t) : t[i] = s[i - 1]
  BY ConcatProperties, ElementOfSeq
<1> HIDE DEF t
<1>2. m \in 0..Len(t)
  BY <1>1
<1> HIDE DEF m
<1>3. /\ SubSeq(t, 1, m) \in Seq(Message) /\ Len(SubSeq(t, 1, m)) = m
      /\ \A i \in 1..m : SubSeq(t, 1, m)[i] = t[i]
  BY <1>1, <1>2, SubSeqProperties
<1>4. LPush(s, x, n) = SubSeq(t, 1, m)
  BY DEF LPush, Newest, t, m
<1>5. \A i \in 1..m : t[i] = x \/ \E k \in DOMAIN s : t[i] = s[k]
  <2> SUFFICES ASSUME NEW i \in 1..m PROVE t[i] = x \/ \E k \in DOMAIN s : t[i] = s[k]
    OBVIOUS
  <2>1. CASE i = 1
    BY <1>1, <2>1
  <2>2. CASE i # 1
    <3>1. i - 1 \in DOMAIN s /\ t[i] = s[i - 1]
      BY <1>1, <1>2, <2>2
    <3> QED
      BY <3>1
  <2> QED
    BY <2>1, <2>2
<1>6. DOMAIN SubSeq(t, 1, m) = 1..m
  BY <1>2, <1>3
<1> QED
  BY <1>3, <1>4, <1>5, <1>6

\* A write at an index of the list, or of none.
LEMMA LSetProperties ==
    ASSUME NEW S, NEW s \in Seq(S), NEW x \in S, NEW k
    PROVE  /\ [s EXCEPT ![k] = x] \in Seq(S)
           /\ \A i \in DOMAIN [s EXCEPT ![k] = x] :
                i \in DOMAIN s /\ ([s EXCEPT ![k] = x][i] = x \/ [s EXCEPT ![k] = x][i] = s[i])
<1>1. s \in [1..Len(s) -> S] /\ Len(s) \in Nat
  OBVIOUS
<1>2. [s EXCEPT ![k] = x] \in [1..Len(s) -> S]
  BY <1>1
<1>3. [s EXCEPT ![k] = x] \in Seq(S)
  BY <1>1, <1>2, SeqDef
<1> QED
  BY <1>1, <1>2, <1>3

\* Nothing is forgotten that was wanted deleted.
LEMMA StaysLicit ==
    ASSUME condemned \subseteq condemned'
    PROVE  /\ \A m : Licit(m, condemned) => Licit(m, condemned')
           /\ \A j : Remembers(j, condemned) => Remembers(j, condemned')
  BY DEF Licit, Remembers

\* One writer's handler goes to another point, and the list stays.
LEMMA JobMoves ==
    ASSUME ChatInv, NEW w \in Writers, NEW j, Remembers(j, condemned'),
           chatJob' = [chatJob EXCEPT ![w] = j], condemned \subseteq condemned',
           chat' = chat, sent' = sent
    PROVE  ChatInv'
  BY StaysLicit DEF ChatInv

\* At rest a handler remembers nothing.
LEMMA IdleRemembers == \A ids : Remembers(ChatIdle, ids)
  BY DEF Remembers, ChatIdle

\* A new message is not deleted.
LEMMA SendKeeps ==
    ASSUME ChatInv, NEW w \in Writers, SendMessage(w), chatSetting \in ChatSettings
    PROVE  ChatInv'
<1>1. /\ sent' = sent + 1 /\ sent < chatSetting.messages
      /\ UNCHANGED <<chatSetting, pins, chatJob, condemned>>
      /\ chat \in Seq(Message) /\ sent \in Nat /\ \A i \in DOMAIN chat : Licit(chat[i], condemned)
  BY DEF SendMessage, ChatInv
<1>2. sent' \in MessageID
  BY <1>1, ChatAssumption DEF MessageID
<1> DEFINE m == [id |-> sent', author |-> w, deleted |-> FALSE, reactions |-> {}]
<1>3. m \in Message /\ Licit(m, condemned) /\ (chat' = LPush(chat, m, ChatSize) \/ chat' = chat)
  BY <1>2 DEF Message, Licit, SendMessage
<1> HIDE DEF m
<1>4. chat' \in Seq(Message) /\ \A i \in DOMAIN chat' : Licit(chat'[i], condemned)
  <2>1. CASE chat' = chat
    BY <1>1, <2>1
  <2>2. CASE chat' = LPush(chat, m, ChatSize)
    <3>1. chat \in Seq(Message) /\ m \in Message /\ ChatSize \in Nat
      BY <1>1, <1>3, ChatAssumption
    <3>2. /\ chat' \in Seq(Message)
          /\ \A i \in DOMAIN chat' : chat'[i] = m \/ \E k \in DOMAIN chat : chat'[i] = chat[k]
      BY <2>2, <3>1, LPushProperties
    <3> QED
      BY <1>1, <1>3, <3>2
  <2> QED
    BY <1>3, <2>1, <2>2
<1> QED
  BY <1>1, <1>4, StaysLicit DEF ChatInv

\* Who deletes a message is its author, and it is condemned at once.
LEMMA DeleteKeeps ==
    ASSUME ChatInv, NEW w \in Writers, DeleteMessage(w)
    PROVE  ChatInv'
<1>1. PICK i \in DOMAIN chat :
        /\ chatJob' = [chatJob EXCEPT ![w] =
                         [ChatIdle EXCEPT !.at = "find", !.op = "delete", !.id = chat[i].id]]
        /\ condemned' = condemned \cup {chat[i].id}
  BY DEF DeleteMessage, ChatGoto
<1>2. UNCHANGED <<chat, sent>>
  BY DEF DeleteMessage
<1> DEFINE j == [ChatIdle EXCEPT !.at = "find", !.op = "delete", !.id = chat[i].id]
<1>3. Remembers(j, condemned')
  <2>1. DOMAIN j = DOMAIN ChatIdle /\ j.at = "find" /\ j.id = chat[i].id /\ j.index = 0
    BY DEF ChatIdle
  <2> HIDE DEF j
  <2> QED
    BY <1>1, <2>1 DEF Remembers, ChatIdle
<1> HIDE DEF j
<1> QED
  BY <1>1, <1>2, <1>3, JobMoves DEF j

\* A reaction is for a message, and asks for nothing to be deleted.
LEMMA ReactKeeps ==
    ASSUME ChatInv, NEW w \in Writers, ReactMessage(w)
    PROVE  ChatInv'
<1>1. PICK id \in 1..sent :
        chatJob' = [chatJob EXCEPT ![w] = [ChatIdle EXCEPT !.at = "find", !.op = "react", !.id = id]]
  BY DEF ReactMessage, ChatGoto
<1>2. UNCHANGED <<chat, sent, condemned>>
  BY DEF ReactMessage
<1> DEFINE j == [ChatIdle EXCEPT !.at = "find", !.op = "react", !.id = id]
<1>3. Remembers(j, condemned')
  <2>1. DOMAIN j = DOMAIN ChatIdle /\ j.at = "find" /\ j.op = "react" /\ j.index = 0
    BY DEF ChatIdle
  <2> HIDE DEF j
  <2> QED
    BY <2>1 DEF Remembers, ChatIdle
<1> HIDE DEF j
<1> QED
  BY <1>1, <1>2, <1>3, JobMoves DEF j

\* The message that is found is marked, not the one that is at its index later.
LEMMA FindKeeps ==
    ASSUME ChatInv, NEW w \in Writers, FindMessage(w)
    PROVE  ChatInv'
<1> DEFINE o == chatJob[w]
<1>1. UNCHANGED <<chat, sent, condemned>> /\ Remembers(o, condemned)
  BY DEF FindMessage, ChatInv
<1>2. CASE ChatGoto(w, ChatIdle)
  BY <1>1, <1>2, IdleRemembers, JobMoves DEF ChatGoto
<1>3. ASSUME NEW i \in DOMAIN chat, chat[i].id = o.id,
             ChatGoto(w, [o EXCEPT !.at = "set", !.index = i,
                                   !.item = Updated(chat[i], o.op, w)])
      PROVE  ChatInv'
  <2> DEFINE u == Updated(chat[i], o.op, w)
             j == [o EXCEPT !.at = "set", !.index = i, !.item = u]
  <2>1. Licit(chat[i], condemned) /\ i \in Nat
    BY DEF ChatInv
  <2>2. u \in Message /\ u.id = o.id /\ (u.deleted => o.op = "delete" \/ chat[i].deleted)
    BY <1>3, <2>1 DEF Licit, Updated, Message
  <2>3. Licit(u, condemned)
    BY <1>1, <1>3, <2>1, <2>2 DEF Licit, Remembers
  <2> HIDE DEF u
  <2>4. DOMAIN j = DOMAIN o /\ j.op = o.op /\ j.id = o.id /\ j.index = i /\ j.item = u
    BY <1>1 DEF Remembers
  <2>5. chatJob' = [chatJob EXCEPT ![w] = j]
    BY <1>3 DEF ChatGoto, u
  <2> HIDE DEF j
  <2>6. Remembers(j, condemned)
    BY <1>1, <2>1, <2>3, <2>4 DEF Remembers
  <2>7. Remembers(j, condemned')
    BY <1>1, <2>6, StaysLicit
  <2> QED
    BY <1>1, <2>5, <2>7, JobMoves
<1> QED
  BY <1>2, <1>3 DEF FindMessage

\* Whatever is at the index now, what is written there may be in the list.
LEMMA SetKeeps ==
    ASSUME ChatInv, NEW w \in Writers, SetMessage(w)
    PROVE  ChatInv'
<1> DEFINE m == chatJob[w].item
           k == chatJob[w].index
<1>1. /\ chat' = [chat EXCEPT ![k] = m] /\ chatJob' = [chatJob EXCEPT ![w] = ChatIdle]
      /\ UNCHANGED <<sent, condemned>>
      /\ Licit(m, condemned)
  BY DEF SetMessage, ChatGoto, ChatInv, Remembers
<1>2. chat \in Seq(Message) /\ m \in Message /\ \A i \in DOMAIN chat : Licit(chat[i], condemned)
  BY <1>1 DEF ChatInv, Licit
<1> HIDE DEF m, k
<1>3. chat' \in Seq(Message) /\ \A i \in DOMAIN chat' : Licit(chat'[i], condemned)
  BY <1>1, <1>2, LSetProperties
<1> QED
  BY <1>1, <1>3, StaysLicit, IdleRemembers DEF ChatInv

\* The handlers of pins leave the list alone.
LEMMA PinsKeep ==
    ASSUME ChatInv, NEW w \in Writers,
           \/ PinMessage(w) \/ ReadPins(w) \/ FindPin(w) \/ RemovePin(w) \/ PushPin(w)
           \/ ChatCallFails(w)
    PROVE  ChatInv'
<1> DEFINE o == chatJob[w]
<1>1. UNCHANGED <<chat, sent, condemned>> /\ Remembers(o, condemned)
  BY DEF ChatInv, PinMessage, ReadPins, FindPin, RemovePin, PushPin, ChatCallFails
<1>2. CASE ChatGoto(w, ChatIdle)
  BY <1>1, <1>2, IdleRemembers, JobMoves DEF ChatGoto
<1>3. CASE PinMessage(w)
  <2>1. PICK i \in DOMAIN chat : ChatGoto(w, [ChatIdle EXCEPT !.at = "readPins", !.item = chat[i]])
    BY <1>3 DEF PinMessage
  <2> DEFINE j == [ChatIdle EXCEPT !.at = "readPins", !.item = chat[i]]
  <2>2. DOMAIN j = DOMAIN ChatIdle /\ j.at = "readPins" /\ j.op = "none" /\ j.index = 0
    BY DEF ChatIdle
  <2> HIDE DEF j
  <2>3. Remembers(j, condemned')
    BY <2>2 DEF Remembers, ChatIdle
  <2> QED
    BY <1>1, <2>1, <2>3, JobMoves DEF ChatGoto, j
<1>4. ASSUME NEW j, chatJob' = [chatJob EXCEPT ![w] = j],
             DOMAIN j = DOMAIN o /\ j.op = o.op /\ j.id = o.id /\ j.index = o.index,
             j.at # "set"
      PROVE  ChatInv'
  BY <1>1, <1>4, JobMoves DEF Remembers
<1>5. CASE ReadPins(w)
  <2> DEFINE at == IF Pinned(o.item.id) # {} THEN "findPin" ELSE "pushPin"
             j == [o EXCEPT !.at = at]
  <2>1. chatJob' = [chatJob EXCEPT ![w] = j]
    BY <1>5 DEF ReadPins, ChatGoto
  <2>2. at # "set"
    OBVIOUS
  <2> HIDE DEF at
  <2>3. DOMAIN j = DOMAIN o /\ j.op = o.op /\ j.id = o.id /\ j.index = o.index /\ j.at = at
    BY <1>1 DEF Remembers
  <2> HIDE DEF j
  <2> QED
    BY <1>4, <2>1, <2>2, <2>3
<1>6. CASE FindPin(w)
  <2>1. \/ ChatGoto(w, ChatIdle)
        \/ \E i \in DOMAIN pins : ChatGoto(w, [o EXCEPT !.at = "removePin", !.item = pins[i]])
    BY <1>6 DEF FindPin, Pinned
  <2>2. ASSUME NEW i \in DOMAIN pins, ChatGoto(w, [o EXCEPT !.at = "removePin", !.item = pins[i]])
        PROVE  ChatInv'
    <3> DEFINE j == [o EXCEPT !.at = "removePin", !.item = pins[i]]
    <3>1. /\ DOMAIN j = DOMAIN o /\ j.op = o.op /\ j.id = o.id /\ j.index = o.index
          /\ j.at = "removePin"
      BY <1>1 DEF Remembers
    <3>2. chatJob' = [chatJob EXCEPT ![w] = j]
      BY <2>2 DEF ChatGoto
    <3> HIDE DEF j
    <3> QED
      BY <1>4, <3>1, <3>2
  <2> QED
    BY <1>2, <2>1, <2>2
<1> QED
  BY <1>2, <1>3, <1>5, <1>6 DEF RemovePin, PushPin, ChatCallFails

\* At first there are no messages.
LEMMA ChatStarts == ChatInit => ChatInv /\ chatSetting \in ChatSettings
<1> SUFFICES ASSUME ChatInit PROVE ChatInv /\ chatSetting \in ChatSettings
  OBVIOUS
<1>1. /\ chat = <<>> /\ chatJob = [w \in Writers |-> ChatIdle] /\ sent = 0
      /\ chatSetting \in ChatSettings
  BY DEF ChatInit
<1> QED
  BY <1>1, IdleRemembers DEF ChatInv

\* Every step of the chat leaves only messages that may be in the list.
LEMMA ChatStep ==
    ChatInv /\ chatSetting \in ChatSettings /\ [ChatNext]_chatVars
      => (ChatInv /\ chatSetting \in ChatSettings)'
<1> SUFFICES ASSUME ChatInv, chatSetting \in ChatSettings, [ChatNext]_chatVars
             PROVE  ChatInv' /\ chatSetting' = chatSetting
  OBVIOUS
<1>1. CASE UNCHANGED chatVars
  BY <1>1 DEF chatVars, ChatInv, Remembers, Licit
<1>2. CASE ChatNext
  <2>1. ChatInv'
    BY <1>2, SendKeeps, DeleteKeeps, ReactKeeps, FindKeeps, SetKeeps, PinsKeep DEF ChatNext
  <2>2. chatSetting' = chatSetting
    BY <1>2 DEF ChatNext, SendMessage, DeleteMessage, ReactMessage, FindMessage, SetMessage,
                PinMessage, ReadPins, FindPin, RemovePin, PushPin, ChatCallFails
  <2> QED
    BY <2>1, <2>2
<1> QED
  BY <1>1, <1>2

\* Only messages whose authors asked for it are marked as deleted, for any number of writers
\* and messages: an update may be written over another message, never into one.
THEOREM OnlyAuthorsDeleteAlways == ChatSpec => []OnlyAuthorsDelete
<1>1. ChatInv => OnlyAuthorsDelete
  BY DEF ChatInv, Licit, OnlyAuthorsDelete
<1> QED
  BY <1>1, ChatStarts, ChatStep, PTL DEF ChatSpec

\* What a handler of the chat has in hand.
Carries(j) == j \in ChatJob /\ (j.at \notin {"idle", "find"} => j.item \in Message)

ChatTyped == ChatTypeOK /\ \A w \in Writers : Carries(chatJob[w])

\* What a push makes of a list of messages is no longer than it may be.
LEMMA LPushBounds ==
    ASSUME NEW S, NEW s \in Seq(S), NEW x \in S, NEW n \in Nat
    PROVE  LPush(s, x, n) \in Seq(S) /\ Len(LPush(s, x, n)) <= n
<1> DEFINE t == <<x>> \o s
           m == IF Len(t) < n THEN Len(t) ELSE n
<1>1. t \in Seq(S) /\ Len(t) \in Nat
  OBVIOUS
<1> HIDE DEF t
<1>2. m \in 0..Len(t) /\ m <= n
  BY <1>1
<1> HIDE DEF m
<1>3. SubSeq(t, 1, m) \in Seq(S) /\ Len(SubSeq(t, 1, m)) = m
  BY <1>1, <1>2, SubSeqProperties
<1> QED
  BY <1>2, <1>3 DEF LPush, Newest, t, m

\* One handler moves on.
LEMMA HandlerMoves ==
    ASSUME ChatTyped, NEW w \in Writers, NEW j, ChatGoto(w, j), Carries(j)
    PROVE  chatJob' \in [Writers -> ChatJob] /\ \A v \in Writers : Carries(chatJob'[v])
<1>1. chatJob \in [Writers -> ChatJob] /\ chatJob' = [chatJob EXCEPT ![w] = j] /\ j \in ChatJob
  BY DEF ChatTyped, ChatTypeOK, ChatGoto, Carries
<1>2. chatJob' \in [Writers -> ChatJob]
  BY <1>1
<1>3. chatJob'[w] = j /\ \A v \in Writers : v # w => chatJob'[v] = chatJob[v]
  BY <1>1
<1> QED
  BY <1>2, <1>3 DEF ChatTyped

\* A handler at rest carries nothing.
LEMMA IdleCarries == Carries(ChatIdle)
  BY ChatAssumption DEF Carries, ChatJob, ChatIdle, ChatPoints

\* What a request comes to carry.
LEMMA RequestCarries ==
    /\ \A op \in {"delete", "react"}, id \in MessageID :
         Carries([ChatIdle EXCEPT !.at = "find", !.op = op, !.id = id])
    /\ \A m \in Message : Carries([ChatIdle EXCEPT !.at = "readPins", !.item = m])
<1>1. ChatIdle \in ChatJob
  BY IdleCarries DEF Carries
<1>2. ASSUME NEW op \in {"delete", "react"}, NEW id \in MessageID
      PROVE  Carries([ChatIdle EXCEPT !.at = "find", !.op = op, !.id = id])
  <2> DEFINE j == [ChatIdle EXCEPT !.at = "find", !.op = op, !.id = id]
  <2>1. j \in ChatJob
    BY <1>1 DEF ChatJob, ChatPoints
  <2>2. j.at = "find"
    BY <1>1 DEF ChatJob
  <2> QED
    BY <2>1, <2>2 DEF Carries
<1>3. ASSUME NEW m \in Message
      PROVE  Carries([ChatIdle EXCEPT !.at = "readPins", !.item = m])
  <2> DEFINE j == [ChatIdle EXCEPT !.at = "readPins", !.item = m]
  <2>1. j \in ChatJob
    BY <1>1 DEF ChatJob, ChatPoints
  <2>2. j.item = m
    BY <1>1 DEF ChatJob
  <2> QED
    BY <2>1, <2>2 DEF Carries
<1> QED
  BY <1>2, <1>3

\* The requests of the chat.
LEMMA RequestsTyped ==
    ASSUME ChatTyped, NEW w \in Writers,
           SendMessage(w) \/ DeleteMessage(w) \/ ReactMessage(w) \/ PinMessage(w)
    PROVE  ChatTyped'
<1>1. /\ chat \in Seq(Message) /\ Len(chat) <= ChatSize /\ Len(chat) \in Nat
      /\ \A i \in DOMAIN chat : chat[i] \in Message /\ chat[i].id \in MessageID
  <2>1. chat \in Seq(Message) /\ Len(chat) <= ChatSize
    BY DEF ChatTyped, ChatTypeOK
  <2>2. \A i \in DOMAIN chat : chat[i] \in Message
    BY <2>1, ElementOfSeq
  <2>3. \A m \in Message : m.id \in MessageID
    BY DEF Message
  <2> QED
    BY <2>1, <2>2, <2>3
<1>2. CASE SendMessage(w)
  <2> DEFINE m == [id |-> sent', author |-> w, deleted |-> FALSE, reactions |-> {}]
  <2>1. /\ sent' = sent + 1 /\ sent < chatSetting.messages /\ chatSetting \in ChatSettings
        /\ sent \in 0..MaxMessages
        /\ UNCHANGED <<chatSetting, pins, chatJob, condemned>>
    BY <1>2 DEF SendMessage, ChatTyped, ChatTypeOK
  <2>2. sent' \in MessageID
    BY <2>1, ChatAssumption DEF MessageID
  <2>3. m \in Message /\ (chat' = LPush(chat, m, ChatSize) \/ chat' = chat)
    BY <1>2, <2>2 DEF Message, SendMessage
  <2> HIDE DEF m
  <2>4. chat' \in Seq(Message) /\ Len(chat') <= ChatSize
    BY <1>1, <2>3, LPushBounds, ChatAssumption
  <2>5. sent' \in 0..MaxMessages
    BY <2>2, ChatAssumption DEF MessageID
  <2> QED
    BY <2>1, <2>4, <2>5 DEF ChatTyped, ChatTypeOK
<1>3. CASE DeleteMessage(w)
  <2>1. PICK i \in DOMAIN chat :
          /\ ChatGoto(w, [ChatIdle EXCEPT !.at = "find", !.op = "delete", !.id = chat[i].id])
          /\ condemned' = condemned \cup {chat[i].id}
    BY <1>3 DEF DeleteMessage
  <2> DEFINE j == [ChatIdle EXCEPT !.at = "find", !.op = "delete", !.id = chat[i].id]
  <2>2. Carries(j)
    BY <1>1, RequestCarries
  <2> HIDE DEF j
  <2>3. chatJob' \in [Writers -> ChatJob] /\ \A v \in Writers : Carries(chatJob'[v])
    BY <2>1, <2>2, HandlerMoves DEF j
  <2> QED
    BY <1>1, <1>3, <2>1, <2>3 DEF ChatTyped, ChatTypeOK, DeleteMessage
<1>4. CASE ReactMessage(w)
  <2>1. PICK id \in 1..sent :
          ChatGoto(w, [ChatIdle EXCEPT !.at = "find", !.op = "react", !.id = id])
    BY <1>4 DEF ReactMessage
  <2>2. id \in MessageID
    BY ChatAssumption DEF MessageID, ChatTyped, ChatTypeOK
  <2> DEFINE j == [ChatIdle EXCEPT !.at = "find", !.op = "react", !.id = id]
  <2>3. Carries(j)
    BY <2>2, RequestCarries
  <2> HIDE DEF j
  <2>4. chatJob' \in [Writers -> ChatJob] /\ \A v \in Writers : Carries(chatJob'[v])
    BY <2>1, <2>3, HandlerMoves DEF j
  <2> QED
    BY <1>4, <2>4 DEF ChatTyped, ChatTypeOK, ReactMessage
<1>5. CASE PinMessage(w)
  <2>1. PICK i \in DOMAIN chat :
          ChatGoto(w, [ChatIdle EXCEPT !.at = "readPins", !.item = chat[i]])
    BY <1>5 DEF PinMessage
  <2> DEFINE j == [ChatIdle EXCEPT !.at = "readPins", !.item = chat[i]]
  <2>2. Carries(j)
    BY <1>1, RequestCarries
  <2> HIDE DEF j
  <2>3. chatJob' \in [Writers -> ChatJob] /\ \A v \in Writers : Carries(chatJob'[v])
    BY <2>1, <2>2, HandlerMoves DEF j
  <2> QED
    BY <1>5, <2>3 DEF ChatTyped, ChatTypeOK, PinMessage
<1> QED
  BY <1>2, <1>3, <1>4, <1>5

\* The calls of the chat.
LEMMA CallsTyped ==
    ASSUME ChatTyped, NEW w \in Writers,
           \/ FindMessage(w) \/ SetMessage(w) \/ ReadPins(w) \/ FindPin(w) \/ RemovePin(w)
           \/ PushPin(w) \/ ChatCallFails(w)
    PROVE  ChatTyped'
<1> DEFINE o == chatJob[w]
<1>1. /\ chat \in Seq(Message) /\ Len(chat) <= ChatSize /\ Len(chat) \in Nat
      /\ \A i \in DOMAIN chat : chat[i] \in Message
      /\ pins \in Seq(Message) /\ Len(pins) <= PinSize /\ Len(pins) \in Nat
      /\ \A i \in DOMAIN pins : pins[i] \in Message
      /\ ChatSize \in Nat /\ PinSize \in Nat
      /\ Carries(o)
  BY ElementOfSeq, ChatAssumption DEF ChatTyped, ChatTypeOK
<1>2. ASSUME NEW j, ChatGoto(w, j), Carries(j), UNCHANGED <<chatSetting, sent, condemned>>,
             chat' \in Seq(Message), Len(chat') <= ChatSize,
             pins' \in Seq(Message), Len(pins') <= PinSize
      PROVE  ChatTyped'
  <2>1. chatJob' \in [Writers -> ChatJob] /\ \A v \in Writers : Carries(chatJob'[v])
    BY <1>2, HandlerMoves
  <2> QED
    BY <1>2, <2>1 DEF ChatTyped, ChatTypeOK
<1> HIDE DEF o
<1>3. CASE FindMessage(w)
  <2>1. \/ ChatGoto(w, ChatIdle)
        \/ \E i \in DOMAIN chat :
             ChatGoto(w, [o EXCEPT !.at = "set", !.index = i, !.item = Updated(chat[i], o.op, w)])
    BY <1>3 DEF FindMessage, o
  <2>2. UNCHANGED <<chatSetting, chat, pins, sent, condemned>>
    BY <1>3 DEF FindMessage
  <2>3. CASE ChatGoto(w, ChatIdle)
    BY <1>1, <1>2, <2>2, <2>3, IdleCarries
  <2>4. ASSUME NEW i \in DOMAIN chat,
               ChatGoto(w, [o EXCEPT !.at = "set", !.index = i, !.item = Updated(chat[i], o.op, w)])
        PROVE  ChatTyped'
    <3> DEFINE u == Updated(chat[i], o.op, w)
               j == [o EXCEPT !.at = "set", !.index = i, !.item = u]
    <3>1. u \in Message
      <4>1. chat[i] \in Message
        BY <1>1
      <4> QED
        BY <4>1 DEF Updated, Message
    <3>2. i \in 0..ChatSize
      BY <1>1
    <3> HIDE DEF u
    <3>3. Carries(j)
      BY <1>1, <3>1, <3>2 DEF Carries, ChatJob, ChatPoints
    <3>4. ChatGoto(w, j)
      BY <2>4 DEF u
    <3> HIDE DEF j
    <3> QED
      BY <1>1, <1>2, <2>2, <3>3, <3>4
  <2> QED
    BY <2>1, <2>3, <2>4
<1>4. CASE SetMessage(w)
  <2>1. /\ chat' = [chat EXCEPT ![o.index] = o.item] /\ ChatGoto(w, ChatIdle) /\ o.at = "set"
        /\ UNCHANGED <<chatSetting, pins, sent, condemned>>
    BY <1>4 DEF SetMessage, o
  <2>2. o.item \in Message
    BY <1>1, <2>1 DEF Carries
  <2>3. chat' \in Seq(Message) /\ Len(chat') = Len(chat)
    <3>1. chat \in [1..Len(chat) -> Message]
      BY <1>1
    <3>2. chat' \in [1..Len(chat) -> Message]
      BY <2>1, <2>2, <3>1
    <3> QED
      BY <1>1, <3>2, SeqDef
  <2> QED
    BY <1>1, <1>2, <2>1, <2>3, IdleCarries
<1>5. CASE ReadPins(w)
  <2> DEFINE at == IF Pinned(o.item.id) # {} THEN "findPin" ELSE "pushPin"
             j == [o EXCEPT !.at = at]
  <2>1. /\ ChatGoto(w, j) /\ o.at = "readPins"
        /\ UNCHANGED <<chatSetting, chat, pins, sent, condemned>>
    BY <1>5 DEF ReadPins, o
  <2>2. at \in {"findPin", "pushPin"}
    OBVIOUS
  <2> HIDE DEF at
  <2>3. Carries(j)
    BY <1>1, <2>1, <2>2 DEF Carries, ChatJob, ChatPoints
  <2> HIDE DEF j
  <2> QED
    BY <1>1, <1>2, <2>1, <2>3
<1>6. CASE FindPin(w)
  <2>1. \/ ChatGoto(w, ChatIdle)
        \/ \E i \in DOMAIN pins : ChatGoto(w, [o EXCEPT !.at = "removePin", !.item = pins[i]])
    BY <1>6 DEF FindPin, Pinned, o
  <2>2. UNCHANGED <<chatSetting, chat, pins, sent, condemned>>
    BY <1>6 DEF FindPin
  <2>3. CASE ChatGoto(w, ChatIdle)
    BY <1>1, <1>2, <2>2, <2>3, IdleCarries
  <2>4. ASSUME NEW i \in DOMAIN pins, ChatGoto(w, [o EXCEPT !.at = "removePin", !.item = pins[i]])
        PROVE  ChatTyped'
    <3> DEFINE j == [o EXCEPT !.at = "removePin", !.item = pins[i]]
    <3>1. Carries(j)
      BY <1>1 DEF Carries, ChatJob, ChatPoints
    <3> HIDE DEF j
    <3> QED
      BY <1>1, <1>2, <2>2, <2>4, <3>1 DEF j
  <2> QED
    BY <2>1, <2>3, <2>4
<1>7. CASE RemovePin(w)
  <2> DEFINE places == {i \in DOMAIN pins : pins[i] # o.item}
  <2>1. /\ pins' = At(pins, places) /\ ChatGoto(w, ChatIdle)
        /\ UNCHANGED <<chatSetting, chat, sent, condemned>>
    BY <1>7 DEF RemovePin, o
  <2>2. places \in SUBSET DOMAIN pins
    OBVIOUS
  <2> HIDE DEF places
  <2>3. pins' \in Seq(Message) /\ Len(pins') <= Len(pins) /\ Len(pins') \in Nat
    BY <1>1, <2>1, <2>2, AtProperties
  <2>4. Len(pins') <= PinSize
    BY <1>1, <2>3
  <2> QED
    BY <1>1, <1>2, <2>1, <2>3, <2>4, IdleCarries
<1>8. CASE PushPin(w)
  <2>1. /\ pins' = LPush(pins, o.item, PinSize) /\ ChatGoto(w, ChatIdle) /\ o.at = "pushPin"
        /\ UNCHANGED <<chatSetting, chat, sent, condemned>>
    BY <1>8 DEF PushPin, o
  <2>2. o.item \in Message
    BY <1>1, <2>1 DEF Carries
  <2>3. pins' \in Seq(Message) /\ Len(pins') <= PinSize
    BY <1>1, <2>1, <2>2, LPushBounds
  <2> QED
    BY <1>1, <1>2, <2>1, <2>3, IdleCarries
<1>9. CASE ChatCallFails(w)
  BY <1>1, <1>2, <1>9, IdleCarries DEF ChatCallFails
<1> QED
  BY <1>3, <1>4, <1>5, <1>6, <1>7, <1>8, <1>9

\* The lists of the chat are never longer than they may be, whatever is pushed and removed
\* when, and a handler has a message in hand where it is to write one.
THEOREM ChatTypeCorrect == ChatSpec => []ChatTyped
<1>1. ChatInit => ChatTyped
  <2> SUFFICES ASSUME ChatInit PROVE ChatTyped
    OBVIOUS
  <2>1. \A w \in Writers : Carries(chatJob[w])
    BY IdleCarries DEF ChatInit
  <2>2. <<>> \in Seq(Message) /\ Len(<<>>) = 0
    OBVIOUS
  <2>3. chatJob \in [Writers -> ChatJob]
    BY IdleCarries DEF ChatInit, Carries
  <2> QED
    BY <2>1, <2>2, <2>3, ChatAssumption DEF ChatInit, ChatTyped, ChatTypeOK
<1>2. ChatTyped /\ [ChatNext]_chatVars => ChatTyped'
  <2>1. ChatTyped /\ UNCHANGED chatVars => ChatTyped'
    BY DEF chatVars, ChatTyped, ChatTypeOK, Carries
  <2>2. ChatTyped /\ ChatNext => ChatTyped'
    BY RequestsTyped, CallsTyped DEF ChatNext
  <2> QED
    BY <2>1, <2>2
<1> QED
  BY <1>1, <1>2, PTL DEF ChatSpec

-----------------------------------------------------------------------------
(* The chat as a board.                                                    *)

\* The handlers between two calls.
Busy == {v \in Writers : chatJob[v] # ChatIdle}

\* What a handler has in hand is what the lists hold.
InHand(j, w) ==
    /\ j.at \in {"find", "set"} => j.op \in {"delete", "react"}
    /\ j.at = "set" => j.index \in DOMAIN chat /\ j.item = Updated(chat[j.index], j.op, w)
    /\ j.at \in {"readPins", "findPin", "pushPin"} =>
         \E i \in DOMAIN chat : j.item = chat[i] /\ ~chat[i].deleted
    /\ j.at = "pushPin" => Pinned(j.item.id) = {}
    /\ j.at = "removePin" => \E i \in DOMAIN pins : j.item = pins[i]

\* The messages are older than those to come, and no message is pinned twice.
InOrder ==
    /\ \A i \in DOMAIN chat : chat[i].id <= sent
    /\ \A i, k \in DOMAIN pins : pins[i].id = pins[k].id => i = k

ChatCalm ==
    /\ IsFiniteSet(Busy)
    /\ chatSetting.inFlight = 1 =>
         /\ \A v, w \in Writers : chatJob[v] # ChatIdle /\ chatJob[w] # ChatIdle => v = w
         /\ \A w \in Writers : InHand(chatJob[w], w)
         /\ InOrder

\* At rest a handler has nothing in hand.
LEMMA IdleHolds == \A w : InHand(ChatIdle, w)
  BY DEF InHand, ChatIdle

\* With one handler at a time, whoever begins finds nobody busy.
LEMMA NobodyBusy ==
    ASSUME ChatCalm, chatSetting.inFlight = 1, NEW w \in Writers, NEW kind, ChatRequest(w, kind)
    PROVE  \A v \in Writers : chatJob[v] = ChatIdle
<1>1. Cardinality(Busy) < 1 /\ IsFiniteSet(Busy)
  BY DEF ChatRequest, Busy, ChatCalm
<1>2. Cardinality(Busy) \in Nat
  BY <1>1, FS_CardinalityType
<1>3. Cardinality(Busy) = 0
  BY <1>1, <1>2
<1>4. Busy = {}
  BY <1>1, <1>3, FS_EmptySet
<1> QED
  BY <1>4 DEF Busy

\* Where a handler goes, the others stay where they are.
LEMMA GoesThere ==
    ASSUME ChatTyped, NEW w \in Writers, NEW j, ChatGoto(w, j)
    PROVE  chatJob'[w] = j /\ \A v \in Writers : v # w => chatJob'[v] = chatJob[v]
  BY DEF ChatGoto, ChatTyped, ChatTypeOK

\* One handler moves on, and the others are at rest.
LEMMA CalmMoves ==
    ASSUME ChatTyped, ChatCalm, NEW w \in Writers,
           \A v \in Writers : v # w => chatJob'[v] = chatJob[v],
           chatSetting' = chatSetting,
           chatSetting.inFlight = 1 =>
             /\ chatJob[w] # ChatIdle \/ \A v \in Writers : chatJob[v] = ChatIdle
             /\ InHand(chatJob[w], w)' /\ InOrder'
    PROVE  ChatCalm'
<1>1. IsFiniteSet(Busy')
  <2>1. IsFiniteSet(Busy \cup {w})
    BY FS_AddElement DEF ChatCalm
  <2>2. Busy' \subseteq Busy \cup {w}
    BY DEF Busy
  <2> QED
    BY <2>1, <2>2, FS_Subset
<1>2. ASSUME chatSetting.inFlight = 1
      PROVE  /\ \A u, v \in Writers : chatJob'[u] # ChatIdle /\ chatJob'[v] # ChatIdle => u = v
             /\ \A v \in Writers : InHand(chatJob[v], v)'
             /\ InOrder'
  <2>1. \A v \in Writers : v # w => chatJob'[v] = ChatIdle
    BY <1>2 DEF ChatCalm
  <2>2. \A v \in Writers : InHand(chatJob[v], v)'
    <3> SUFFICES ASSUME NEW v \in Writers PROVE InHand(chatJob[v], v)'
      OBVIOUS
    <3>1. CASE v = w
      BY <1>2, <3>1
    <3>2. CASE v # w
      BY <2>1, <3>2 DEF InHand, ChatIdle
    <3> QED
      BY <3>1, <3>2
  <2> QED
    BY <1>2, <2>1, <2>2
<1> QED
  BY <1>1, <1>2 DEF ChatCalm

\* What has been pushed: the new one in front, and the others one place on.
IsPushed(p, s, x, n) ==
    /\ DOMAIN p = 1..Len(p) /\ Len(p) \in Nat \ {0}
    /\ Len(p) <= n /\ Len(p) <= Len(s) + 1 /\ Len(p) \in {n, Len(s) + 1}
    /\ p[1] = x
    /\ \A i \in DOMAIN p : i # 1 => i - 1 \in DOMAIN s /\ p[i] = s[i - 1]

\* Where a message goes that is pushed.
LEMMA PushPlaces ==
    ASSUME NEW S, NEW s \in Seq(S), NEW x \in S, NEW n \in Nat \ {0}
    PROVE  LPush(s, x, n) \in Seq(S) /\ IsPushed(LPush(s, x, n), s, x, n)
<1> DEFINE t == <<x>> \o s
           m == IF Len(t) < n THEN Len(t) ELSE n
           p == SubSeq(t, 1, m)
<1>1. /\ t \in Seq(S) /\ Len(t) = Len(s) + 1 /\ Len(s) \in Nat /\ DOMAIN s = 1..Len(s)
      /\ t[1] = x /\ \A i \in 2..Len(t) : t[i] = s[i - 1]
  BY ConcatProperties, ElementOfSeq
<1> HIDE DEF t
<1>2. m \in 1..Len(t) /\ m <= n /\ m <= Len(s) + 1 /\ m \in {n, Len(s) + 1} /\ m \in Nat \ {0}
  BY <1>1
<1> HIDE DEF m
<1>3. /\ p \in Seq(S) /\ Len(p) = m /\ \A i \in 1..m : p[i] = t[i]
  BY <1>1, <1>2, SubSeqProperties
<1>4. LPush(s, x, n) = p
  BY DEF LPush, Newest, t, m
<1> HIDE DEF p
<1>5. DOMAIN p = 1..m
  BY <1>2, <1>3
<1>6. \A i \in 1..m : i # 1 => i \in 2..Len(t) /\ i - 1 \in 1..Len(s)
  BY <1>1, <1>2
<1>7. \A i \in DOMAIN p : i # 1 => i - 1 \in DOMAIN s /\ p[i] = s[i - 1]
  BY <1>1, <1>3, <1>5, <1>6
<1>8. p[1] = x
  BY <1>1, <1>2, <1>3
<1>9. IsPushed(p, s, x, n)
  BY <1>2, <1>3, <1>5, <1>7, <1>8 DEF IsPushed
<1> QED
  BY <1>3, <1>4, <1>9

\* The ids of a list of messages.
IdsOf(list) == [i \in DOMAIN list |-> list[i].id]

\* What is pushed to the messages is pushed to their ids.
LEMMA PushIds ==
    ASSUME NEW s \in Seq(Message), NEW x \in Message, NEW n \in Nat \ {0}
    PROVE  IdsOf(LPush(s, x, n)) = LPush(IdsOf(s), x.id, n)
<1> DEFINE a == LPush(s, x, n)
           b == LPush(IdsOf(s), x.id, n)
<1>1. /\ s \in [1..Len(s) -> Message] /\ Len(s) \in Nat /\ DOMAIN s = 1..Len(s)
      /\ \A y \in Message : y.id \in MessageID
  <2>1. s \in [1..Len(s) -> Message] /\ Len(s) \in Nat /\ DOMAIN s = 1..Len(s)
    OBVIOUS
  <2>2. \A y \in Message : y.id \in MessageID
    BY DEF Message
  <2> QED
    BY <2>1, <2>2
<1>2. /\ IdsOf(s) \in Seq(MessageID) /\ Len(IdsOf(s)) = Len(s) /\ DOMAIN IdsOf(s) = DOMAIN s
      /\ \A i \in DOMAIN s : IdsOf(s)[i] = s[i].id
  BY <1>1 DEF IdsOf
<1>3. a \in Seq(Message) /\ IsPushed(a, s, x, n)
  BY PushPlaces
<1> DEFINE ids == IdsOf(s)
           y == x.id
<1>4. ids \in Seq(MessageID) /\ y \in MessageID
  BY <1>1, <1>2
<1> HIDE DEF ids, y
<1>5. LPush(ids, y, n) \in Seq(MessageID) /\ IsPushed(LPush(ids, y, n), ids, y, n)
  BY <1>4, PushPlaces
<1>6. b \in Seq(MessageID) /\ IsPushed(b, ids, y, n)
  BY <1>5 DEF ids, y
<1> HIDE DEF a, b
<1>7. Len(a) = Len(b) /\ DOMAIN a = DOMAIN b
  <2>1. /\ Len(a) \in Nat /\ Len(a) <= n /\ Len(a) <= Len(s) + 1 /\ Len(a) \in {n, Len(s) + 1}
        /\ DOMAIN a = 1..Len(a)
    BY <1>3 DEF IsPushed
  <2>2. Len(ids) = Len(s)
    BY <1>2 DEF ids
  <2>3. /\ Len(b) \in Nat /\ Len(b) <= n /\ Len(b) <= Len(s) + 1 /\ Len(b) \in {n, Len(s) + 1}
        /\ DOMAIN b = 1..Len(b)
    BY <1>6, <2>2 DEF IsPushed
  <2>4. Len(s) \in Nat
    OBVIOUS
  <2>5. \A l, m, k \in Nat :
          m <= n /\ m <= l + 1 /\ m \in {n, l + 1} /\ k <= n /\ k <= l + 1 /\ k \in {n, l + 1}
            => m = k
    OBVIOUS
  <2>6. Len(a) = Len(b)
    BY <2>1, <2>3, <2>4, <2>5
  <2> QED
    BY <2>1, <2>3, <2>6
<1>8. \A i \in DOMAIN a : a[i].id = b[i]
  BY <1>2, <1>3, <1>7, <1>6 DEF ids, y, IsPushed
<1>9. b = [i \in DOMAIN b |-> b[i]]
  BY <1>6
<1> QED
  BY <1>7, <1>8, <1>9 DEF IdsOf, a, b

\* What is taken out of the messages by its id is taken out of their ids.
LEMMA AtIds ==
    ASSUME NEW s \in Seq(Message), NEW places \in SUBSET DOMAIN s
    PROVE  IdsOf(At(s, places)) = At(IdsOf(s), places)
<1>1. \A k \in 1..Cardinality(places) : Nth(places, k) \in DOMAIN s
  <2>1. Len(s) \in Nat /\ DOMAIN s = 1..Len(s)
    OBVIOUS
  <2> QED
    BY <2>1, NthProperties
<1> QED
  BY <1>1 DEF IdsOf, At

\* A send under way alone is a new message on the board.
LEMMA SendIsPost ==
    ASSUME ChatTyped, ChatCalm, NEW w \in Writers, SendMessage(w)
    PROVE  ChatCalm' /\ (chatSetting.inFlight = 1 => Board!Post \/ UNCHANGED <<chat, pins>>)
<1> DEFINE m == [id |-> sent', author |-> w, deleted |-> FALSE, reactions |-> {}]
<1>1. /\ sent' = sent + 1 /\ UNCHANGED <<chatSetting, pins, chatJob, condemned>>
      /\ chat' = LPush(chat, m, ChatSize) \/ chat' = chat
      /\ chat \in Seq(Message) /\ Len(chat) \in Nat /\ sent \in Nat /\ ChatSize \in Nat \ {0}
      /\ sent' \in MessageID
  <2>1. sent < chatSetting.messages /\ chatSetting \in ChatSettings /\ sent' = sent + 1 /\ sent \in Nat
    BY DEF SendMessage, ChatTyped, ChatTypeOK
  <2>2. sent' \in MessageID
    BY <2>1, ChatAssumption DEF MessageID
  <2> QED
    BY <2>2, ChatAssumption DEF SendMessage, ChatTyped, ChatTypeOK
<1>2. m \in Message
  BY <1>1 DEF Message
<1>3. m.id = sent' /\ ~m.deleted /\ m.reactions = {}
  OBVIOUS
<1> HIDE DEF m
<1>4. IsFiniteSet(Busy')
  BY <1>1 DEF ChatCalm, Busy
<1>5. ASSUME chatSetting.inFlight = 1
      PROVE  /\ \A v \in Writers : chatJob[v] = ChatIdle
             /\ InOrder'
             /\ Board!Post \/ UNCHANGED <<chat, pins>>
  <2>1. \A v \in Writers : chatJob[v] = ChatIdle
    BY <1>5, NobodyBusy DEF SendMessage
  <2>2. \A i \in DOMAIN chat : chat[i].id <= sent /\ chat[i].id \in Nat
    <3>1. \A i \in DOMAIN chat : chat[i] \in Message
      BY <1>1, ElementOfSeq
    <3>2. \A y \in Message : y.id \in Nat
      BY ChatAssumption DEF Message, MessageID
    <3> QED
      BY <1>5, <3>1, <3>2 DEF ChatCalm, InOrder
  <2>3. CASE chat' = chat
    <3>1. InOrder'
      BY <1>1, <1>5, <2>2, <2>3 DEF ChatCalm, InOrder
    <3> QED
      BY <1>1, <2>1, <2>3, <3>1
  <2>4. CASE chat' = LPush(chat, m, ChatSize)
    <3>1. /\ 1 \in DOMAIN chat' /\ chat'[1] = m
          /\ \A i \in DOMAIN chat' : i # 1 => i - 1 \in DOMAIN chat /\ chat'[i] = chat[i - 1]
      BY <1>1, <1>2, <2>4, PushPlaces DEF IsPushed
    <3>2. \A i \in DOMAIN chat' : chat'[i].id <= sent'
      <4> SUFFICES ASSUME NEW i \in DOMAIN chat' PROVE chat'[i].id <= sent'
        OBVIOUS
      <4>1. CASE i = 1
        BY <1>1, <1>3, <3>1, <4>1
      <4>2. CASE i # 1
        BY <1>1, <2>2, <3>1, <4>2
      <4> QED
        BY <4>1, <4>2
    <3>3. InOrder'
      BY <1>1, <1>5, <3>2 DEF ChatCalm, InOrder
    <3>4. \A id \in Board!Ids(chat) : m.id > id
      BY <1>1, <1>3, <2>2 DEF Board!Ids
    <3>5. chat' = Board!Newest(<<m>> \o chat, ChatSize)
      BY <2>4 DEF LPush, Newest, Board!Newest
    <3>6. m \in {chat'[i] : i \in DOMAIN chat' \cap {1}}
      BY <3>1
    <3>7. Board!Post
      BY <1>1, <1>3, <3>4, <3>5, <3>6 DEF Board!Post
    <3> QED
      BY <2>1, <3>3, <3>7
  <2> QED
    BY <1>1, <2>3, <2>4
<1>6. ChatCalm'
  <2>1. chatSetting.inFlight = 1 => \A v \in Writers : InHand(chatJob[v], v)'
    BY <1>1, <1>5 DEF InHand, ChatIdle
  <2> QED
    BY <1>1, <1>4, <1>5, <2>1 DEF ChatCalm
<1> QED
  BY <1>5, <1>6

\* What a handler goes on with that gives up or is done.
LEMMA CalmEnds ==
    ASSUME ChatTyped, ChatCalm, NEW w \in Writers, ChatGoto(w, ChatIdle), chatJob[w] # ChatIdle,
           chatSetting' = chatSetting, chatSetting.inFlight = 1 => InOrder'
    PROVE  ChatCalm'
<1>1. chatJob'[w] = ChatIdle /\ \A v \in Writers : v # w => chatJob'[v] = chatJob[v]
  BY GoesThere
<1>2. InHand(chatJob[w], w)'
  BY <1>1 DEF InHand, ChatIdle
<1> QED
  BY <1>1, <1>2, CalmMoves

\* A request leaves the lists alone.
LEMMA RequestIsStutter ==
    ASSUME ChatTyped, ChatCalm, NEW w \in Writers,
           DeleteMessage(w) \/ ReactMessage(w) \/ PinMessage(w)
    PROVE  ChatCalm' /\ UNCHANGED <<chat, pins>>
<1>1. UNCHANGED <<chatSetting, chat, pins, sent>>
  BY DEF DeleteMessage, ReactMessage, PinMessage
<1>2. chatSetting.inFlight = 1 => InOrder'
  BY <1>1 DEF ChatCalm, InOrder
<1>3. chatSetting.inFlight = 1 => \A v \in Writers : chatJob[v] = ChatIdle
  BY NobodyBusy DEF DeleteMessage, ReactMessage, PinMessage
<1>4. (\A v \in Writers : v # w => chatJob'[v] = chatJob[v]) /\ InHand(chatJob[w], w)'
  <2>1. CASE DeleteMessage(w)
    <3>1. PICK i \in DOMAIN chat :
            ChatGoto(w, [ChatIdle EXCEPT !.at = "find", !.op = "delete", !.id = chat[i].id])
      BY <2>1 DEF DeleteMessage
    <3> DEFINE j == [ChatIdle EXCEPT !.at = "find", !.op = "delete", !.id = chat[i].id]
    <3>2. j.at = "find" /\ j.op = "delete"
      BY DEF ChatIdle
    <3> HIDE DEF j
    <3>3. chatJob'[w] = j /\ \A v \in Writers : v # w => chatJob'[v] = chatJob[v]
      BY <3>1, GoesThere DEF j
    <3> QED
      BY <3>2, <3>3 DEF InHand
  <2>2. CASE ReactMessage(w)
    <3>1. PICK id \in 1..sent :
            ChatGoto(w, [ChatIdle EXCEPT !.at = "find", !.op = "react", !.id = id])
      BY <2>2 DEF ReactMessage
    <3> DEFINE j == [ChatIdle EXCEPT !.at = "find", !.op = "react", !.id = id]
    <3>2. j.at = "find" /\ j.op = "react"
      BY DEF ChatIdle
    <3> HIDE DEF j
    <3>3. chatJob'[w] = j /\ \A v \in Writers : v # w => chatJob'[v] = chatJob[v]
      BY <3>1, GoesThere DEF j
    <3> QED
      BY <3>2, <3>3 DEF InHand
  <2>3. CASE PinMessage(w)
    <3>1. PICK i \in DOMAIN chat :
            /\ ~chat[i].deleted
            /\ ChatGoto(w, [ChatIdle EXCEPT !.at = "readPins", !.item = chat[i]])
      BY <2>3 DEF PinMessage
    <3> DEFINE j == [ChatIdle EXCEPT !.at = "readPins", !.item = chat[i]]
    <3>2. j.at = "readPins" /\ j.item = chat[i]
      BY DEF ChatIdle
    <3> HIDE DEF j
    <3>3. chatJob'[w] = j /\ \A v \in Writers : v # w => chatJob'[v] = chatJob[v]
      BY <3>1, GoesThere DEF j
    <3> QED
      BY <1>1, <3>1, <3>2, <3>3 DEF InHand
  <2> QED
    BY <2>1, <2>2, <2>3
<1> QED
  BY <1>1, <1>2, <1>3, <1>4, CalmMoves

\* Reading leaves the lists alone, and what is found is there.
LEMMA ReadingIsStutter ==
    ASSUME ChatTyped, ChatCalm, NEW w \in Writers,
           FindMessage(w) \/ ReadPins(w) \/ FindPin(w) \/ ChatCallFails(w)
    PROVE  ChatCalm' /\ UNCHANGED <<chat, pins>>
<1> DEFINE o == chatJob[w]
<1>1. UNCHANGED <<chatSetting, chat, pins, sent>> /\ o # ChatIdle /\ o \in ChatJob
  <2>1. UNCHANGED <<chatSetting, chat, pins, sent>>
    BY DEF FindMessage, ReadPins, FindPin, ChatCallFails
  <2>2. o.at \in {"find", "readPins", "findPin"} \/ o # ChatIdle
    BY DEF FindMessage, ReadPins, FindPin, ChatCallFails
  <2>3. ChatIdle.at = "idle"
    BY DEF ChatIdle
  <2> QED
    BY <2>1, <2>2, <2>3 DEF ChatTyped, Carries
<1>2. chatSetting.inFlight = 1 => InOrder' /\ InHand(o, w)
  BY <1>1 DEF ChatCalm, InOrder
<1> HIDE DEF o
<1>3. ASSUME ChatGoto(w, ChatIdle) PROVE ChatCalm'
  BY <1>1, <1>2, <1>3, CalmEnds DEF o
<1>4. ASSUME \A v \in Writers : v # w => chatJob'[v] = chatJob[v],
             chatSetting.inFlight = 1 => InHand(chatJob[w], w)'
      PROVE  ChatCalm'
  BY <1>1, <1>2, <1>4, CalmMoves DEF o
<1>5. CASE FindMessage(w)
  <2>1. \/ ChatGoto(w, ChatIdle)
        \/ \E i \in DOMAIN chat :
             ChatGoto(w, [o EXCEPT !.at = "set", !.index = i, !.item = Updated(chat[i], o.op, w)])
    BY <1>5 DEF FindMessage, o
  <2>2. o.at = "find"
    BY <1>5 DEF FindMessage, o
  <2>3. ASSUME NEW i \in DOMAIN chat,
               ChatGoto(w, [o EXCEPT !.at = "set", !.index = i, !.item = Updated(chat[i], o.op, w)])
        PROVE  ChatCalm'
    <3> DEFINE u == Updated(chat[i], o.op, w)
               j == [o EXCEPT !.at = "set", !.index = i, !.item = u]
    <3> HIDE DEF u
    <3>1. j.at = "set" /\ j.op = o.op /\ j.index = i /\ j.item = u
      BY <1>1 DEF ChatJob
    <3> HIDE DEF j
    <3>2. chatJob'[w] = j /\ \A v \in Writers : v # w => chatJob'[v] = chatJob[v]
      BY <2>3, GoesThere DEF j, u
    <3>3. chatSetting.inFlight = 1 => o.op \in {"delete", "react"}
      BY <1>2, <2>2 DEF InHand
    <3>4. u = Updated(chat'[i], j.op, w)
      BY <1>1, <3>1 DEF u, Updated
    <3>5. chatSetting.inFlight = 1 => InHand(chatJob[w], w)'
      BY <1>1, <3>1, <3>2, <3>3, <3>4 DEF InHand, Updated
    <3> QED
      BY <1>4, <3>2, <3>5
  <2> QED
    BY <1>1, <1>3, <2>1, <2>3
<1>6. CASE ReadPins(w)
  <2> DEFINE at == IF Pinned(o.item.id) # {} THEN "findPin" ELSE "pushPin"
             j == [o EXCEPT !.at = at]
  <2>1. ChatGoto(w, j) /\ o.at = "readPins"
    BY <1>6 DEF ReadPins, o
  <2>2. at \in {"findPin", "pushPin"} /\ (at = "pushPin" => Pinned(o.item.id) = {})
    OBVIOUS
  <2> HIDE DEF at
  <2>3. j.at = at /\ j.item = o.item
    BY <1>1 DEF ChatJob
  <2> HIDE DEF j
  <2>4. chatJob'[w] = j /\ \A v \in Writers : v # w => chatJob'[v] = chatJob[v]
    BY <2>1, GoesThere
  <2>5. chatSetting.inFlight = 1 => \E i \in DOMAIN chat : o.item = chat[i] /\ ~chat[i].deleted
    BY <1>2, <2>1 DEF InHand
  <2>6. chatSetting.inFlight = 1 => InHand(chatJob[w], w)'
    BY <1>1, <2>2, <2>3, <2>4, <2>5 DEF InHand, Pinned
  <2> QED
    BY <1>1, <1>4, <2>4, <2>6
<1>7. CASE FindPin(w)
  <2>1. \/ ChatGoto(w, ChatIdle)
        \/ \E i \in DOMAIN pins : ChatGoto(w, [o EXCEPT !.at = "removePin", !.item = pins[i]])
    BY <1>7 DEF FindPin, Pinned, o
  <2>2. ASSUME NEW i \in DOMAIN pins, ChatGoto(w, [o EXCEPT !.at = "removePin", !.item = pins[i]])
        PROVE  ChatCalm'
    <3> DEFINE j == [o EXCEPT !.at = "removePin", !.item = pins[i]]
    <3>1. j.at = "removePin" /\ j.item = pins[i]
      BY <1>1 DEF ChatJob
    <3> HIDE DEF j
    <3>2. chatJob'[w] = j /\ \A v \in Writers : v # w => chatJob'[v] = chatJob[v]
      BY <2>2, GoesThere DEF j
    <3>3. InHand(chatJob[w], w)'
      BY <1>1, <3>1, <3>2 DEF InHand
    <3> QED
      BY <1>4, <3>2, <3>3
  <2> QED
    BY <1>1, <1>3, <2>1, <2>2
<1>8. CASE ChatCallFails(w)
  BY <1>1, <1>3, <1>8 DEF ChatCallFails
<1> QED
  BY <1>1, <1>5, <1>6, <1>7, <1>8

\* A message written back to its place, with nothing in between, is deleted or gets a
\* reaction, and the other messages stay.
LEMMA SetIsDeleteOrReact ==
    ASSUME ChatTyped, ChatCalm, NEW w \in Writers, SetMessage(w)
    PROVE  ChatCalm' /\ (chatSetting.inFlight = 1 => Board!Delete \/ Board!React)
<1> DEFINE o == chatJob[w]
<1>1. /\ UNCHANGED <<chatSetting, pins, sent>> /\ o.at = "set"
      /\ chat' = [chat EXCEPT ![o.index] = o.item] /\ ChatGoto(w, ChatIdle)
      /\ chat \in Seq(Message)
  BY DEF SetMessage, ChatTyped, ChatTypeOK
<1>2. o # ChatIdle
  BY <1>1 DEF ChatIdle
<1>3. ASSUME chatSetting.inFlight = 1
      PROVE  InOrder' /\ (Board!Delete \/ Board!React)
  <2> DEFINE i == o.index
             op == o.op
             m == chat[i]
  <2>1. /\ i \in DOMAIN chat /\ o.item = Updated(m, op, w) /\ op \in {"delete", "react"}
        /\ InOrder
    BY <1>1, <1>3 DEF ChatCalm, InHand
  <2>2. chat' = [chat EXCEPT ![i] = Updated(m, op, w)] /\ m = chat[i]
    BY <1>1, <2>1
  <2>3. m \in Message
    BY <1>1, <2>1, ElementOfSeq
  <2> HIDE DEF o, i, op, m
  <2>4. Updated(m, op, w).id = m.id
    BY <2>3 DEF Updated, Message
  <2>5. DOMAIN chat' = DOMAIN chat /\ \A k \in DOMAIN chat : chat'[k].id = chat[k].id
    <3>1. DOMAIN chat' = DOMAIN chat
      BY <2>2
    <3>2. ASSUME NEW k \in DOMAIN chat PROVE chat'[k].id = chat[k].id
      <4>1. CASE k = i
        BY <2>1, <2>2, <2>4, <4>1
      <4>2. CASE k # i
        BY <2>1, <2>2, <4>2
      <4> QED
        BY <4>1, <4>2
    <3> QED
      BY <3>1, <3>2
  <2>6. InOrder'
    BY <1>1, <2>1, <2>5 DEF InOrder
  <2>7. CASE op = "delete"
    <3>1. Updated(m, op, w) = [chat[i] EXCEPT !.deleted = TRUE]
      BY <2>2, <2>7 DEF Updated
    <3>2. chat' = [chat EXCEPT ![i].deleted = TRUE]
      BY <2>2, <3>1
    <3> QED
      BY <1>1, <2>1, <2>6, <3>2 DEF Board!Delete
  <2>8. CASE op # "delete"
    <3> DEFINE R == IF w \in m.reactions THEN m.reactions \ {w} ELSE m.reactions \cup {w}
    <3>1. Updated(m, op, w) = [m EXCEPT !.reactions = R]
      BY <2>8 DEF Updated
    <3>2. R = Board!Toggled(w, chat[i].reactions)
      BY <2>2 DEF Board!Toggled
    <3> HIDE DEF R
    <3>3. chat' = [chat EXCEPT ![i].reactions = Board!Toggled(w, @)]
      BY <2>2, <3>1, <3>2
    <3> QED
      BY <1>1, <2>1, <2>6, <3>3 DEF Board!React
  <2> QED
    BY <2>7, <2>8
<1> QED
  BY <1>1, <1>2, <1>3, CalmEnds

\* The board takes the places of a list as the chat does.
LEMMA SameAt ==
    ASSUME NEW list, NEW places
    PROVE  At(list, places) = Board!At(list, places)
<1>1. Board!Cardinality(places) = Cardinality(places)
  BY Zenon DEF Cardinality, Board!Cardinality
<1>2. \A k : Board!Nth(places, k) = Nth(places, k)
  BY Zenon DEF Nth, Board!Nth, Cardinality, Board!Cardinality
<1> QED
  BY <1>1, <1>2 DEF At, Board!At

\* The pin that was found is removed, and no other.
LEMMA RemoveIsUnpin ==
    ASSUME ChatTyped, ChatCalm, NEW w \in Writers, RemovePin(w)
    PROVE  ChatCalm' /\ (chatSetting.inFlight = 1 => Board!Unpin)
<1> DEFINE o == chatJob[w]
           places == {i \in DOMAIN pins : pins[i] # o.item}
<1>1. /\ UNCHANGED <<chatSetting, chat, sent>> /\ o.at = "removePin"
      /\ pins' = At(pins, places) /\ ChatGoto(w, ChatIdle)
      /\ pins \in Seq(Message) /\ places \in SUBSET DOMAIN pins
  BY DEF RemovePin, ChatTyped, ChatTypeOK
<1>2. o # ChatIdle
  BY <1>1 DEF ChatIdle
<1>3. ASSUME chatSetting.inFlight = 1
      PROVE  InOrder' /\ Board!Unpin
  <2>1. /\ InOrder /\ \A i, k \in DOMAIN pins : pins[i].id = pins[k].id => i = k
    BY <1>3 DEF ChatCalm, InOrder
  <2>2. PICK j \in DOMAIN pins : o.item = pins[j]
    BY <1>1, <1>3 DEF ChatCalm, InHand
  <2> DEFINE ids == IdsOf(pins)
  <2>3. DOMAIN ids = DOMAIN pins /\ \A i \in DOMAIN pins : ids[i] = pins[i].id
    BY DEF IdsOf
  <2>4. places = {i \in DOMAIN ids : ids[i] # ids[j]}
    BY <2>1, <2>2, <2>3
  <2>5. IdsOf(pins') = At(ids, places)
    BY <1>1, AtIds
  <2> HIDE DEF places, o
  <2>6. \A k, l \in DOMAIN pins' : pins'[k].id = pins'[l].id => k = l
    <3>1. /\ \A k \in DOMAIN pins' : Nth(places, k) \in places /\ pins'[k] = pins[Nth(places, k)]
          /\ \A k, l \in DOMAIN pins' : Nth(places, k) = Nth(places, l) => k = l
      BY <1>1, AtProperties
    <3> QED
      BY <1>1, <2>1, <3>1
  <2>7. InOrder'
    BY <1>1, <2>1, <2>6 DEF InOrder
  <2>8. At(ids, places) = Board!At(ids, places)
    BY SameAt
  <2>9. j \in DOMAIN ids /\ IdsOf(pins') = Board!At(ids, {i \in DOMAIN ids : ids[i] # ids[j]})
    BY <2>2, <2>3, <2>4, <2>5, <2>8
  <2>10. ids = [i \in DOMAIN pins |-> pins[i].id] /\ IdsOf(pins') = [i \in DOMAIN pins' |-> pins'[i].id]
    BY DEF IdsOf
  <2> HIDE DEF ids
  <2>11. Board!Unpin
    BY <1>1, <2>9, <2>10 DEF Board!Unpin
  <2> QED
    BY <2>7, <2>11
<1> QED
  BY <1>1, <1>2, <1>3, CalmEnds

\* The copy that is pushed is a message on the board that was not pinned.
LEMMA PushIsPin ==
    ASSUME ChatTyped, ChatCalm, NEW w \in Writers, PushPin(w)
    PROVE  ChatCalm' /\ (chatSetting.inFlight = 1 => Board!Pin)
<1> DEFINE o == chatJob[w]
<1>1. /\ UNCHANGED <<chatSetting, chat, sent>> /\ o.at = "pushPin"
      /\ pins' = LPush(pins, o.item, PinSize) /\ ChatGoto(w, ChatIdle)
      /\ pins \in Seq(Message) /\ Carries(o) /\ PinSize \in Nat \ {0}
  BY ChatAssumption DEF PushPin, ChatTyped, ChatTypeOK
<1>2. o # ChatIdle /\ o.item \in Message
  BY <1>1 DEF ChatIdle, Carries
<1>3. ASSUME chatSetting.inFlight = 1
      PROVE  InOrder' /\ Board!Pin
  <2>1. /\ InOrder /\ \A i, k \in DOMAIN pins : pins[i].id = pins[k].id => i = k
    BY <1>3 DEF ChatCalm, InOrder
  <2>2. PICK c \in DOMAIN chat : o.item = chat[c] /\ ~chat[c].deleted
    BY <1>1, <1>3 DEF ChatCalm, InHand
  <2>3. \A i \in DOMAIN pins : pins[i].id # o.item.id
    BY <1>1, <1>3 DEF ChatCalm, InHand, Pinned
  <2> DEFINE ids == IdsOf(pins)
             x == o.item
  <2>4. DOMAIN ids = DOMAIN pins /\ \A i \in DOMAIN pins : ids[i] = pins[i].id
    BY DEF IdsOf
  <2>5. IdsOf(pins') = LPush(ids, x.id, PinSize)
    BY <1>1, <1>2, PushIds
  <2>6. IsPushed(pins', pins, x, PinSize)
    BY <1>1, <1>2, PushPlaces
  <2>7. pins' \in Seq(Message) /\ \A k \in DOMAIN pins' : k \in Nat
    <3>1. pins' \in Seq(Message)
      BY <1>1, <1>2, PushPlaces
    <3> QED
      BY <3>1
  <2> HIDE DEF o, x
  <2>8. \A k, l \in DOMAIN pins' : pins'[k].id = pins'[l].id => k = l
    <3> SUFFICES ASSUME NEW k \in DOMAIN pins', NEW l \in DOMAIN pins', pins'[k].id = pins'[l].id
                 PROVE  k = l
      OBVIOUS
    <3>1. /\ k \in Nat /\ l \in Nat /\ pins'[1] = x
          /\ k # 1 => k - 1 \in DOMAIN pins /\ pins'[k] = pins[k - 1]
          /\ l # 1 => l - 1 \in DOMAIN pins /\ pins'[l] = pins[l - 1]
      BY <2>6, <2>7 DEF IsPushed
    <3>2. k # 1 => pins'[k].id # x.id
      BY <2>3, <3>1 DEF x
    <3>3. l # 1 => pins'[l].id # x.id
      BY <2>3, <3>1 DEF x
    <3>4. CASE k # 1 /\ l # 1
      <4>1. k - 1 = l - 1
        BY <2>1, <3>1, <3>4
      <4> QED
        BY <3>1, <4>1
    <3> QED
      BY <3>1, <3>2, <3>3, <3>4
  <2>9. InOrder'
    BY <1>1, <2>1, <2>8 DEF InOrder
  <2>10. /\ ids = [i \in DOMAIN pins |-> pins[i].id]
         /\ IdsOf(pins') = [i \in DOMAIN pins' |-> pins'[i].id]
    BY DEF IdsOf
  <2>11. chat[c].id = x.id /\ \A i \in DOMAIN ids : ids[i] # x.id
    BY <2>2, <2>3, <2>4 DEF x
  <2> HIDE DEF ids
  <2>12. IdsOf(pins') = Board!Newest(<<chat[c].id>> \o ids, PinSize)
    BY <2>5, <2>11 DEF LPush, Newest, Board!Newest
  <2>13. chat[c].id \notin {ids[i] : i \in DOMAIN ids}
    BY <2>11
  <2>14. UNCHANGED chat
    BY <1>1
  <2> DEFINE front == <<chat[c].id>>
  <2>15. [i \in DOMAIN pins' |-> pins'[i].id] = Board!Newest(front \o [i \in DOMAIN pins |-> pins[i].id], PinSize)
    BY <2>10, <2>12
  <2>16. chat[c].id \notin {[i \in DOMAIN pins |-> pins[i].id][k] : k \in DOMAIN [i \in DOMAIN pins |-> pins[i].id]}
    BY <2>10, <2>13
  <2>17. Board!Pin
    BY <2>2, <2>14, <2>15, <2>16, Zenon DEF Board!Pin
  <2> QED
    BY <2>9, <2>17
<1> QED
  BY <1>1, <1>2, <1>3, CalmEnds

\* Every step of the chat, calm or not.
LEMMA ChatStepIsBoardStep ==
    ASSUME ChatTyped, ChatCalm, [ChatNext]_chatVars
    PROVE  /\ ChatCalm'
           /\ chatSetting.inFlight = 1 => Board!Next \/ UNCHANGED <<chat, pins>>
<1>1. CASE UNCHANGED chatVars
  BY <1>1 DEF chatVars, ChatCalm, Busy, InHand, InOrder, Pinned
<1>2. CASE ChatNext
  <2>1. PICK w \in Writers :
          \/ SendMessage(w) \/ DeleteMessage(w) \/ ReactMessage(w) \/ FindMessage(w)
          \/ SetMessage(w) \/ PinMessage(w) \/ ReadPins(w) \/ FindPin(w) \/ RemovePin(w)
          \/ PushPin(w) \/ ChatCallFails(w)
    BY <1>2 DEF ChatNext
  <2> QED
    BY <2>1, SendIsPost, RequestIsStutter, ReadingIsStutter, SetIsDeleteOrReact, RemoveIsUnpin,
       PushIsPin DEF Board!Next
<1> QED
  BY <1>1, <1>2

\* As long as handlers do not overlap, the calls they are made of are one step of the board
\* each, and the steps in between change nothing a client can see.
THEOREM ChatIsABoard == ChatSpec => BoardRefined
<1>1. ChatInit => ChatCalm
  <2> SUFFICES ASSUME ChatInit PROVE ChatCalm
    OBVIOUS
  <2>1. Busy = {}
    BY DEF ChatInit, Busy
  <2>2. \A v \in Writers : chatJob[v] = ChatIdle
    BY DEF ChatInit
  <2>3. InOrder
    BY DEF ChatInit, InOrder
  <2> QED
    BY <2>1, <2>2, <2>3, IdleHolds, FS_EmptySet DEF ChatCalm
<1>2. ChatTyped /\ ChatCalm /\ [ChatNext]_chatVars =>
        ChatCalm' /\ (chatSetting.inFlight = 1 => Board!Next \/ UNCHANGED <<chat, pins>>)
  BY ChatStepIsBoardStep
<1>3. ChatSpec => [](ChatTyped)
  BY ChatTypeCorrect
<1> QED
  BY <1>1, <1>2, <1>3, PTL DEF ChatSpec, BoardRefined

-----------------------------------------------------------------------------
(* The end of rooms.                                                       *)

InTurns == "overlap" \notin lifeSetting

\* Somebody in a room is there today.
LastInIsRight ==
    \A r \in Rooms : lastIn[r] <= day /\ (r \in ActiveRooms => lastIn[r] = day)

\* A room that is empty, and that nobody is about to mark, was marked after its last guest.
MarksAreNew ==
    cleanupFaults = 0 =>
      \A r \in Rooms :
        r \notin ActiveRooms /\ (\A g \in Guests : leaving[g] # r) /\ mark[r] # 0
          => lastIn[r] <= mark[r]

\* Without overlap nothing changes behind the cleanup's back.
CopiesAreFresh ==
    InTurns =>
      /\ cleanup.at # "off" => NobodyLeaving
      /\ cleanup.at = "lookRooms" => cleanup.marks = mark
      /\ cleanup.at = "each" =>
           cleanup.busy = ActiveRooms /\ \A r \in cleanup.rest : cleanup.marks[r] = mark[r]

\* With it, a mark is deleted or becomes today's.
MarksChangeToNow ==
    cleanup.at # "off" => \A r \in Rooms : mark[r] \in {cleanup.marks[r], 0, day}

\* What the cleanup is done with.
DoneIsDone ==
    cleanup.at = "each" /\ cleanupFaults = 0 =>
      \A r \in Rooms \ cleanup.rest : Expired(mark[r]) => r \in cleanup.busy

LifeInv ==
    /\ LifecycleTypeOK
    /\ LastInIsRight /\ MarksAreNew /\ CopiesAreFresh /\ MarksChangeToNow /\ DoneIsDone

-----------------------------------------------------------------------------

\* Who enters makes a room active, who leaves may make one inactive.
LEMMA ActiveRoomsChange ==
    ASSUME NEW g \in Guests, inRoom \in [Guests -> Rooms \cup {Outside}],
           NEW r \in Rooms \cup {Outside}, inRoom' = [inRoom EXCEPT ![g] = r]
    PROVE  /\ ActiveRooms' \subseteq ActiveRooms \cup {r}
           /\ ActiveRooms \ {inRoom[g]} \subseteq ActiveRooms'
           /\ r # Outside => r \in ActiveRooms'
           /\ (\E h \in Guests \ {g} : inRoom[h] = inRoom[g]) /\ inRoom[g] # Outside
                => inRoom[g] \in ActiveRooms'
<1>1. /\ inRoom'[g] = r /\ \A h \in Guests \ {g} : inRoom'[h] = inRoom[h]
      /\ inRoom' \in [Guests -> Rooms \cup {Outside}]
  OBVIOUS
<1> QED
  BY <1>1 DEF ActiveRooms

\* Day arithmetic.
LEMMA DayFacts ==
    ASSUME LifecycleTypeOK
    PROVE  /\ day \in Nat \ {0} /\ day \in Days /\ 0 \in Days /\ MaxAge \in Nat
           /\ \A r \in Rooms : mark[r] \in Nat /\ lastIn[r] \in Nat
           /\ ~Expired(0) /\ ~Expired(day)
  BY LifecycleAssumption DEF LifecycleTypeOK, Days, Expired

\* A room somebody enters needs no mark.
LEMMA EnterKeeps ==
    ASSUME LifeInv, NEW g \in Guests, EnterRoom(g)
    PROVE  LifeInv'
<1>1. LifecycleTypeOK /\ LastInIsRight /\ MarksAreNew /\ CopiesAreFresh /\ MarksChangeToNow /\ DoneIsDone
  BY DEF LifeInv
<1>2. PICK r \in Rooms :
        /\ inRoom' = [inRoom EXCEPT ![g] = r]
        /\ lastIn' = [lastIn EXCEPT ![r] = day]
  BY DEF EnterRoom
<1>3. /\ GuestsTurn /\ inRoom[g] = Outside /\ leaving[g] = Outside
      /\ UNCHANGED <<lifeSetting, leaving, kept, mark, day, cleanup, cleanupFaults>>
  BY DEF EnterRoom
<1>4. /\ ActiveRooms' \subseteq ActiveRooms \cup {r} /\ ActiveRooms \ {Outside} \subseteq ActiveRooms'
      /\ r \in ActiveRooms'
  BY <1>1, <1>2, <1>3, ActiveRoomsChange, LifecycleAssumption DEF LifecycleTypeOK
<1>5. LifecycleTypeOK'
  BY <1>1, <1>2, <1>3, DayFacts DEF LifecycleTypeOK
<1>6. LastInIsRight'
  BY <1>1, <1>2, <1>3, <1>4, DayFacts DEF LastInIsRight, LifecycleTypeOK
<1>7. MarksAreNew'
  BY <1>1, <1>2, <1>3, <1>4 DEF MarksAreNew, LifecycleTypeOK, ActiveRooms
<1>8. CopiesAreFresh'
  BY <1>1, <1>3 DEF CopiesAreFresh, InTurns, GuestsTurn
<1>9. MarksChangeToNow' /\ DoneIsDone'
  BY <1>1, <1>3 DEF MarksChangeToNow, DoneIsDone, Expired
<1> QED
  BY <1>5, <1>6, <1>7, <1>8, <1>9 DEF LifeInv

\* What a guest leaves in a room changes no mark.
LEMMA UseKeeps ==
    ASSUME LifeInv, NEW g \in Guests, UseRoom(g)
    PROVE  LifeInv'
<1>1. /\ LifeInv /\ inRoom[g] # Outside /\ kept' = kept \cup {inRoom[g]}
      /\ UNCHANGED <<lifeSetting, inRoom, leaving, mark, day, cleanup, cleanupFaults, lastIn>>
  BY DEF UseRoom
<1>2. LifecycleTypeOK'
  BY <1>1 DEF LifeInv, LifecycleTypeOK
<1> QED
  BY <1>1, <1>2 DEF LifeInv, LastInIsRight, MarksAreNew, CopiesAreFresh, MarksChangeToNow,
                    DoneIsDone, InTurns, ActiveRooms, NobodyLeaving, Expired

\* The last to leave is about to mark the room.
LEMMA LeaveKeeps ==
    ASSUME LifeInv, NEW g \in Guests, LeaveRoom(g)
    PROVE  LifeInv'
<1> DEFINE r == inRoom[g]
<1>1. LifecycleTypeOK /\ LastInIsRight /\ MarksAreNew /\ CopiesAreFresh /\ MarksChangeToNow /\ DoneIsDone
  BY DEF LifeInv
<1>2. /\ GuestsTurn /\ r \in Rooms
      /\ inRoom' = [inRoom EXCEPT ![g] = Outside]
      /\ leaving' = [leaving EXCEPT ![g] = IF \E h \in Guests \ {g} : inRoom[h] = r THEN Outside
                                           ELSE r]
      /\ lastIn' = [lastIn EXCEPT ![r] = day]
      /\ UNCHANGED <<lifeSetting, kept, mark, day, cleanup, cleanupFaults>>
      /\ leaving[g] = Outside
  BY <1>1 DEF LeaveRoom, LifecycleTypeOK
<1>3. /\ ActiveRooms' \subseteq ActiveRooms \cup {Outside} /\ ActiveRooms \ {r} \subseteq ActiveRooms'
      /\ (\E h \in Guests \ {g} : inRoom[h] = r) => r \in ActiveRooms'
  BY <1>1, <1>2, ActiveRoomsChange, LifecycleAssumption DEF LifecycleTypeOK
<1> HIDE DEF r
<1>4. LifecycleTypeOK'
  BY <1>1, <1>2, DayFacts DEF LifecycleTypeOK
<1>5. LastInIsRight'
  BY <1>1, <1>2, <1>3, DayFacts, LifecycleAssumption DEF LastInIsRight, LifecycleTypeOK
<1>6. MarksAreNew'
  <2> SUFFICES ASSUME cleanupFaults = 0, NEW s \in Rooms, s \notin ActiveRooms',
                      \A h \in Guests : leaving'[h] # s, mark[s] # 0
               PROVE  lastIn'[s] <= mark[s]
    BY <1>2 DEF MarksAreNew
  <2>1. s # r
    <3>1. CASE \E h \in Guests \ {g} : inRoom[h] = r
      BY <1>3, <3>1
    <3>2. CASE ~\E h \in Guests \ {g} : inRoom[h] = r
      <4>1. leaving'[g] = r
        BY <1>1, <1>2, <3>2 DEF LifecycleTypeOK
      <4> QED
        BY <4>1
    <3> QED
      BY <3>1, <3>2
  <2>2. s \notin ActiveRooms /\ lastIn'[s] = lastIn[s]
    BY <1>1, <1>2, <1>3, <2>1 DEF LifecycleTypeOK
  <2>3. \A h \in Guests : leaving[h] # s
    BY <1>1, <1>2, LifecycleAssumption DEF LifecycleTypeOK
  <2> QED
    BY <1>1, <2>2, <2>3 DEF MarksAreNew
<1>7. CopiesAreFresh'
  BY <1>1, <1>2 DEF CopiesAreFresh, InTurns, GuestsTurn
<1>8. MarksChangeToNow' /\ DoneIsDone'
  BY <1>1, <1>2 DEF MarksChangeToNow, DoneIsDone, Expired
<1> QED
  BY <1>4, <1>5, <1>6, <1>7, <1>8 DEF LifeInv

\* A new mark is of today.
LEMMA MarkKeeps ==
    ASSUME LifeInv, NEW g \in Guests, SetRoomLastEmptied(g)
    PROVE  LifeInv'
<1> DEFINE r == leaving[g]
<1>1. LifecycleTypeOK /\ LastInIsRight /\ MarksAreNew /\ CopiesAreFresh /\ MarksChangeToNow /\ DoneIsDone
  BY DEF LifeInv
<1>2. /\ r \in Rooms
      /\ leaving' = [leaving EXCEPT ![g] = Outside]
      /\ UNCHANGED <<lifeSetting, inRoom, kept, day, cleanup, lastIn>>
      /\ \/ mark' = [mark EXCEPT ![r] = day] /\ UNCHANGED cleanupFaults
         \/ /\ cleanupFaults < MaxCleanupFaults /\ cleanupFaults' = cleanupFaults + 1
            /\ UNCHANGED mark
  BY <1>1 DEF SetRoomLastEmptied, LifecycleTypeOK, CleanupFault
<1>3. ActiveRooms' = ActiveRooms /\ ~(NobodyLeaving)
  BY <1>2, LifecycleAssumption DEF ActiveRooms, NobodyLeaving
<1> HIDE DEF r
<1>4. LifecycleTypeOK'
  BY <1>1, <1>2, DayFacts, LifecycleAssumption DEF LifecycleTypeOK
<1>5. LastInIsRight'
  BY <1>1, <1>2, <1>3 DEF LastInIsRight
<1>6. MarksAreNew'
  <2> SUFFICES ASSUME cleanupFaults' = 0, NEW s \in Rooms, s \notin ActiveRooms,
                      \A h \in Guests : leaving'[h] # s, mark'[s] # 0
               PROVE  lastIn[s] <= mark'[s]
    BY <1>2, <1>3 DEF MarksAreNew
  <2>1. mark' = [mark EXCEPT ![r] = day] /\ cleanupFaults = 0
    BY <1>1, <1>2, LifecycleAssumption DEF LifecycleTypeOK
  <2>2. CASE s = r
    BY <1>1, <2>1, <2>2 DEF LastInIsRight, LifecycleTypeOK
  <2>3. CASE s # r
    <3>1. mark'[s] = mark[s]
      BY <1>1, <2>1, <2>3 DEF LifecycleTypeOK
    <3>2. \A h \in Guests : leaving[h] # s
      BY <1>1, <1>2, <2>3 DEF LifecycleTypeOK, r
    <3> QED
      BY <1>1, <2>1, <3>1, <3>2 DEF MarksAreNew
  <2> QED
    BY <2>2, <2>3
<1>7. CopiesAreFresh'
  BY <1>1, <1>2, <1>3 DEF CopiesAreFresh, InTurns
<1>8. MarksChangeToNow'
  BY <1>1, <1>2 DEF MarksChangeToNow, LifecycleTypeOK
<1>9. DoneIsDone'
  <2> SUFFICES ASSUME cleanup.at = "each", cleanupFaults' = 0, NEW s \in Rooms \ cleanup.rest,
                      Expired(mark'[s])
               PROVE  s \in cleanup.busy
    BY <1>2 DEF DoneIsDone, Expired
  <2>1. mark' = [mark EXCEPT ![r] = day] /\ cleanupFaults = 0
    BY <1>1, <1>2, LifecycleAssumption DEF LifecycleTypeOK
  <2>3. s # r
    BY <1>1, <1>2, <2>1, DayFacts DEF LifecycleTypeOK
  <2>4. mark'[s] = mark[s]
    BY <1>1, <2>1, <2>3 DEF LifecycleTypeOK
  <2> QED
    BY <1>1, <2>1, <2>4 DEF DoneIsDone
<1> QED
  BY <1>4, <1>5, <1>6, <1>7, <1>8, <1>9 DEF LifeInv

\* Overnight only a room that somebody is in gets a new last day.
LEMMA NextDayKeeps ==
    ASSUME LifeInv, NextDay
    PROVE  LifeInv'
<1>1. LifecycleTypeOK /\ LastInIsRight /\ MarksAreNew
  BY DEF LifeInv
<1>2. /\ day < MaxDays /\ NobodyLeaving /\ cleanup.at = "off" /\ day' = day + 1
      /\ lastIn' = [r \in Rooms |-> IF r \in ActiveRooms THEN day' ELSE lastIn[r]]
      /\ UNCHANGED <<lifeSetting, inRoom, leaving, kept, mark, cleanup, cleanupFaults>>
      /\ ActiveRooms' = ActiveRooms
  BY DEF NextDay, ActiveRooms
<1>3. day' \in Days \ {0} /\ \A r \in Rooms : lastIn[r] \in Days
  BY <1>1, <1>2, LifecycleAssumption DEF LifecycleTypeOK, Days
<1>4. LifecycleTypeOK'
  BY <1>1, <1>2, <1>3 DEF LifecycleTypeOK
<1>5. LastInIsRight'
  BY <1>1, <1>2, <1>3, DayFacts DEF LastInIsRight
<1>6. MarksAreNew'
  BY <1>1, <1>2 DEF MarksAreNew
<1>7. CopiesAreFresh' /\ MarksChangeToNow' /\ DoneIsDone'
  BY <1>2 DEF CopiesAreFresh, MarksChangeToNow, DoneIsDone
<1> QED
  BY <1>4, <1>5, <1>6, <1>7 DEF LifeInv

\* The marks read are the marks.
LEMMA ListKeeps ==
    ASSUME LifeInv, ListRoomsLastEmptied
    PROVE  LifeInv'
<1> DEFINE k == [cleanup EXCEPT !.at = "lookRooms", !.on = day, !.marks = mark]
<1>1. /\ LifecycleTypeOK /\ LastInIsRight /\ MarksAreNew /\ cleanup' = k
      /\ "overlap" \in lifeSetting \/ NobodyLeaving
      /\ UNCHANGED <<lifeSetting, inRoom, leaving, kept, mark, day, cleanupFaults, lastIn>>
  BY DEF ListRoomsLastEmptied, LifeInv
<1>2. k \in Cleanup /\ k.at = "lookRooms" /\ k.marks = mark
  BY <1>1 DEF LifecycleTypeOK, Cleanup
<1> HIDE DEF k
<1>3. LifecycleTypeOK'
  BY <1>1, <1>2 DEF LifecycleTypeOK
<1> QED
  BY <1>1, <1>2, <1>3 DEF LifeInv, LastInIsRight, MarksAreNew, CopiesAreFresh, MarksChangeToNow,
                          DoneIsDone, InTurns, ActiveRooms, NobodyLeaving

\* The rooms that are not left to be dealt with have no mark, or one of today.
LEMMA LookKeeps ==
    ASSUME LifeInv, LookAtActiveRooms
    PROVE  LifeInv'
<1> DEFINE k == [cleanup EXCEPT !.at = "each", !.busy = ActiveRooms,
                                !.rest = {r \in Rooms : cleanup.marks[r] # 0}]
<1>1. /\ LifecycleTypeOK /\ LastInIsRight /\ MarksAreNew /\ CopiesAreFresh /\ MarksChangeToNow
      /\ cleanup.at = "lookRooms" /\ cleanup' = k
      /\ UNCHANGED <<lifeSetting, inRoom, leaving, kept, mark, day, cleanupFaults, lastIn>>
      /\ ActiveRooms' = ActiveRooms
  BY DEF LookAtActiveRooms, LifeInv, ActiveRooms
<1>2. ActiveRooms \in SUBSET Rooms
  BY <1>1 DEF ActiveRooms, LifecycleTypeOK
<1>3. /\ k \in Cleanup /\ k.at = "each" /\ k.marks = cleanup.marks /\ k.busy = ActiveRooms
      /\ k.rest = {r \in Rooms : cleanup.marks[r] # 0}
  BY <1>1, <1>2 DEF LifecycleTypeOK, Cleanup
<1> HIDE DEF k
<1>4. LifecycleTypeOK'
  BY <1>1, <1>3 DEF LifecycleTypeOK
<1>5. CopiesAreFresh'
  BY <1>1, <1>3 DEF CopiesAreFresh, InTurns, NobodyLeaving
<1>6. MarksChangeToNow'
  BY <1>1, <1>3 DEF MarksChangeToNow
<1>7. DoneIsDone'
  <2> SUFFICES ASSUME NEW r \in Rooms \ k.rest PROVE ~Expired(mark[r])
    BY <1>1 DEF DoneIsDone, Expired
  <2>1. mark[r] \in {0, day}
    BY <1>1, <1>3 DEF MarksChangeToNow
  <2> QED
    BY <1>1, <2>1, DayFacts
<1> QED
  BY <1>1, <1>4, <1>5, <1>6, <1>7 DEF LifeInv, LastInIsRight, MarksAreNew

\* The heart of both properties: the room that is deleted is one that has been empty for long,
\* and the one that is not deleted has no old mark.
LEMMA CleanKeeps ==
    ASSUME LifeInv, CleanRoom
    PROVE  /\ LifeInv'
           /\ InTurns /\ cleanupFaults = 0 => \A r \in Lost : LongEmpty(r)
           /\ cleanup'.at = "each"
<1>1. LifecycleTypeOK /\ LastInIsRight /\ MarksAreNew /\ CopiesAreFresh /\ MarksChangeToNow /\ DoneIsDone
  BY DEF LifeInv
<1>2. PICK r \in cleanup.rest :
        /\ cleanup' = [cleanup EXCEPT !.rest = @ \ {r}]
        /\ IF r \notin cleanup.busy /\ Expired(cleanup.marks[r])
           THEN \/ /\ kept' = kept \ {r}
                   /\ mark' = [mark EXCEPT ![r] = 0]
                   /\ UNCHANGED cleanupFaults
                \/ /\ cleanupFaults < MaxCleanupFaults /\ cleanupFaults' = cleanupFaults + 1
                   /\ UNCHANGED <<kept, mark>>
           ELSE UNCHANGED <<kept, mark, cleanupFaults>>
  BY DEF CleanRoom, CleanupFault
<1>3. /\ cleanup.at = "each" /\ cleanup \in Cleanup /\ r \in Rooms
      /\ UNCHANGED <<lifeSetting, inRoom, leaving, day, lastIn>>
      /\ ActiveRooms' = ActiveRooms
  BY <1>1, <1>2 DEF CleanRoom, LifecycleTypeOK, Cleanup, ActiveRooms
<1> DEFINE k == [cleanup EXCEPT !.rest = @ \ {r}]
<1>4. /\ k \in Cleanup /\ k.at = "each" /\ k.marks = cleanup.marks /\ k.busy = cleanup.busy
      /\ k.rest = cleanup.rest \ {r} /\ cleanup' = k
  BY <1>2, <1>3 DEF Cleanup
<1> HIDE DEF k
<1>5. /\ \A s \in Rooms \ {r} : mark'[s] = mark[s]
      /\ mark'[r] \in {mark[r], 0} /\ mark' \in [Rooms -> Days] /\ kept' \subseteq kept
      /\ cleanupFaults' \in 0..MaxCleanupFaults /\ (cleanupFaults' = 0 => cleanupFaults = 0)
  BY <1>1, <1>2, <1>3, DayFacts, LifecycleAssumption DEF LifecycleTypeOK
<1>6. LifecycleTypeOK'
  BY <1>1, <1>3, <1>4, <1>5 DEF LifecycleTypeOK
<1>7. LastInIsRight' /\ MarksAreNew'
  BY <1>1, <1>3, <1>5 DEF LastInIsRight, MarksAreNew
<1>8. CopiesAreFresh'
  <2>1. cleanup.rest \subseteq Rooms
    BY <1>3 DEF Cleanup
  <2> QED
    BY <1>1, <1>3, <1>4, <1>5, <2>1 DEF CopiesAreFresh, InTurns, NobodyLeaving
<1>9. MarksChangeToNow'
  BY <1>1, <1>3, <1>4, <1>5 DEF MarksChangeToNow
<1>10. DoneIsDone'
  <2> SUFFICES ASSUME cleanupFaults' = 0, NEW s \in Rooms \ k.rest, Expired(mark'[s])
               PROVE  s \in cleanup.busy
    BY <1>3, <1>4 DEF DoneIsDone, Expired
  <2>1. CASE s # r
    BY <1>1, <1>3, <1>4, <1>5, <2>1 DEF DoneIsDone
  <2>2. CASE s = r
    <3>1. mark'[r] # 0 /\ mark'[r] = mark[r] /\ mark[r] = cleanup.marks[r]
      BY <1>1, <1>3, <1>5, <2>2, DayFacts DEF MarksChangeToNow
    <3>2. cleanupFaults = 0 /\ Expired(cleanup.marks[r])
      BY <1>5, <2>2, <3>1
    <3>3. ASSUME r \notin cleanup.busy PROVE FALSE
      <4>1. mark' = [mark EXCEPT ![r] = 0]
        BY <1>1, <1>2, <3>2, <3>3, LifecycleAssumption DEF LifecycleTypeOK
      <4> QED
        BY <1>1, <1>3, <3>1, <4>1 DEF LifecycleTypeOK
    <3> QED
      BY <2>2, <3>3
  <2> QED
    BY <2>1, <2>2
<1>11. ASSUME InTurns, cleanupFaults = 0, NEW s \in Lost
       PROVE  LongEmpty(s)
  <2>1. s = r /\ r \notin cleanup.busy /\ Expired(cleanup.marks[r])
    BY <1>2, <1>11 DEF Lost
  <2>2. r \notin ActiveRooms /\ Expired(mark[r]) /\ \A g \in Guests : leaving[g] # r
    BY <1>1, <1>2, <1>3, <1>11, <2>1, LifecycleAssumption DEF CopiesAreFresh, NobodyLeaving
  <2>3. lastIn[r] <= mark[r]
    BY <1>1, <1>3, <1>11, <2>2 DEF MarksAreNew, Expired
  <2> QED
    BY <1>1, <1>3, <2>1, <2>2, <2>3, DayFacts DEF LongEmpty, Expired
<1> QED
  BY <1>4, <1>6, <1>7, <1>8, <1>9, <1>10, <1>11 DEF LifeInv

\* When the cleanup is through with all rooms.
LEMMA EndKeeps ==
    ASSUME LifeInv, EndCleanup
    PROVE  LifeInv' /\ (cleanupFaults = 0 => \A r \in Rooms : Expired(mark[r]) => r \in cleanup.busy)
<1> DEFINE k == [cleanup EXCEPT !.at = "off", !.marks = NoMarks, !.busy = {}]
<1>1. /\ LifeInv /\ cleanup.at = "each" /\ cleanup.rest = {} /\ cleanup' = k
      /\ UNCHANGED <<lifeSetting, inRoom, leaving, kept, mark, day, cleanupFaults, lastIn>>
  BY DEF EndCleanup
<1>2. NoMarks \in [Rooms -> Days]
  BY <1>1, DayFacts DEF NoMarks, LifeInv
<1>3. k \in Cleanup /\ k.at = "off"
  BY <1>1, <1>2 DEF LifeInv, LifecycleTypeOK, Cleanup
<1> HIDE DEF k
<1>4. LifecycleTypeOK'
  BY <1>1, <1>3 DEF LifeInv, LifecycleTypeOK
<1>5. LifeInv'
  BY <1>1, <1>3, <1>4 DEF LifeInv, LastInIsRight, MarksAreNew, CopiesAreFresh, MarksChangeToNow,
                          DoneIsDone, InTurns, ActiveRooms
<1> QED
  BY <1>1, <1>5 DEF LifeInv, DoneIsDone

\* A restart counts as a fault.
LEMMA RestartKeeps ==
    ASSUME LifeInv, Restart
    PROVE  LifeInv' /\ cleanupFaults' # 0
<1> DEFINE k == [cleanup EXCEPT !.at = "off", !.marks = NoMarks, !.busy = {}, !.rest = {}]
<1>1. /\ LifeInv /\ cleanup' = k
      /\ inRoom' = [g \in Guests |-> Outside] /\ leaving' = [g \in Guests |-> Outside]
      /\ cleanupFaults < MaxCleanupFaults /\ cleanupFaults' = cleanupFaults + 1
      /\ UNCHANGED <<lifeSetting, kept, mark, day, lastIn>>
  BY DEF Restart, CleanupFault
<1>2. NoMarks \in [Rooms -> Days]
  BY <1>1, DayFacts DEF NoMarks, LifeInv
<1>3. k \in Cleanup /\ k.at = "off"
  BY <1>1, <1>2 DEF LifeInv, LifecycleTypeOK, Cleanup
<1> HIDE DEF k
<1>4. cleanupFaults' \in 0..MaxCleanupFaults /\ cleanupFaults' # 0
  BY <1>1, LifecycleAssumption DEF LifeInv, LifecycleTypeOK
<1>5. LifecycleTypeOK' /\ ActiveRooms' = {}
  BY <1>1, <1>3, <1>4 DEF LifeInv, LifecycleTypeOK, ActiveRooms
<1> QED
  BY <1>1, <1>3, <1>4, <1>5 DEF LifeInv, LastInIsRight, MarksAreNew, CopiesAreFresh,
                                MarksChangeToNow, DoneIsDone

-----------------------------------------------------------------------------

\* At first nobody is anywhere.
LEMMA LifecycleStarts == LifecycleInit => LifeInv
<1> SUFFICES ASSUME LifecycleInit PROVE LifeInv
  OBVIOUS
<1> DEFINE k == [at |-> "off", on |-> 0, marks |-> NoMarks, busy |-> {}, rest |-> {}]
<1>1. /\ lifeSetting \in LifeSettings /\ kept = {} /\ day = 1 /\ cleanup = k
      /\ cleanupFaults = 0 /\ mark = NoMarks /\ lastIn = NoMarks
      /\ inRoom = [g \in Guests |-> Outside] /\ leaving = [g \in Guests |-> Outside]
  BY DEF LifecycleInit
<1>2. 0 \in Days /\ 1 \in Days \ {0} /\ 0 \in 0..MaxCleanupFaults
  BY LifecycleAssumption DEF Days
<1>3. NoMarks \in [Rooms -> Days] /\ \A r \in Rooms : NoMarks[r] = 0
  BY <1>2 DEF NoMarks
<1>4. k \in Cleanup /\ k.at = "off"
  BY <1>2, <1>3 DEF Cleanup
<1> HIDE DEF k
<1>5. LifecycleTypeOK
  BY <1>1, <1>2, <1>3, <1>4 DEF LifecycleTypeOK
<1>6. ActiveRooms = {}
  BY <1>1 DEF ActiveRooms
<1>7. LastInIsRight /\ MarksAreNew
  BY <1>1, <1>3, <1>6 DEF LastInIsRight, MarksAreNew
<1>8. CopiesAreFresh /\ MarksChangeToNow /\ DoneIsDone
  BY <1>1, <1>4 DEF CopiesAreFresh, MarksChangeToNow, DoneIsDone
<1> QED
  BY <1>5, <1>7, <1>8 DEF LifeInv

\* What a step does: the invariant stays, and the two properties hold of it.
LEMMA LifecycleStep ==
    ASSUME LifeInv, LifecycleNext \/ UNCHANGED lifeVars
    PROVE  /\ LifeInv'
           /\ InTurns /\ cleanupFaults = 0 => \A r \in Lost : LongEmpty(r)
           /\ cleanup.at = "each" /\ cleanup'.at = "off" /\ cleanupFaults' = 0 =>
                \A r \in Rooms : Expired(mark[r]) => r \in cleanup.busy
<1>1. ASSUME NEW g \in Guests,
             EnterRoom(g) \/ UseRoom(g) \/ LeaveRoom(g) \/ SetRoomLastEmptied(g)
      PROVE  LifeInv' /\ Lost = {} /\ cleanup' = cleanup
  BY <1>1, EnterKeeps, UseKeeps, LeaveKeeps, MarkKeeps
     DEF EnterRoom, UseRoom, LeaveRoom, SetRoomLastEmptied, Lost
<1>2. CASE NextDay
  BY <1>2, NextDayKeeps DEF NextDay, Lost
<1>3. CASE ListRoomsLastEmptied
  BY <1>3, ListKeeps DEF ListRoomsLastEmptied, Lost
<1>4. CASE LookAtActiveRooms
  BY <1>4, LookKeeps DEF LookAtActiveRooms, Lost
<1>5. CASE CleanRoom
  BY <1>5, CleanKeeps
<1>6. CASE EndCleanup
  BY <1>6, EndKeeps DEF EndCleanup, Lost
<1>7. CASE Restart
  BY <1>7, RestartKeeps DEF Restart, Lost
<1>8. CASE UNCHANGED lifeVars
  BY <1>8 DEF lifeVars, Lost, LifeInv, LifecycleTypeOK, LastInIsRight, MarksAreNew, CopiesAreFresh,
              MarksChangeToNow, DoneIsDone, InTurns, ActiveRooms, NobodyLeaving, Expired
<1> QED
  BY <1>1, <1>2, <1>3, <1>4, <1>5, <1>6, <1>7, <1>8 DEF LifecycleNext

\* The invariant of the cleanup and the guests.
THEOREM LifecycleInvariant == LifecycleSpec => []LifeInv
<1>1. LifeInv /\ [LifecycleNext]_lifeVars => LifeInv'
  BY LifecycleStep
<1> QED
  BY <1>1, LifecycleStarts, PTL DEF LifecycleSpec

\* As long as guests and cleanup take turns, every mark is written and the server does not
\* stop, a room that loses what it kept has been empty for more than MaxAge days.
THEOREM RoomsInUseAreKept == LifecycleSpec => KeptWhileInUse
<1> DEFINE Kept == ("overlap" \notin lifeSetting /\ cleanupFaults = 0) => \A r \in Lost : LongEmpty(r)
<1>1. LifeInv /\ [LifecycleNext]_lifeVars => [Kept]_lifeVars
  BY LifecycleStep DEF InTurns
<1>2. KeptWhileInUse <=> [][Kept]_lifeVars
  BY DEF KeptWhileInUse
<1> HIDE DEF Kept
<1> QED
  BY <1>1, <1>2, LifecycleInvariant, PTL DEF LifecycleSpec

\* However guests come and go during a cleanup, a cleanup that ends without an error has left
\* no room with an old mark but those that were in memory when it looked.
THEOREM ExpiredRoomsAreDeleted == LifecycleSpec => CleanupDeletesExpired
<1> DEFINE All == cleanup.at = "each" /\ cleanup'.at = "off" /\ cleanupFaults' = 0 =>
                    \A r \in Rooms : Expired(mark[r]) => r \in cleanup.busy
<1>1. LifeInv /\ [LifecycleNext]_lifeVars => [All]_lifeVars
  BY LifecycleStep
<1>2. CleanupDeletesExpired <=> [][All]_lifeVars
  BY DEF CleanupDeletesExpired
<1> HIDE DEF All
<1> QED
  BY <1>1, <1>2, LifecycleInvariant, PTL DEF LifecycleSpec

-----------------------------------------------------------------------------
(* The documents.                                                          *)

\* A list of spenders, none with an id past the last one given, no two with the same id.
SpenderList(list, given) ==
    /\ list \in Seq(SpenderEntry)
    /\ \A i \in DOMAIN list : list[i].id <= given
    /\ \A i, j \in DOMAIN list : list[i].id = list[j].id => i = j

ScheduleList(list) ==
    /\ DOMAIN list \subseteq ScheduleID
    /\ \A id \in DOMAIN list : list[id] \in Schedule

SoundPad == [Slots -> Sounds \cup {Empty}]

\* What a goroutine holds when it is to write.
Holds(j, given) ==
    /\ j.at = "writePad" => j.key \in Slots /\ j.value \in Sounds \cup {Empty} /\ j.read \in SoundPad
    /\ j.at = "pushPlay" => j.key \in Slots /\ j.value \in Sounds
    /\ j.at = "writeSchedules" =>
         /\ j.key \in ScheduleID /\ ScheduleList(j.read)
         /\ j.op # "delete" => j.value \in Schedule
    /\ j.at = "install" => ScheduleList(j.read)
    /\ j.at = "writeSpenders" =>
         /\ SpenderList(j.read, given)
         /\ \/ /\ j.op = "post" /\ j.key \in EntryID /\ j.key <= given /\ j.value \in Spender
               /\ \A i \in DOMAIN j.read : j.read[i].id < j.key
            \/ j.op = "put" /\ j.value \in Spender
            \/ j.op = "delete"

\* What goroutines hold.
JobsInv ==
    /\ editJob = [e \in Editors |-> editJob[e]]
    /\ \A e \in Editors : Holds(editJob[e], entries)
    /\ ~serverUp => \A e \in Editors : editJob[e] = EditIdle

\* What is stored.
DocsInv ==
    /\ pad \in SoundPad
    /\ plays \in Seq(Slots \X Sounds) /\ Len(plays) <= PlaysSize
    /\ ScheduleList(schedules)
    /\ cronTable \subseteq ScheduleID /\ (~serverUp => cronTable = {})
    /\ SpenderList(spenders, entries)
    /\ entries \in 0..MaxEntries
    /\ docFaults \in 0..MaxDocFaults

DocumentsInv == JobsInv /\ DocsInv

\* The actions of a goroutine.
EditStep(e) ==
    \/ SoundPadSet(e) \/ SoundPadClear(e) \/ WritePad(e)
    \/ SoundPadPlay(e) \/ PushSoundPadPlay(e)
    \/ PostSchedule(e) \/ PutSchedule(e) \/ DeleteSchedule(e) \/ WriteSchedules(e)
    \/ RereadSchedules(e) \/ InstallCron(e)
    \/ PostSpender(e) \/ PutSpender(e) \/ DeleteSpender(e) \/ WriteSpenders(e)
    \/ AnnounceSpenders(e) \/ WriteFails(e)

\* A goroutine that is somewhere is somewhere only while the server runs.
LEMMA UpAt ==
    ASSUME JobsInv, NEW e \in Editors, editJob[e].at # "idle"
    PROVE  serverUp
BY DEF JobsInv, EditIdle

\* More ids given do no harm.
LEMMA SpendersBelow ==
    ASSUME NEW given \in Nat, NEW more \in Nat, given <= more
    PROVE  \A list : SpenderList(list, given) => SpenderList(list, more)
<1> TAKE list
<1> HAVE SpenderList(list, given)
<1>1. \A i \in DOMAIN list : list[i] \in SpenderEntry
  BY ElementOfSeq DEF SpenderList
<1>2. \A i \in DOMAIN list : list[i].id \in Nat
  BY <1>1, DocumentsAssumption DEF SpenderEntry, EntryID
<1> QED
  BY <1>2 DEF SpenderList

\* One goroutine moves on, and ids are only added: the others hold what they held.
LEMMA EditMoves ==
    ASSUME JobsInv, NEW e \in Editors, NEW j, EditGoto(e, j), serverUp, serverUp' = serverUp,
           entries \in Nat, entries' \in Nat, entries <= entries', Holds(j, entries')
    PROVE  /\ JobsInv'
           /\ editJob'[e] = j
           /\ \A o \in Editors : o # e => editJob'[o] = editJob[o]
<1>1. editJob' = [editJob EXCEPT ![e] = j] /\ DOMAIN editJob = Editors
  BY DEF EditGoto, JobsInv
<1>2. editJob'[e] = j /\ \A o \in Editors : o # e => editJob'[o] = editJob[o]
  BY <1>1
<1>3. editJob' = [o \in Editors |-> editJob'[o]]
  BY <1>1
<1>4. \A list : SpenderList(list, entries) => SpenderList(list, entries')
  BY SpendersBelow
<1>5. ASSUME NEW o \in Editors, o # e
      PROVE  Holds(editJob'[o], entries')
  <2>1. Holds(editJob[o], entries)
    BY DEF JobsInv
  <2>2. editJob'[o] = editJob[o]
    BY <1>2, <1>5
  <2>3. \A k \in EntryID : k <= entries => k <= entries'
    BY DocumentsAssumption DEF EntryID
  <2> HIDE DEF SpenderList
  <2> QED
    BY <1>4, <2>1, <2>2, <2>3 DEF Holds
<1> QED
  BY <1>2, <1>3, <1>5 DEF JobsInv

\* Nothing is held where nothing is read.
LEMMA HoldsNothing ==
    \A j, given : j.at \in {"idle", "reread", "announce"} => Holds(j, given)
BY DEF Holds

\* The sound pad.
LEMMA PadKeeps ==
    ASSUME DocumentsInv, NEW e \in Editors,
           SoundPadSet(e) \/ SoundPadClear(e) \/ WritePad(e) \/ SoundPadPlay(e) \/ PushSoundPadPlay(e)
    PROVE  DocumentsInv'
<1>1. entries \in Nat /\ entries' = entries /\ docFaults' = docFaults /\ serverUp' = serverUp
  BY DocumentsAssumption
     DEF DocumentsInv, DocsInv, SoundPadSet, SoundPadClear, WritePad, SoundPadPlay, PushSoundPadPlay
<1>2. serverUp
  BY UpAt DEF DocumentsInv, SoundPadSet, SoundPadClear, WritePad, SoundPadPlay, PushSoundPadPlay,
              Asks, EditAt
<1>3. CASE SoundPadSet(e)
  <2>1. PICK slot \in Slots, sound \in Sounds :
          EditGoto(e, Then("writePad", "set", slot, sound, pad))
    BY <1>3 DEF SoundPadSet
  <2>2. Holds(Then("writePad", "set", slot, sound, pad), entries')
    BY DEF Holds, Then, DocumentsInv, DocsInv
  <2>3. JobsInv'
    BY <1>1, <1>2, <2>1, <2>2, EditMoves DEF DocumentsInv
  <2> QED
    BY <1>3, <2>3 DEF DocumentsInv, DocsInv, SoundPadSet, docs
<1>4. CASE SoundPadClear(e)
  <2>1. PICK slot \in Slots : EditGoto(e, Then("writePad", "clear", slot, Empty, pad))
    BY <1>4 DEF SoundPadClear
  <2>2. Holds(Then("writePad", "clear", slot, Empty, pad), entries')
    BY DEF Holds, Then, DocumentsInv, DocsInv
  <2>3. JobsInv'
    BY <1>1, <1>2, <2>1, <2>2, EditMoves DEF DocumentsInv
  <2> QED
    BY <1>4, <2>3 DEF DocumentsInv, DocsInv, SoundPadClear, docs
<1>5. CASE WritePad(e)
  <2>1. Holds(editJob[e], entries) /\ editJob[e].at = "writePad"
    BY <1>5 DEF DocumentsInv, JobsInv, WritePad, EditAt
  <2>2. pad' \in SoundPad
    BY <1>5, <2>1 DEF WritePad, Holds, SoundPad
  <2>3. Holds(EditIdle, entries')
    BY HoldsNothing DEF EditIdle
  <2>4. JobsInv'
    BY <1>1, <1>2, <1>5, <2>3, EditMoves DEF DocumentsInv, WritePad
  <2> QED
    BY <1>5, <2>2, <2>4 DEF DocumentsInv, DocsInv, WritePad
<1>6. CASE SoundPadPlay(e)
  <2>1. PICK slot \in Slots :
          pad[slot] # Empty /\ EditGoto(e, Then("pushPlay", "play", slot, pad[slot], <<>>))
    BY <1>6 DEF SoundPadPlay
  <2>2. pad[slot] \in Sounds
    BY <2>1 DEF DocumentsInv, DocsInv, SoundPad
  <2>3. Holds(Then("pushPlay", "play", slot, pad[slot], <<>>), entries')
    BY <2>2 DEF Holds, Then
  <2>4. JobsInv'
    BY <1>1, <1>2, <2>1, <2>3, EditMoves DEF DocumentsInv
  <2> QED
    BY <1>6, <2>4 DEF DocumentsInv, DocsInv, SoundPadPlay, docs
<1>7. CASE PushSoundPadPlay(e)
  <2>1. Holds(editJob[e], entries) /\ editJob[e].at = "pushPlay"
    BY <1>7 DEF DocumentsInv, JobsInv, PushSoundPadPlay, EditAt
  <2> DEFINE play == <<editJob[e].key, editJob[e].value>>
             size == Min({PlaysSize, Len(plays) + 1})
  <2>2. play \in Slots \X Sounds
    BY <2>1 DEF Holds
  <2>3. plays' = SubSeq(<<play>> \o plays, 1, size)
    BY <1>7 DEF PushSoundPadPlay
  <2>4. size \in 1..(Len(plays) + 1) /\ size <= PlaysSize /\ Len(plays) \in Nat
    <3>1. Len(plays) \in Nat /\ PlaysSize \in Nat \ {0}
      BY DocumentsAssumption DEF DocumentsInv, DocsInv
    <3>2. \A a, b \in Nat : Min({a, b}) \in {a, b} /\ Min({a, b}) <= a /\ Min({a, b}) <= b
      <4> TAKE a \in Nat, b \in Nat
      <4>1. \E x \in {a, b} : \A y \in {a, b} : x <= y
        OBVIOUS
      <4> QED
        BY <4>1 DEF Min
    <3> HIDE DEF size
    <3>3. size \in {PlaysSize, Len(plays) + 1} /\ size <= PlaysSize /\ size <= Len(plays) + 1
      BY <3>1, <3>2 DEF size
    <3> QED
      BY <3>1, <3>3
  <2> HIDE DEF play, size
  <2>5. <<play>> \o plays \in Seq(Slots \X Sounds) /\ Len(<<play>> \o plays) = Len(plays) + 1
    BY <2>2 DEF DocumentsInv, DocsInv
  <2>6. plays' \in Seq(Slots \X Sounds) /\ Len(plays') = size
    BY <2>3, <2>4, <2>5, SubSeqProperties
  <2>7. Holds(EditIdle, entries')
    BY HoldsNothing DEF EditIdle
  <2>8. JobsInv'
    BY <1>1, <1>2, <1>7, <2>7, EditMoves DEF DocumentsInv, PushSoundPadPlay
  <2> QED
    BY <1>7, <2>4, <2>6, <2>8 DEF DocumentsInv, DocsInv, PushSoundPadPlay
<1> QED
  BY <1>3, <1>4, <1>5, <1>6, <1>7

\* The schedules.
LEMMA SchedulesKeep ==
    ASSUME DocumentsInv, NEW e \in Editors,
           \/ PostSchedule(e) \/ PutSchedule(e) \/ DeleteSchedule(e) \/ WriteSchedules(e)
           \/ RereadSchedules(e) \/ InstallCron(e)
    PROVE  DocumentsInv'
<1>1. /\ entries \in Nat /\ MaxEntries \in Nat /\ MaxDocFaults \in Nat /\ docFaults \in Nat
      /\ serverUp' = serverUp
  <2>1. entries \in Nat /\ MaxEntries \in Nat /\ MaxDocFaults \in Nat /\ docFaults \in Nat
    BY DocumentsAssumption DEF DocumentsInv, DocsInv
  <2>2. serverUp' = serverUp
    BY DEF PostSchedule, PutSchedule, DeleteSchedule, WriteSchedules, RereadSchedules, InstallCron
  <2> QED
    BY <2>1, <2>2
<1>2. serverUp
  BY UpAt DEF DocumentsInv, PostSchedule, PutSchedule, DeleteSchedule, WriteSchedules,
              RereadSchedules, InstallCron, Asks, EditAt
<1>3. ScheduleList(schedules) /\ ScheduleList(NoSchedules)
  BY DEF DocumentsInv, DocsInv, ScheduleList, NoSchedules
<1>4. CASE PostSchedule(e)
  <2>1. PICK body \in Schedule, read \in {schedules, NoSchedules} :
          /\ Read(schedules, NoSchedules, read)
          /\ EditGoto(e, Then("writeSchedules", "post", entries', body, read))
    BY <1>4 DEF PostSchedule
  <2>2. entries' = entries + 1 /\ entries' \in 1..MaxEntries
    BY <1>1, <1>4 DEF PostSchedule
  <2>3. docFaults' \in 0..MaxDocFaults
    BY <1>1, <2>1 DEF Read, DocFault, DocumentsInv, DocsInv
  <2>4. Holds(Then("writeSchedules", "post", entries', body, read), entries')
    BY <1>3, <2>2 DEF Holds, Then, ScheduleID, EntryID
  <2>5. JobsInv'
    <3> DEFINE j == Then("writeSchedules", "post", entries', body, read)
    <3>1. EditGoto(e, j) /\ Holds(j, entries')
      BY <2>1, <2>4
    <3>2. entries' \in Nat /\ entries <= entries'
      BY <1>1, <2>2
    <3> HIDE DEF j
    <3> QED
      BY <1>1, <1>2, <3>1, <3>2, EditMoves DEF DocumentsInv
  <2>6. SpenderList(spenders, entries')
    BY <1>1, <2>2, SpendersBelow DEF DocumentsInv, DocsInv
  <2> QED
    BY <1>1, <1>4, <2>2, <2>3, <2>5, <2>6 DEF DocumentsInv, DocsInv, PostSchedule, docs
<1>5. CASE PutSchedule(e)
  <2>1. PICK id \in DOMAIN schedules, body \in Schedule :
          EditGoto(e, Then("writeSchedules", "put", id, body, schedules))
    BY <1>5 DEF PutSchedule
  <2>2. entries' = entries
    BY <1>5 DEF PutSchedule
  <2>3. Holds(Then("writeSchedules", "put", id, body, schedules), entries')
    BY <1>3 DEF Holds, Then, ScheduleList
  <2>4. JobsInv'
    BY <1>1, <1>2, <2>1, <2>2, <2>3, EditMoves DEF DocumentsInv
  <2> QED
    BY <1>5, <2>4 DEF DocumentsInv, DocsInv, PutSchedule, docs
<1>6. CASE DeleteSchedule(e)
  <2>1. PICK id \in ScheduleID, read \in {schedules, NoSchedules} :
          /\ Read(schedules, NoSchedules, read)
          /\ EditGoto(e, Then("writeSchedules", "delete", id, Empty, read))
    BY <1>6 DEF DeleteSchedule
  <2>2. entries' = entries
    BY <1>6 DEF DeleteSchedule
  <2>3. docFaults' \in 0..MaxDocFaults
    BY <1>1, <2>1 DEF Read, DocFault, DocumentsInv, DocsInv
  <2>4. Holds(Then("writeSchedules", "delete", id, Empty, read), entries')
    BY <1>3 DEF Holds, Then
  <2>5. JobsInv'
    <3> DEFINE j == Then("writeSchedules", "delete", id, Empty, read)
    <3>1. EditGoto(e, j) /\ Holds(j, entries')
      BY <2>1, <2>4
    <3>2. entries' \in Nat /\ entries <= entries'
      BY <1>1, <2>2
    <3> HIDE DEF j
    <3> QED
      BY <1>1, <1>2, <3>1, <3>2, EditMoves DEF DocumentsInv
  <2> QED
    BY <1>6, <2>3, <2>5 DEF DocumentsInv, DocsInv, DeleteSchedule, docs
<1>7. CASE WriteSchedules(e)
  <2>1. /\ editJob[e].key \in ScheduleID /\ (editJob[e].op # "delete" => editJob[e].value \in Schedule)
        /\ ScheduleList(editJob[e].read) /\ entries' = entries
    BY <1>7 DEF DocumentsInv, JobsInv, WriteSchedules, EditAt, Holds
  <2>2. ScheduleList(schedules')
    <3> DEFINE j == editJob[e]
               others == DOMAIN j.read \ {j.key}
               ids == IF j.op = "delete" THEN others ELSE others \cup {j.key}
    <3>1. schedules' = [id \in ids |-> IF id = j.key THEN j.value ELSE j.read[id]]
      BY <1>7 DEF WriteSchedules
    <3>2. ids \subseteq ScheduleID /\ \A id \in ids : id # j.key => j.read[id] \in Schedule
      BY <2>1 DEF ScheduleList
    <3>3. j.key \in ids => j.value \in Schedule
      BY <2>1
    <3> HIDE DEF ids, j
    <3> QED
      BY <3>1, <3>2, <3>3 DEF ScheduleList
  <2>3. Holds([EditIdle EXCEPT !.at = "reread"], entries')
    BY HoldsNothing DEF EditIdle
  <2>4. JobsInv'
    BY <1>1, <1>2, <1>7, <2>1, <2>3, EditMoves DEF DocumentsInv, WriteSchedules
  <2> QED
    BY <1>7, <2>2, <2>4 DEF DocumentsInv, DocsInv, WriteSchedules
<1>8. CASE RereadSchedules(e)
  <2>1. entries' = entries
    BY <1>8 DEF RereadSchedules
  <2>2. /\ Holds(Then("install", "none", 0, Empty, schedules), entries')
        /\ Holds(EditIdle, entries')
    BY <1>3, HoldsNothing DEF Holds, Then, EditIdle
  <2>3. JobsInv'
    BY <1>1, <1>2, <1>8, <2>1, <2>2, EditMoves DEF DocumentsInv, RereadSchedules
  <2>4. docFaults' \in 0..MaxDocFaults
    BY <1>1, <1>8 DEF RereadSchedules, DocFault, DocumentsInv, DocsInv
  <2> QED
    BY <1>8, <2>3, <2>4 DEF DocumentsInv, DocsInv, RereadSchedules, docs
<1>9. CASE InstallCron(e)
  <2>1. entries' = entries /\ ScheduleList(editJob[e].read)
    BY <1>9 DEF DocumentsInv, JobsInv, InstallCron, EditAt, Holds
  <2>2. cronTable' \subseteq ScheduleID
    BY <1>9, <2>1 DEF InstallCron, Planned, ScheduleList
  <2>3. Holds(EditIdle, entries')
    BY HoldsNothing DEF EditIdle
  <2>4. JobsInv'
    BY <1>1, <1>2, <1>9, <2>1, <2>3, EditMoves DEF DocumentsInv, InstallCron
  <2> QED
    BY <1>2, <1>9, <2>2, <2>4 DEF DocumentsInv, DocsInv, InstallCron, docs
<1> QED
  BY <1>4, <1>5, <1>6, <1>7, <1>8, <1>9

\* The list that is written: a new entry, a changed one or one entry less.
LEMMA WrittenList ==
    ASSUME NEW j, NEW given \in Nat, j.at = "writeSpenders", Holds(j, given)
    PROVE  LET after ==
                 CASE j.op = "post" -> Append(j.read, [id |-> j.key, of |-> j.value])
                   [] j.op = "put" ->
                        [i \in DOMAIN j.read |->
                           IF j.read[i].id = j.key THEN [j.read[i] EXCEPT !.of = j.value]
                           ELSE j.read[i]]
                   [] j.op = "delete" -> At(j.read, {i \in DOMAIN j.read : j.read[i].id # j.key})
           IN  /\ SpenderList(after, given)
               /\ \A entry \in (SpenderEntries(j.read) \ SpenderEntries(after))
                               \cup (SpenderEntries(after) \ SpenderEntries(j.read)) :
                    entry[1] = j.key
<1> DEFINE read == j.read
           key == j.key
           value == j.value
           n == Len(read)
<1>1. /\ SpenderList(read, given) /\ read \in Seq(SpenderEntry) /\ n \in Nat /\ DOMAIN read = 1..n
      /\ \A i \in 1..n : read[i] \in SpenderEntry /\ read[i].id <= given
      /\ \A i, k \in 1..n : read[i].id = read[k].id => i = k
  BY ElementOfSeq DEF Holds, SpenderList
<1>2. \A x \in SpenderEntry : x.id \in Nat
  BY DocumentsAssumption DEF SpenderEntry, EntryID
<1>3. \/ /\ j.op = "post" /\ key \in EntryID /\ key <= given /\ value \in Spender
         /\ \A i \in 1..n : read[i].id < key
      \/ j.op = "put" /\ value \in Spender
      \/ j.op = "delete"
  BY <1>1 DEF Holds
<1> HIDE DEF read, key, value, n
<1>4. CASE j.op = "post"
  <2> DEFINE new == [id |-> key, of |-> value]
             after == Append(read, new)
  <2>1. key \in EntryID /\ key <= given /\ value \in Spender /\ \A i \in 1..n : read[i].id < key
    BY <1>3, <1>4
  <2>2. new \in SpenderEntry /\ new.id = key /\ new.of = value
    BY <2>1 DEF SpenderEntry
  <2> HIDE DEF new
  <2>3. /\ after \in Seq(SpenderEntry) /\ DOMAIN after = 1..(n + 1)
        /\ after[n + 1] = new /\ \A i \in 1..n : after[i] = read[i]
    BY <1>1, <2>2, AppendProperties DEF n
  <2> HIDE DEF after
  <2>4. \A i \in 1..(n + 1) : i \in 1..n \/ i = n + 1
    BY <1>1
  <2>5. \A i \in DOMAIN after : after[i].id <= given
    BY <1>1, <2>1, <2>2, <2>3, <2>4
  <2>6. \A i, k \in DOMAIN after : after[i].id = after[k].id => i = k
    <3> SUFFICES ASSUME NEW i \in 1..(n + 1), NEW k \in 1..(n + 1), after[i].id = after[k].id
                 PROVE  i = k
      BY <2>3
    <3>1. key \in Nat /\ \A l \in 1..n : read[l].id \in Nat /\ read[l].id # key
      BY <1>1, <1>2, <2>1, <2>2
    <3>2. CASE i \in 1..n /\ k \in 1..n
      BY <1>1, <2>3, <3>2
    <3>3. CASE i \in 1..n /\ k = n + 1
      BY <2>2, <2>3, <3>1, <3>3
    <3>4. CASE i = n + 1 /\ k \in 1..n
      BY <2>2, <2>3, <3>1, <3>4
    <3> QED
      BY <2>4, <3>2, <3>3, <3>4
  <2>7. \A entry \in (SpenderEntries(read) \ SpenderEntries(after))
                     \cup (SpenderEntries(after) \ SpenderEntries(read)) : entry[1] = key
    <3>1. \A i \in 1..n : i \in 1..(n + 1)
      BY <1>1
    <3>2. SpenderEntries(read) \subseteq SpenderEntries(after)
      BY <1>1, <2>3, <3>1 DEF SpenderEntries
    <3>3. \A entry \in SpenderEntries(after) : entry \in SpenderEntries(read) \/ entry = <<key, value>>
      BY <1>1, <2>2, <2>3, <2>4 DEF SpenderEntries
    <3> QED
      BY <3>2, <3>3
  <2>8. SpenderList(after, given)
    BY <2>3, <2>5, <2>6 DEF SpenderList
  <2> QED
    BY <1>4, <2>7, <2>8 DEF after, new, read, key, value
<1>5. CASE j.op = "put"
  <2> DEFINE entry(i) == IF read[i].id = key THEN [read[i] EXCEPT !.of = value] ELSE read[i]
             after == [i \in DOMAIN read |-> entry(i)]
  <2>1. value \in Spender
    BY <1>3, <1>5
  <2>2. \A i \in 1..n : /\ entry(i) \in SpenderEntry /\ entry(i).id = read[i].id
                        /\ (read[i].id # key => entry(i) = read[i])
    <3> TAKE i \in 1..n
    <3>1. read[i] \in [id : EntryID, of : Spender]
      BY <1>1 DEF SpenderEntry
    <3>2. LET x == [read[i] EXCEPT !.of = value]
          IN  x \in [id : EntryID, of : Spender] /\ x.id = read[i].id
      BY <2>1, <3>1
    <3> QED
      BY <3>1, <3>2 DEF SpenderEntry
  <2> HIDE DEF entry
  <2>3. /\ after \in Seq(SpenderEntry) /\ DOMAIN after = 1..n
        /\ \A i \in 1..n : after[i] = entry(i)
    BY <1>1, <2>2
  <2> HIDE DEF after
  <2>4. SpenderList(after, given)
    BY <1>1, <2>2, <2>3 DEF SpenderList
  <2>5. \A i \in 1..n : after[i].id = read[i].id /\ (read[i].id # key => after[i] = read[i])
    BY <2>2, <2>3
  <2>6. \A x \in (SpenderEntries(read) \ SpenderEntries(after))
                 \cup (SpenderEntries(after) \ SpenderEntries(read)) : x[1] = key
    <3> SUFFICES ASSUME NEW i \in 1..n, read[i].id # key
                 PROVE  /\ <<read[i].id, read[i].of>> \in SpenderEntries(after)
                        /\ <<after[i].id, after[i].of>> \in SpenderEntries(read)
      BY <1>1, <2>3, <2>5 DEF SpenderEntries
    <3>1. after[i] = read[i]
      BY <2>5
    <3> QED
      BY <1>1, <2>3, <3>1 DEF SpenderEntries
  <2> QED
    BY <1>5, <2>4, <2>6 DEF after, entry, read, key, value
<1>6. CASE j.op = "delete"
  <2> DEFINE places == {i \in DOMAIN read : read[i].id # key}
             after == At(read, places)
  <2>1. places \in SUBSET DOMAIN read
    OBVIOUS
  <2>2. \A i \in 1..n : read[i].id # key <=> i \in places
    BY <1>1
  <2> HIDE DEF places
  <2>3. /\ after \in Seq(SpenderEntry)
        /\ \A k \in DOMAIN after : Nth(places, k) \in places /\ after[k] = read[Nth(places, k)]
        /\ \A i \in places : \E k \in DOMAIN after : Nth(places, k) = i
        /\ \A k, l \in DOMAIN after : Nth(places, k) = Nth(places, l) => k = l
    BY <1>1, <2>1, AtProperties
  <2> HIDE DEF after
  <2>4. \A k \in DOMAIN after : Nth(places, k) \in 1..n
    BY <1>1, <2>1, <2>3
  <2>5. \A k \in DOMAIN after : after[k].id <= given
    BY <1>1, <2>3, <2>4
  <2>6. \A k, l \in DOMAIN after : after[k].id = after[l].id => k = l
    <3> SUFFICES ASSUME NEW k \in DOMAIN after, NEW l \in DOMAIN after, after[k].id = after[l].id
                 PROVE  k = l
      OBVIOUS
    <3>1. after[k] = read[Nth(places, k)] /\ after[l] = read[Nth(places, l)]
      BY <2>3
    <3>2. Nth(places, k) \in 1..n /\ Nth(places, l) \in 1..n
      BY <2>4
    <3>3. Nth(places, k) = Nth(places, l)
      BY <1>1, <3>1, <3>2
    <3> QED
      BY <2>3, <3>3
  <2>7. SpenderEntries(after) \subseteq SpenderEntries(read)
    <3> SUFFICES ASSUME NEW k \in DOMAIN after
                 PROVE  <<after[k].id, after[k].of>> \in SpenderEntries(read)
      BY DEF SpenderEntries
    <3>1. after[k] = read[Nth(places, k)] /\ Nth(places, k) \in DOMAIN read
      BY <1>1, <2>3, <2>4
    <3> QED
      BY <3>1 DEF SpenderEntries
  <2>8. \A i \in 1..n : read[i].id # key => <<read[i].id, read[i].of>> \in SpenderEntries(after)
    <3> SUFFICES ASSUME NEW i \in 1..n, read[i].id # key
                 PROVE  <<read[i].id, read[i].of>> \in SpenderEntries(after)
      OBVIOUS
    <3>1. PICK k \in DOMAIN after : Nth(places, k) = i
      BY <2>2, <2>3
    <3>2. after[k] = read[i]
      BY <2>3, <3>1
    <3> QED
      BY <3>2 DEF SpenderEntries
  <2>9. \A x \in (SpenderEntries(read) \ SpenderEntries(after))
                 \cup (SpenderEntries(after) \ SpenderEntries(read)) : x[1] = key
    <3>1. \A x \in SpenderEntries(read) :
            \E i \in 1..n : x = <<read[i].id, read[i].of>>
      BY <1>1 DEF SpenderEntries
    <3> QED
      BY <2>7, <2>8, <3>1
  <2>10. SpenderList(after, given)
    BY <2>3, <2>5, <2>6 DEF SpenderList
  <2> QED
    BY <1>6, <2>9, <2>10 DEF after, places, read, key, value
<1> QED
  BY <1>3, <1>4, <1>5, <1>6

\* The top spenders.
LEMMA SpendersKeep ==
    ASSUME DocumentsInv, NEW e \in Editors,
           \/ PostSpender(e) \/ PutSpender(e) \/ DeleteSpender(e) \/ WriteSpenders(e)
           \/ AnnounceSpenders(e)
    PROVE  DocumentsInv'
<1>1. /\ entries \in Nat /\ MaxEntries \in Nat /\ MaxDocFaults \in Nat /\ docFaults \in Nat
      /\ serverUp' = serverUp
  <2>1. entries \in Nat /\ MaxEntries \in Nat /\ MaxDocFaults \in Nat /\ docFaults \in Nat
    BY DocumentsAssumption DEF DocumentsInv, DocsInv
  <2>2. serverUp' = serverUp
    BY DEF PostSpender, PutSpender, DeleteSpender, WriteSpenders, AnnounceSpenders
  <2> QED
    BY <2>1, <2>2
<1>2. serverUp
  BY UpAt DEF DocumentsInv, PostSpender, PutSpender, DeleteSpender, WriteSpenders,
              AnnounceSpenders, Asks, EditAt
<1>3. SpenderList(spenders, entries) /\ SpenderList(<<>>, entries)
  <2>1. <<>> \in Seq(SpenderEntry) /\ DOMAIN <<>> = {}
    OBVIOUS
  <2> QED
    BY <2>1 DEF DocumentsInv, DocsInv, SpenderList
<1>4. CASE PostSpender(e)
  <2>1. PICK body \in Spender, read \in {spenders, <<>>} :
          /\ Read(spenders, <<>>, read)
          /\ EditGoto(e, Then("writeSpenders", "post", entries', body, read))
    BY <1>4 DEF PostSpender
  <2>2. entries' = entries + 1 /\ entries' \in 1..MaxEntries
    BY <1>1, <1>4 DEF PostSpender
  <2>3. docFaults' \in 0..MaxDocFaults
    BY <1>1, <2>1 DEF Read, DocFault, DocumentsInv, DocsInv
  <2>4. SpenderList(spenders, entries') /\ SpenderList(read, entries')
    BY <1>1, <1>3, <2>2, SpendersBelow
  <2>5. \A i \in DOMAIN read : read[i].id < entries'
    <3>1. SpenderList(read, entries)
      BY <1>3
    <3>2. \A i \in DOMAIN read : read[i] \in SpenderEntry /\ read[i].id <= entries
      BY <3>1, ElementOfSeq DEF SpenderList
    <3>3. \A i \in DOMAIN read : read[i].id \in Nat
      BY <3>2, DocumentsAssumption DEF SpenderEntry, EntryID
    <3> QED
      BY <1>1, <2>2, <3>2, <3>3
  <2> DEFINE j == Then("writeSpenders", "post", entries', body, read)
  <2>6. EditGoto(e, j) /\ Holds(j, entries')
    BY <2>1, <2>2, <2>4, <2>5 DEF Holds, Then, EntryID
  <2>7. entries' \in Nat /\ entries <= entries'
    BY <1>1, <2>2
  <2> HIDE DEF j
  <2>8. JobsInv'
    BY <1>1, <1>2, <2>6, <2>7, EditMoves DEF DocumentsInv
  <2> QED
    BY <1>4, <2>2, <2>3, <2>4, <2>8 DEF DocumentsInv, DocsInv, PostSpender, docs
<1>5. CASE PutSpender(e)
  <2>1. PICK i \in DOMAIN spenders, body \in Spender :
          EditGoto(e, Then("writeSpenders", "put", spenders[i].id, body, spenders))
    BY <1>5 DEF PutSpender
  <2>2. entries' = entries
    BY <1>5 DEF PutSpender
  <2> DEFINE j == Then("writeSpenders", "put", spenders[i].id, body, spenders)
  <2>3. EditGoto(e, j) /\ Holds(j, entries')
    BY <1>3, <2>1, <2>2 DEF Holds, Then
  <2> HIDE DEF j
  <2>4. JobsInv'
    BY <1>1, <1>2, <2>2, <2>3, EditMoves DEF DocumentsInv
  <2> QED
    BY <1>5, <2>4 DEF DocumentsInv, DocsInv, PutSpender, docs
<1>6. CASE DeleteSpender(e)
  <2>1. PICK id \in EntryID, read \in {spenders, <<>>} :
          /\ Read(spenders, <<>>, read)
          /\ EditGoto(e, Then("writeSpenders", "delete", id, Empty, read))
    BY <1>6 DEF DeleteSpender
  <2>2. entries' = entries
    BY <1>6 DEF DeleteSpender
  <2>3. docFaults' \in 0..MaxDocFaults
    BY <1>1, <2>1 DEF Read, DocFault, DocumentsInv, DocsInv
  <2> DEFINE j == Then("writeSpenders", "delete", id, Empty, read)
  <2>4. EditGoto(e, j) /\ Holds(j, entries')
    BY <1>3, <2>1, <2>2 DEF Holds, Then
  <2> HIDE DEF j
  <2>5. JobsInv'
    BY <1>1, <1>2, <2>2, <2>4, EditMoves DEF DocumentsInv
  <2> QED
    BY <1>6, <2>3, <2>5 DEF DocumentsInv, DocsInv, DeleteSpender, docs
<1>7. CASE WriteSpenders(e)
  <2>1. entries' = entries /\ editJob[e].at = "writeSpenders" /\ Holds(editJob[e], entries)
    BY <1>7 DEF DocumentsInv, JobsInv, WriteSpenders, EditAt
  <2>2. SpenderList(spenders', entries)
    BY <1>1, <1>7, <2>1, WrittenList DEF WriteSpenders
  <2>3. Holds([EditIdle EXCEPT !.at = "announce"], entries')
    BY HoldsNothing DEF EditIdle
  <2>4. JobsInv'
    BY <1>1, <1>2, <1>7, <2>1, <2>3, EditMoves DEF DocumentsInv, WriteSpenders
  <2> QED
    BY <1>7, <2>1, <2>2, <2>4 DEF DocumentsInv, DocsInv, WriteSpenders
<1>8. CASE AnnounceSpenders(e)
  <2>1. entries' = entries
    BY <1>8 DEF AnnounceSpenders
  <2>2. Holds(EditIdle, entries')
    BY HoldsNothing DEF EditIdle
  <2>3. JobsInv'
    BY <1>1, <1>2, <1>8, <2>1, <2>2, EditMoves DEF DocumentsInv, AnnounceSpenders
  <2>4. docFaults' \in 0..MaxDocFaults
    BY <1>1, <1>8 DEF AnnounceSpenders, DocFault, DocumentsInv, DocsInv
  <2> QED
    BY <1>8, <2>3, <2>4 DEF DocumentsInv, DocsInv, AnnounceSpenders, docs
<1> QED
  BY <1>4, <1>5, <1>6, <1>7, <1>8

\* A write that fails, a crash and a start.
LEMMA ServerKeeps ==
    ASSUME DocumentsInv, (\E e \in Editors : WriteFails(e)) \/ CrashServer \/ StartServer
    PROVE  DocumentsInv'
<1>1. entries \in Nat /\ MaxEntries \in Nat /\ MaxDocFaults \in Nat /\ docFaults \in Nat
  BY DocumentsAssumption DEF DocumentsInv, DocsInv
<1>2. ASSUME NEW e \in Editors, WriteFails(e)
      PROVE  DocumentsInv'
  <2>1. entries' = entries /\ serverUp' = serverUp /\ serverUp
    BY <1>2, UpAt DEF DocumentsInv, WriteFails
  <2>2. Holds(EditIdle, entries')
    BY HoldsNothing DEF EditIdle
  <2>3. JobsInv'
    BY <1>1, <1>2, <2>1, <2>2, EditMoves DEF DocumentsInv, WriteFails
  <2>4. docFaults' \in 0..MaxDocFaults
    BY <1>1, <1>2 DEF WriteFails, DocFault, DocumentsInv, DocsInv
  <2> QED
    BY <1>2, <2>3, <2>4 DEF DocumentsInv, DocsInv, WriteFails, docs
<1>3. CASE CrashServer
  <2>1. \A e \in Editors : Holds(EditIdle, entries')
    BY HoldsNothing DEF EditIdle
  <2>2. JobsInv'
    BY <1>3, <2>1 DEF JobsInv, CrashServer
  <2> QED
    BY <1>3, <2>2 DEF DocumentsInv, DocsInv, CrashServer, docs
<1>4. CASE StartServer
  <2>1. schedules' = DefaultSchedules \/ schedules' = schedules
    BY <1>4 DEF StartServer
  <2>2. ScheduleList(DefaultSchedules)
    BY DocumentsAssumption DEF DefaultSchedules, ScheduleList, ScheduleID
  <2>3. ScheduleList(schedules')
    BY <2>1, <2>2 DEF DocumentsInv, DocsInv
  <2>4. cronTable' = Planned(schedules') \/ cronTable' = {}
    BY <1>4 DEF StartServer
  <2>5. cronTable' \subseteq ScheduleID
    BY <2>3, <2>4 DEF ScheduleList, Planned
  <2>6. JobsInv'
    BY <1>4 DEF DocumentsInv, JobsInv, StartServer
  <2>7. docFaults' \in 0..MaxDocFaults
    BY <1>1, <1>4 DEF StartServer, DocFault, DocumentsInv, DocsInv
  <2> QED
    BY <1>4, <2>3, <2>5, <2>6, <2>7 DEF DocumentsInv, DocsInv, StartServer
<1> QED
  BY <1>2, <1>3, <1>4

\* The documents start as they should.
LEMMA DocumentsStart == DocumentsInit => DocumentsInv
<1> SUFFICES ASSUME DocumentsInit PROVE DocumentsInv
  OBVIOUS
<1>1. JobsInv
  <2>1. \A e \in Editors : editJob[e] = EditIdle
    BY DEF DocumentsInit
  <2>2. Holds(EditIdle, entries)
    BY HoldsNothing DEF EditIdle
  <2> QED
    BY <2>1, <2>2 DEF DocumentsInit, JobsInv
<1>2. SpenderList(spenders, entries)
  <2>1. <<>> \in Seq(SpenderEntry) /\ DOMAIN <<>> = {}
    OBVIOUS
  <2> QED
    BY <2>1 DEF DocumentsInit, SpenderList
<1> QED
  BY <1>1, <1>2, DocumentsAssumption
     DEF DocumentsInit, DocumentsInv, DocsInv, SoundPad, ScheduleList, NoSchedules

\* What one does one does as a goroutine, or it is a crash or a start.
LEMMA DocumentsStep == DocumentsInv /\ [DocumentsNext]_docVars => DocumentsInv'
<1> SUFFICES ASSUME DocumentsInv, [DocumentsNext]_docVars PROVE DocumentsInv'
  OBVIOUS
<1>1. CASE UNCHANGED docVars
  BY <1>1 DEF docVars, docs, DocumentsInv, JobsInv, DocsInv
<1>2. CASE CrashServer \/ StartServer
  BY <1>2, ServerKeeps
<1>3. ASSUME NEW e \in Editors, EditStep(e)
      PROVE  DocumentsInv'
  BY <1>3, PadKeeps, SchedulesKeep, SpendersKeep, ServerKeeps DEF EditStep
<1>4. DocumentsNext => CrashServer \/ StartServer \/ \E e \in Editors : EditStep(e)
  BY DEF DocumentsNext, EditStep
<1> QED
  BY <1>1, <1>2, <1>3, <1>4

\* The documents keep their types whatever requests overlap, fail or are cut off, and a
\* goroutine that is to write has something to write.
THEOREM DocumentsInvariant == DocumentsSpec => []DocumentsInv
<1>1. DocumentsInit => DocumentsInv
  BY DocumentsStart
<1>2. DocumentsInv /\ [DocumentsNext]_docVars => DocumentsInv'
  BY DocumentsStep
<1> QED
  BY <1>1, <1>2, PTL DEF DocumentsSpec

\* The state has its type.
LEMMA DocumentsTyped == DocumentsInv => DocumentsTypeOK
<1> SUFFICES ASSUME DocumentsInv PROVE DocumentsTypeOK
  OBVIOUS
<1>1. \A i \in DOMAIN spenders : spenders[i] \in SpenderEntry
  BY ElementOfSeq DEF DocumentsInv, DocsInv, SpenderList
<1> QED
  BY <1>1 DEF DocumentsInv, DocsInv, JobsInv, DocumentsTypeOK, SoundPad, ScheduleList, SpenderList,
              SpenderEntry

-----------------------------------------------------------------------------
(* One request at a time, and no error of Redis.                           *)

\* A goroutine is not ahead of a document it is to write, ...
ReadsAreFresh ==
    \A e \in Editors :
      /\ editJob[e].at = "writePad" => editJob[e].read = pad
      /\ editJob[e].at = "writeSchedules" => editJob[e].read = schedules
      /\ editJob[e].at = "writeSpenders" => editJob[e].read = spenders
      /\ editJob[e].at = "install" => editJob[e].read = schedules

\* ... and what was written is what is played and announced, but for what is on its way there.
WrittenIsUsed ==
    /\ serverUp /\ (\A e \in Editors : editJob[e].at \notin {"reread", "install"}) =>
         cronTable = Planned(schedules)
    /\ "crash" \notin docSetting.traffic /\ (\A e \in Editors : editJob[e].at # "announce") =>
         \/ announced = MergeTopSpenders(spenders)
         \/ announced = <<>> /\ spenders = <<>>

OneEdits == \A e, f \in Editors : editJob[e] # EditIdle /\ editJob[f] # EditIdle => e = f

CalmDocs ==
    /\ IsFiniteSet(Editing)
    /\ docSetting.inFlight = 1 => OneEdits
    /\ docSetting.inFlight = 1 /\ docFaults = 0 => ReadsAreFresh /\ WrittenIsUsed

\* One goroutine moves on.
LEMMA OneMoves ==
    ASSUME DocumentsInv, CalmDocs, NEW e \in Editors, NEW j, EditGoto(e, j),
           editJob[e] = EditIdle => Cardinality(Editing) < docSetting.inFlight,
           docSetting' = docSetting
    PROVE  /\ IsFiniteSet(Editing')
           /\ editJob'[e] = j /\ \A o \in Editors : o # e => editJob'[o] = editJob[o]
           /\ docSetting.inFlight = 1 => /\ \A o \in Editors : o # e => editJob[o] = EditIdle
                                         /\ OneEdits'
<1>1. editJob' = [editJob EXCEPT ![e] = j] /\ DOMAIN editJob = Editors
  BY DEF EditGoto, DocumentsInv, JobsInv
<1>2. editJob'[e] = j /\ \A o \in Editors : o # e => editJob'[o] = editJob[o]
  BY <1>1
<1>3. IsFiniteSet(Editing')
  <2>1. IsFiniteSet(Editing \cup {e})
    BY FS_AddElement DEF CalmDocs
  <2>2. Editing' \subseteq Editing \cup {e}
    BY <1>2 DEF Editing
  <2> QED
    BY <2>1, <2>2, FS_Subset
<1>4. ASSUME docSetting.inFlight = 1
      PROVE  \A o \in Editors : o # e => editJob[o] = EditIdle
  <2>1. CASE editJob[e] # EditIdle
    BY <1>4, <2>1 DEF CalmDocs, OneEdits
  <2>2. CASE editJob[e] = EditIdle
    <3>1. Cardinality(Editing) \in Nat /\ Cardinality(Editing) < 1
      BY <1>4, <2>2, FS_CardinalityType DEF CalmDocs
    <3>2. Cardinality(Editing) = 0
      BY <3>1
    <3>3. Editing = {}
      BY <3>2, FS_EmptySet DEF CalmDocs
    <3> QED
      BY <3>3 DEF Editing
  <2> QED
    BY <2>1, <2>2
<1>5. docSetting.inFlight = 1 => OneEdits'
  BY <1>2, <1>4 DEF OneEdits
<1> QED
  BY <1>2, <1>3, <1>4, <1>5

\* A goroutine that begins does so only where there is room for it.
LEMMA RoomToBegin ==
    ASSUME NEW e \in Editors, EditStep(e), editJob[e] = EditIdle
    PROVE  Cardinality(Editing) < docSetting.inFlight
<1>1. editJob[e].at = "idle"
  BY DEF EditIdle
<1>2. ~ \/ WritePad(e) \/ PushSoundPadPlay(e) \/ WriteSchedules(e) \/ RereadSchedules(e)
        \/ InstallCron(e) \/ WriteSpenders(e) \/ AnnounceSpenders(e) \/ WriteFails(e)
  BY <1>1 DEF WritePad, PushSoundPadPlay, WriteSchedules, RereadSchedules, InstallCron,
              WriteSpenders, AnnounceSpenders, WriteFails, EditAt
<1>3. \/ SoundPadSet(e) \/ SoundPadClear(e) \/ SoundPadPlay(e) \/ PostSchedule(e)
      \/ PutSchedule(e) \/ DeleteSchedule(e) \/ PostSpender(e) \/ PutSpender(e) \/ DeleteSpender(e)
  BY <1>2 DEF EditStep
<1> QED
  BY <1>3 DEF SoundPadSet, SoundPadClear, SoundPadPlay, PostSchedule, PutSchedule, DeleteSchedule,
              PostSpender, PutSpender, DeleteSpender, Asks

\* A goroutine moves on, with what it has read in hand.
Moved(e, j) ==
    /\ EditGoto(e, j)
    /\ j.at = "writePad" => j.read = pad /\ pad' = pad
    /\ j.at \in {"writeSchedules", "install"} => j.read = schedules /\ schedules' = schedules
    /\ j.at = "writeSpenders" => j.read = spenders /\ spenders' = spenders
    /\ j.at = "install" => editJob[e].at = "reread"
    /\ editJob[e].at = "reread" => j.at = "install"
    /\ schedules' # schedules => j.at = "reread"
    /\ spenders' # spenders => j.at = "announce"

\* Where a step of a goroutine takes it, and what it leaves and makes of the documents.
LEMMA WhereTo ==
    ASSUME DocumentsInv, NEW e \in Editors, EditStep(e), docFaults' = 0
    PROVE  /\ docSetting' = docSetting /\ serverUp' = serverUp /\ docFaults = 0
           /\ \E j : Moved(e, j)
           /\ cronTable' = IF editJob[e].at = "install" THEN Planned(editJob[e].read) ELSE cronTable
           /\ editJob[e].at = "install" => schedules' = schedules
           /\ announced' = IF editJob[e].at = "announce" THEN MergeTopSpenders(spenders)
                           ELSE announced
           /\ editJob[e].at = "announce" => spenders' = spenders
<1>1. docFaults \in Nat /\ docSetting' = docSetting /\ serverUp' = serverUp
  <2>1. docFaults \in Nat
    BY DocumentsAssumption DEF DocumentsInv, DocsInv
  <2>2. docSetting' = docSetting /\ serverUp' = serverUp
    BY DEF EditStep, SoundPadSet, SoundPadClear, WritePad, SoundPadPlay, PushSoundPadPlay,
       PostSchedule, PutSchedule, DeleteSchedule, WriteSchedules, RereadSchedules, InstallCron,
       PostSpender, PutSpender, DeleteSpender, WriteSpenders, AnnounceSpenders, WriteFails
  <2> QED
    BY <2>1, <2>2
<1>2. ~ DocFault
  BY <1>1 DEF DocFault
<1>3. docFaults = 0
  <2>1. docFaults' = docFaults
    BY <1>2 DEF EditStep, SoundPadSet, SoundPadClear, WritePad, SoundPadPlay, PushSoundPadPlay,
       PostSchedule, PutSchedule, DeleteSchedule, WriteSchedules, RereadSchedules, InstallCron,
       PostSpender, PutSpender, DeleteSpender, WriteSpenders, AnnounceSpenders, WriteFails, Read
  <2> QED
    BY <2>1
<1> DEFINE Kept == /\ schedules' = schedules /\ spenders' = spenders
                   /\ cronTable' = cronTable /\ announced' = announced
<1>4. CASE SoundPadSet(e)
  <2>1. PICK slot \in Slots, sound \in Sounds :
          EditGoto(e, Then("writePad", "set", slot, sound, pad))
    BY <1>4 DEF SoundPadSet
  <2>2. editJob[e].at = "idle" /\ pad' = pad /\ Kept
    BY <1>4 DEF SoundPadSet, Asks, EditIdle, docs
  <2>3. Moved(e, Then("writePad", "set", slot, sound, pad))
    BY <2>1, <2>2 DEF Moved, Then
  <2> QED
    BY <1>1, <1>3, <2>2, <2>3
<1>5. CASE SoundPadClear(e)
  <2>1. PICK slot \in Slots : EditGoto(e, Then("writePad", "clear", slot, Empty, pad))
    BY <1>5 DEF SoundPadClear
  <2>2. editJob[e].at = "idle" /\ pad' = pad /\ Kept
    BY <1>5 DEF SoundPadClear, Asks, EditIdle, docs
  <2>3. Moved(e, Then("writePad", "clear", slot, Empty, pad))
    BY <2>1, <2>2 DEF Moved, Then
  <2> QED
    BY <1>1, <1>3, <2>2, <2>3
<1>6. CASE SoundPadPlay(e)
  <2>1. PICK slot \in Slots : EditGoto(e, Then("pushPlay", "play", slot, pad[slot], <<>>))
    BY <1>6 DEF SoundPadPlay
  <2>2. editJob[e].at = "idle" /\ Kept
    BY <1>6 DEF SoundPadPlay, Asks, EditIdle, docs
  <2>3. Moved(e, Then("pushPlay", "play", slot, pad[slot], <<>>))
    BY <2>1, <2>2 DEF Moved, Then
  <2> QED
    BY <1>1, <1>3, <2>2, <2>3
<1>7. CASE WritePad(e) \/ PushSoundPadPlay(e)
  <2>1. EditGoto(e, EditIdle) /\ editJob[e].at \in {"writePad", "pushPlay"} /\ Kept
    BY <1>7 DEF WritePad, PushSoundPadPlay, EditAt
  <2>2. Moved(e, EditIdle)
    BY <2>1 DEF Moved, EditIdle
  <2> QED
    BY <1>1, <1>3, <2>1, <2>2
<1>8. CASE PostSchedule(e)
  <2>1. /\ \E body : EditGoto(e, Then("writeSchedules", "post", entries', body, schedules))
        /\ editJob[e].at = "idle" /\ Kept
    <3>1. PICK body \in Schedule, read \in {schedules, NoSchedules} :
            /\ Read(schedules, NoSchedules, read)
            /\ EditGoto(e, Then("writeSchedules", "post", entries', body, read))
      BY <1>8 DEF PostSchedule
    <3>2. read = schedules
      BY <1>2, <3>1 DEF Read
    <3>3. editJob[e].at = "idle" /\ Kept
      BY <1>8 DEF PostSchedule, Asks, EditIdle, docs
    <3> QED
      BY <3>1, <3>2, <3>3
  <2>2. PICK body : EditGoto(e, Then("writeSchedules", "post", entries', body, schedules))
    BY <2>1
  <2>3. Moved(e, Then("writeSchedules", "post", entries', body, schedules))
    BY <2>1, <2>2 DEF Moved, Then
  <2> QED
    BY <1>1, <1>3, <2>1, <2>2, <2>3
<1>9. CASE PutSchedule(e)
  <2>1. PICK id \in DOMAIN schedules, body \in Schedule :
          EditGoto(e, Then("writeSchedules", "put", id, body, schedules))
    BY <1>9 DEF PutSchedule
  <2>2. editJob[e].at = "idle" /\ Kept
    BY <1>9 DEF PutSchedule, Asks, EditIdle, docs
  <2>3. Moved(e, Then("writeSchedules", "put", id, body, schedules))
    BY <2>1, <2>2 DEF Moved, Then
  <2> QED
    BY <1>1, <1>3, <2>2, <2>3
<1>10. CASE DeleteSchedule(e)
  <2>1. PICK id \in ScheduleID : EditGoto(e, Then("writeSchedules", "delete", id, Empty, schedules))
    BY <1>2, <1>10 DEF DeleteSchedule, Read
  <2>2. editJob[e].at = "idle" /\ Kept
    BY <1>10 DEF DeleteSchedule, Asks, EditIdle, docs
  <2>3. Moved(e, Then("writeSchedules", "delete", id, Empty, schedules))
    BY <2>1, <2>2 DEF Moved, Then
  <2> QED
    BY <1>1, <1>3, <2>2, <2>3
<1>11. CASE WriteSchedules(e)
  <2>1. /\ EditGoto(e, [EditIdle EXCEPT !.at = "reread"]) /\ editJob[e].at = "writeSchedules"
        /\ spenders' = spenders /\ cronTable' = cronTable /\ announced' = announced
    BY <1>11 DEF WriteSchedules, EditAt
  <2>2. Moved(e, [EditIdle EXCEPT !.at = "reread"])
    BY <2>1 DEF Moved, EditIdle
  <2> QED
    BY <1>1, <1>3, <2>1, <2>2
<1>12. CASE RereadSchedules(e) \/ InstallCron(e)
  <2>1. CASE RereadSchedules(e)
    <3>1. /\ EditGoto(e, Then("install", "none", 0, Empty, schedules))
          /\ editJob[e].at = "reread" /\ Kept
      BY <1>2, <2>1 DEF RereadSchedules, EditAt, docs
    <3>2. Moved(e, Then("install", "none", 0, Empty, schedules))
      BY <3>1 DEF Moved, Then
    <3> QED
      BY <1>1, <1>3, <3>1, <3>2
  <2>2. CASE InstallCron(e)
    <3>1. /\ EditGoto(e, EditIdle) /\ editJob[e].at = "install"
          /\ cronTable' = Planned(editJob[e].read)
          /\ schedules' = schedules /\ spenders' = spenders /\ announced' = announced
      BY <2>2 DEF InstallCron, EditAt, docs
    <3>2. Moved(e, EditIdle)
      BY <3>1 DEF Moved, EditIdle
    <3> QED
      BY <1>1, <1>3, <3>1, <3>2
  <2> QED
    BY <1>12, <2>1, <2>2
<1>13. CASE PostSpender(e) \/ DeleteSpender(e)
  <2>1. \E op, key, value : EditGoto(e, Then("writeSpenders", op, key, value, spenders))
    BY <1>2, <1>13 DEF PostSpender, DeleteSpender, Read
  <2>2. PICK op, key, value : EditGoto(e, Then("writeSpenders", op, key, value, spenders))
    BY <2>1
  <2>3. editJob[e].at = "idle" /\ Kept
    BY <1>13 DEF PostSpender, DeleteSpender, Asks, EditIdle, docs
  <2>4. Moved(e, Then("writeSpenders", op, key, value, spenders))
    BY <2>2, <2>3 DEF Moved, Then
  <2> QED
    BY <1>1, <1>3, <2>3, <2>4
<1>14. CASE PutSpender(e)
  <2>1. PICK key, value : EditGoto(e, Then("writeSpenders", "put", key, value, spenders))
    BY <1>14 DEF PutSpender
  <2>2. editJob[e].at = "idle" /\ Kept
    BY <1>14 DEF PutSpender, Asks, EditIdle, docs
  <2>3. Moved(e, Then("writeSpenders", "put", key, value, spenders))
    BY <2>1, <2>2 DEF Moved, Then
  <2> QED
    BY <1>1, <1>3, <2>2, <2>3
<1>15. CASE WriteSpenders(e) \/ AnnounceSpenders(e)
  <2>1. CASE WriteSpenders(e)
    <3>1. /\ EditGoto(e, [EditIdle EXCEPT !.at = "announce"]) /\ editJob[e].at = "writeSpenders"
          /\ schedules' = schedules /\ cronTable' = cronTable /\ announced' = announced
      BY <2>1 DEF WriteSpenders, EditAt
    <3>2. Moved(e, [EditIdle EXCEPT !.at = "announce"])
      BY <3>1 DEF Moved, EditIdle
    <3> QED
      BY <1>1, <1>3, <3>1, <3>2
  <2>2. CASE AnnounceSpenders(e)
    <3>1. /\ EditGoto(e, EditIdle) /\ editJob[e].at = "announce"
          /\ announced' = MergeTopSpenders(spenders) /\ cronTable' = cronTable
          /\ schedules' = schedules /\ spenders' = spenders
      BY <1>2, <2>2 DEF AnnounceSpenders, EditAt, docs
    <3>2. Moved(e, EditIdle)
      BY <3>1 DEF Moved, EditIdle
    <3> QED
      BY <1>1, <1>3, <3>1, <3>2
  <2> QED
    BY <1>15, <2>1, <2>2
<1>16. CASE WriteFails(e)
  BY <1>2, <1>16 DEF WriteFails
<1> QED
  BY <1>4, <1>5, <1>6, <1>7, <1>8, <1>9, <1>10, <1>11, <1>12, <1>13, <1>14, <1>15, <1>16
     DEF EditStep

\* Requests one at a time leave nothing behind them.
LEMMA CalmStep ==
    ASSUME DocumentsInv, CalmDocs, [DocumentsNext]_docVars
    PROVE  CalmDocs'
<1>1. CASE UNCHANGED docVars
  BY <1>1 DEF docVars, docs, CalmDocs, ReadsAreFresh, WrittenIsUsed, OneEdits, Editing
<1>2. CASE CrashServer
  <2>1. Editing' = {} /\ IsFiniteSet({})
    BY <1>2, FS_EmptySet DEF CrashServer, Editing
  <2>2. OneEdits'
    BY <1>2 DEF CrashServer, OneEdits
  <2>3. ReadsAreFresh'
    BY <1>2 DEF CrashServer, ReadsAreFresh, EditIdle
  <2>4. WrittenIsUsed'
    BY <1>2 DEF CrashServer, WrittenIsUsed
  <2> QED
    BY <2>1, <2>2, <2>3, <2>4 DEF CalmDocs
<1>3. CASE StartServer
  <2>1. Editing' = Editing /\ (OneEdits => OneEdits')
    BY <1>3 DEF StartServer, Editing, OneEdits
  <2>2. ReadsAreFresh'
    BY <1>3 DEF StartServer, ReadsAreFresh, EditIdle, DocumentsInv, JobsInv
  <2>3. docFaults' = 0 => docFaults = 0 /\ cronTable' = Planned(schedules')
    BY <1>3 DEF StartServer, DocFault, DocumentsInv, DocsInv
  <2>4. WrittenIsUsed /\ docFaults' = 0 => WrittenIsUsed'
    BY <1>3, <2>3 DEF StartServer, WrittenIsUsed
  <2> QED
    BY <1>3, <2>1, <2>2, <2>3, <2>4 DEF CalmDocs, StartServer
<1>4. ASSUME NEW e \in Editors, EditStep(e)
      PROVE  CalmDocs'
  <2>1. PICK j : EditGoto(e, j)
    BY <1>4 DEF EditStep, SoundPadSet, SoundPadClear, WritePad, SoundPadPlay, PushSoundPadPlay,
       PostSchedule, PutSchedule, DeleteSchedule, WriteSchedules, RereadSchedules, InstallCron,
       PostSpender, PutSpender, DeleteSpender, WriteSpenders, AnnounceSpenders, WriteFails
  <2>2. docSetting' = docSetting
    BY <1>4 DEF EditStep, SoundPadSet, SoundPadClear, WritePad, SoundPadPlay, PushSoundPadPlay,
       PostSchedule, PutSchedule, DeleteSchedule, WriteSchedules, RereadSchedules, InstallCron,
       PostSpender, PutSpender, DeleteSpender, WriteSpenders, AnnounceSpenders, WriteFails
  <2>3. editJob[e] = EditIdle => Cardinality(Editing) < docSetting.inFlight
    BY <1>4, RoomToBegin
  <2>4. IsFiniteSet(Editing') /\ (docSetting.inFlight = 1 => OneEdits')
    BY <2>1, <2>2, <2>3, OneMoves
  <2>5. ASSUME docSetting.inFlight = 1, docFaults' = 0
        PROVE  ReadsAreFresh' /\ WrittenIsUsed'
    <3>1. /\ serverUp' = serverUp /\ docFaults = 0
          /\ cronTable' = IF editJob[e].at = "install" THEN Planned(editJob[e].read) ELSE cronTable
          /\ editJob[e].at = "install" => schedules' = schedules
          /\ announced' = IF editJob[e].at = "announce" THEN MergeTopSpenders(spenders)
                          ELSE announced
          /\ editJob[e].at = "announce" => spenders' = spenders
      BY <1>4, <2>5, WhereTo
    <3>2. PICK k : Moved(e, k)
      BY <1>4, <2>5, WhereTo
    <3>3. /\ editJob'[e] = k
          /\ \A o \in Editors : o # e => editJob'[o] = editJob[o] /\ editJob[o] = EditIdle
      BY <2>2, <2>3, <2>5, <3>2, OneMoves DEF Moved
    <3>4. \A o \in Editors : o # e => editJob'[o].at = "idle" /\ editJob[o].at = "idle"
      BY <3>3 DEF EditIdle
    <3>5. ReadsAreFresh /\ WrittenIsUsed
      BY <2>5, <3>1 DEF CalmDocs
    <3>6. ReadsAreFresh'
      BY <3>2, <3>3, <3>4 DEF ReadsAreFresh, Moved
    <3>7. ASSUME serverUp', \A o \in Editors : editJob'[o].at \notin {"reread", "install"}
          PROVE  cronTable' = Planned(schedules')
      <4>1. k.at \notin {"reread", "install"}
        BY <3>3, <3>7
      <4>2. schedules' = schedules /\ editJob[e].at # "reread"
        BY <3>2, <4>1 DEF Moved
      <4>3. CASE editJob[e].at = "install"
        <5>1. editJob[e].read = schedules
          BY <3>5, <4>3 DEF ReadsAreFresh
        <5> QED
          BY <3>1, <4>2, <4>3, <5>1
      <4>4. CASE editJob[e].at # "install"
        <5>1. \A o \in Editors : editJob[o].at \notin {"reread", "install"}
          BY <3>4, <4>2, <4>4
        <5>2. cronTable = Planned(schedules)
          BY <3>1, <3>5, <3>7, <5>1 DEF WrittenIsUsed
        <5> QED
          BY <3>1, <4>2, <4>4, <5>2
      <4> QED
        BY <4>3, <4>4
    <3>8. ASSUME "crash" \notin docSetting.traffic, \A o \in Editors : editJob'[o].at # "announce"
          PROVE  announced' = MergeTopSpenders(spenders') \/ (announced' = <<>> /\ spenders' = <<>>)
      <4>1. k.at # "announce"
        BY <3>3, <3>8
      <4>2. spenders' = spenders
        BY <3>2, <4>1 DEF Moved
      <4>3. CASE editJob[e].at = "announce"
        BY <3>1, <4>2, <4>3
      <4>4. CASE editJob[e].at # "announce"
        <5>1. \A o \in Editors : editJob[o].at # "announce"
          BY <3>4, <4>4
        <5>2. announced = MergeTopSpenders(spenders) \/ (announced = <<>> /\ spenders = <<>>)
          BY <3>5, <3>8, <5>1 DEF WrittenIsUsed
        <5> QED
          BY <3>1, <4>2, <4>4, <5>2
      <4> QED
        BY <4>3, <4>4
    <3>9. WrittenIsUsed'
      BY <2>2, <3>7, <3>8 DEF WrittenIsUsed
    <3> QED
      BY <3>6, <3>9
  <2> QED
    BY <2>2, <2>4, <2>5 DEF CalmDocs
<1>5. DocumentsNext => CrashServer \/ StartServer \/ \E e \in Editors : EditStep(e)
  BY DEF DocumentsNext, EditStep
<1> QED
  BY <1>1, <1>2, <1>3, <1>4, <1>5

\* Nothing is on its way when the documents start.
LEMMA CalmStarts == DocumentsInit => CalmDocs
<1> SUFFICES ASSUME DocumentsInit PROVE CalmDocs
  OBVIOUS
<1>1. \A e \in Editors : editJob[e] = EditIdle /\ editJob[e].at = "idle"
  BY DEF DocumentsInit, EditIdle
<1>2. IsFiniteSet(Editing)
  <2>1. Editing = {}
    BY <1>1 DEF Editing
  <2> QED
    BY <2>1, FS_EmptySet
<1>3. OneEdits
  BY <1>1 DEF OneEdits
<1>4. ReadsAreFresh
  BY <1>1 DEF ReadsAreFresh
<1>5. WrittenIsUsed
  BY DEF DocumentsInit, WrittenIsUsed
<1> QED
  BY <1>2, <1>3, <1>4, <1>5 DEF CalmDocs

\* With one request at a time and no error, no goroutine writes over what another wrote.
THEOREM CalmAlways == DocumentsSpec => []CalmDocs
<1>1. DocumentsInit => CalmDocs
  BY CalmStarts
<1>2. DocumentsInv /\ CalmDocs /\ [DocumentsNext]_docVars => CalmDocs'
  BY CalmStep
<1>3. DocumentsSpec => []DocumentsInv
  BY DocumentsInvariant
<1> QED
  BY <1>1, <1>2, <1>3, PTL DEF DocumentsSpec

\* Cron plays the schedules that are stored, enabled and have an expression it accepts,
\* also after a crash between the write and the reload: the start reads them again.
THEOREM CronPlaysTheSchedules == DocumentsSpec => []CronMatchesSchedules
<1>1. CalmDocs => CronMatchesSchedules
  <2> SUFFICES ASSUME CalmDocs, serverUp, Quiet
               PROVE  cronTable = Planned(schedules)
    BY DEF CronMatchesSchedules
  <2>1. \A e \in Editors : editJob[e].at = "idle"
    BY DEF Quiet, Editing, EditIdle
  <2> QED
    BY <2>1 DEF CalmDocs, Quiet, WrittenIsUsed
<1> QED
  BY <1>1, CalmAlways, PTL

\* What is announced adds up to what is stored, each name once and with the last of its
\* dates, as long as the server does not die between the write and the announcement.
THEOREM TotalsAnnouncedAlways ==
    DocumentsSpec => []("crash" \notin docSetting.traffic => TotalsAnnounced)
<1>1. DocumentsInv /\ CalmDocs => ("crash" \notin docSetting.traffic => TotalsAnnounced)
  <2> SUFFICES ASSUME DocumentsInv, CalmDocs, "crash" \notin docSetting.traffic, Quiet
               PROVE  /\ \A i, j \in DOMAIN announced :
                           announced[i].of.who = announced[j].of.who => i = j
                      /\ Amount(announced, DOMAIN announced) = Amount(spenders, DOMAIN spenders)
                      /\ \A i \in DOMAIN spenders : \E j \in DOMAIN announced :
                           /\ announced[j].of.who = spenders[i].of.who
                           /\ announced[j].of.date >= spenders[i].of.date
    BY DEF TotalsAnnounced
  <2>1. \A e \in Editors : editJob[e].at = "idle"
    BY DEF Quiet, Editing, EditIdle
  <2>2. announced = MergeTopSpenders(spenders) \/ (announced = <<>> /\ spenders = <<>>)
    BY <2>1 DEF CalmDocs, Quiet, WrittenIsUsed
  <2>3. CASE announced = MergeTopSpenders(spenders)
    <3>1. spenders \in Seq(SpenderEntry)
      BY DEF DocumentsInv, DocsInv, SpenderList
    <3> QED
      BY <2>3, <3>1, MergeAddsUp
  <2>4. CASE announced = <<>> /\ spenders = <<>>
    <3>1. DOMAIN announced = {} /\ DOMAIN spenders = {}
      BY <2>4
    <3> QED
      BY <2>4, <3>1
  <2> QED
    BY <2>2, <2>3, <2>4
<1> QED
  BY <1>1, DocumentsInvariant, CalmAlways, PTL

-----------------------------------------------------------------------------

\* A change of at most one entry.
LEMMA OneEntry ==
    ASSUME NEW before, NEW after, NEW key,
           \A entry \in before \ after : entry[1] = key,
           \A entry \in after \ before : entry[1] = key
    PROVE  DifferInOne(before, after)
<1> DEFINE keys == {entry[1] : entry \in (before \ after) \cup (after \ before)}
<1>1. keys \in SUBSET {key}
  OBVIOUS
<1> HIDE DEF keys
<1>2. IsFiniteSet({key}) /\ Cardinality({key}) = 1
  BY FS_Singleton
<1>3. IsFiniteSet(keys) /\ Cardinality(keys) <= 1
  BY <1>1, <1>2, FS_Subset
<1> QED
  BY <1>3 DEF DifferInOne, keys

\* No change.
LEMMA NoEntry == \A entries1 : DifferInOne(entries1, entries1)
<1> TAKE entries1
<1>1. \A entry \in entries1 \ entries1 : entry[1] = 0
  OBVIOUS
<1> QED
  BY <1>1, OneEntry

\* A goroutine leaves the place it writes at.
LEMMA Leaves ==
    ASSUME DocumentsInv, NEW e \in Editors, NEW j, EditGoto(e, j), j.at # editJob[e].at
    PROVE  editJob' # editJob
<1>1. editJob'[e] = j
  BY DEF EditGoto, DocumentsInv, JobsInv
<1> QED
  BY <1>1

\* The parts of OthersAreKept.
PadKept ==
    \/ DifferInOne(PadEntries(pad), PadEntries(pad'))
    \/ \E e \in Editors : Overwrites(e, "writePad", pad)
SchedulesKept ==
    \/ DifferInOne(ScheduleEntries(schedules), ScheduleEntries(schedules'))
    \/ DOMAIN schedules = {}
    \/ \E e \in Editors : Overwrites(e, "writeSchedules", schedules)
SpendersKept ==
    \/ DifferInOne(SpenderEntries(spenders), SpenderEntries(spenders'))
    \/ \E e \in Editors : Overwrites(e, "writeSpenders", spenders)

\* A document that is not written is kept.
LEMMA UnwrittenIsKept ==
    /\ pad' = pad => PadKept
    /\ schedules' = schedules => SchedulesKept
    /\ spenders' = spenders => SpendersKept
BY NoEntry DEF PadKept, SchedulesKept, SpendersKept

\* A goroutine writes over a document that has changed since.
LEMMA WritesOver ==
    ASSUME DocumentsInv, docSetting.inFlight # 1, NEW e \in Editors, NEW j, EditGoto(e, j),
           NEW point, editJob[e].at = point, j.at # point,
           NEW document, editJob[e].read # document
    PROVE  Overwrites(e, point, document)
<1>1. editJob'[e] = j
  BY DEF EditGoto, DocumentsInv, JobsInv
<1>2. editJob' # editJob
  BY <1>1
<1> QED
  BY <1>2 DEF Overwrites, EditAt

\* A sound is put in one slot.
LEMMA PadWriteKeeps ==
    ASSUME DocumentsInv, CalmDocs, docFaults = 0, NEW e \in Editors, WritePad(e)
    PROVE  PadKept
<1>1. /\ editJob[e].at = "writePad" /\ EditGoto(e, EditIdle) /\ EditIdle.at = "idle"
      /\ pad' = [editJob[e].read EXCEPT ![editJob[e].key] = editJob[e].value]
  BY DEF WritePad, EditAt, EditIdle
<1> HIDE DEF EditIdle
<1>2. CASE editJob[e].read = pad
  <2>1. /\ DOMAIN pad' = DOMAIN pad
        /\ \A s \in DOMAIN pad : s # editJob[e].key => pad'[s] = pad[s]
    BY <1>1, <1>2
  <2>2. \A entry \in (PadEntries(pad) \ PadEntries(pad')) \cup (PadEntries(pad') \ PadEntries(pad)) :
          entry[1] = editJob[e].key
    BY <2>1 DEF PadEntries
  <2> DEFINE before == PadEntries(pad)
             after == PadEntries(pad')
             entry1 == editJob[e].key
  <2>3. /\ \A entry \in before \ after : entry[1] = entry1
        /\ \A entry \in after \ before : entry[1] = entry1
    BY <2>2
  <2> HIDE DEF before, after, entry1
  <2>4. DifferInOne(before, after)
    BY <2>3, OneEntry
  <2> QED
    BY <2>4 DEF before, after, PadKept
<1>3. CASE editJob[e].read # pad
  <2>1. docSetting.inFlight # 1
    BY <1>1, <1>3 DEF CalmDocs, ReadsAreFresh
  <2>2. Overwrites(e, "writePad", pad)
    BY <1>1, <1>3, <2>1, WritesOver
  <2> QED
    BY <2>2 DEF PadKept
<1> QED
  BY <1>2, <1>3

\* A schedule is put, added or taken out.
LEMMA ScheduleWriteKeeps ==
    ASSUME DocumentsInv, CalmDocs, docFaults = 0, NEW e \in Editors, WriteSchedules(e)
    PROVE  SchedulesKept
<1> DEFINE next == [EditIdle EXCEPT !.at = "reread"]
           key == editJob[e].key
           others == DOMAIN schedules \ {key}
           ids == IF editJob[e].op = "delete" THEN others ELSE others \cup {key}
<1>1. editJob[e].at = "writeSchedules" /\ EditGoto(e, next) /\ next.at = "reread"
  BY DEF WriteSchedules, EditAt, EditIdle
<1> HIDE DEF next
<1>2. CASE editJob[e].read = schedules
  <2>1. schedules' = [id \in ids |-> IF id = key THEN editJob[e].value ELSE schedules[id]]
    BY <1>2 DEF WriteSchedules
  <2>2. /\ \A id \in DOMAIN schedules : id # key => id \in DOMAIN schedules' /\ schedules'[id] = schedules[id]
        /\ \A id \in DOMAIN schedules' : id # key => id \in DOMAIN schedules
    BY <2>1
  <2> HIDE DEF key
  <2>3. \A entry \in (ScheduleEntries(schedules) \ ScheduleEntries(schedules'))
                     \cup (ScheduleEntries(schedules') \ ScheduleEntries(schedules)) :
          entry[1] = key
    BY <2>2 DEF ScheduleEntries
  <2> DEFINE before == ScheduleEntries(schedules)
             after == ScheduleEntries(schedules')
             entry1 == editJob[e].key
  <2>4. /\ \A entry \in before \ after : entry[1] = entry1
        /\ \A entry \in after \ before : entry[1] = entry1
    BY <2>3 DEF key
  <2> HIDE DEF before, after, entry1
  <2>5. DifferInOne(before, after)
    BY <2>4, OneEntry
  <2> QED
    BY <2>5 DEF before, after, SchedulesKept
<1>3. CASE editJob[e].read # schedules
  <2>1. docSetting.inFlight # 1
    BY <1>1, <1>3 DEF CalmDocs, ReadsAreFresh
  <2>2. Overwrites(e, "writeSchedules", schedules)
    BY <1>1, <1>3, <2>1, WritesOver
  <2> QED
    BY <2>2 DEF SchedulesKept
<1> QED
  BY <1>2, <1>3

\* A spender is put, added or taken out.
LEMMA SpenderWriteKeeps ==
    ASSUME DocumentsInv, CalmDocs, docFaults = 0, NEW e \in Editors, WriteSpenders(e)
    PROVE  SpendersKept
<1> DEFINE next == [EditIdle EXCEPT !.at = "announce"]
<1>1. editJob[e].at = "writeSpenders" /\ EditGoto(e, next) /\ next.at = "announce"
  BY DEF WriteSpenders, EditAt, EditIdle
<1> HIDE DEF next
<1>2. CASE editJob[e].read = spenders
  <2>1. Holds(editJob[e], entries) /\ entries \in Nat
    BY DocumentsAssumption DEF DocumentsInv, JobsInv, DocsInv
  <2>2. \A entry \in (SpenderEntries(spenders) \ SpenderEntries(spenders'))
                     \cup (SpenderEntries(spenders') \ SpenderEntries(spenders)) :
          entry[1] = editJob[e].key
    BY <1>1, <1>2, <2>1, WrittenList DEF WriteSpenders
  <2> DEFINE before == SpenderEntries(spenders)
             after == SpenderEntries(spenders')
             entry1 == editJob[e].key
  <2>3. /\ \A entry \in before \ after : entry[1] = entry1
        /\ \A entry \in after \ before : entry[1] = entry1
    BY <2>2
  <2> HIDE DEF before, after, entry1
  <2>4. DifferInOne(before, after)
    BY <2>3, OneEntry
  <2> QED
    BY <2>4 DEF before, after, SpendersKept
<1>3. CASE editJob[e].read # spenders
  <2>1. docSetting.inFlight # 1
    BY <1>1, <1>3 DEF CalmDocs, ReadsAreFresh
  <2>2. Overwrites(e, "writeSpenders", spenders)
    BY <1>1, <1>3, <2>1, WritesOver
  <2> QED
    BY <2>2 DEF SpendersKept
<1> QED
  BY <1>2, <1>3

\* A document that is read, changed in one place and written back is changed in one place
\* only, unless it was changed between, and with one request at a time it was not.
THEOREM OthersAreKeptAlways == DocumentsSpec => OthersAreKept
<1>1. DocumentsInv /\ CalmDocs /\ [DocumentsNext]_docVars =>
        (docFaults = 0 => PadKept /\ SchedulesKept /\ SpendersKept)
  <2> SUFFICES ASSUME DocumentsInv, CalmDocs, [DocumentsNext]_docVars, docFaults = 0
               PROVE  PadKept /\ SchedulesKept /\ SpendersKept
    OBVIOUS
  <2>1. CASE pad' = pad /\ schedules' = schedules /\ spenders' = spenders
    BY <2>1, UnwrittenIsKept
  <2>2. CASE StartServer
    <3>1. pad' = pad /\ spenders' = spenders
          /\ (DOMAIN schedules = {} \/ schedules' = schedules)
      BY <2>2 DEF StartServer
    <3> QED
      BY <3>1, UnwrittenIsKept DEF SchedulesKept
  <2>3. ASSUME NEW e \in Editors, WritePad(e)
        PROVE  PadKept /\ SchedulesKept /\ SpendersKept
    BY <2>3, PadWriteKeeps, UnwrittenIsKept DEF WritePad
  <2>4. ASSUME NEW e \in Editors, WriteSchedules(e)
        PROVE  PadKept /\ SchedulesKept /\ SpendersKept
    BY <2>4, ScheduleWriteKeeps, UnwrittenIsKept DEF WriteSchedules
  <2>5. ASSUME NEW e \in Editors, WriteSpenders(e)
        PROVE  PadKept /\ SchedulesKept /\ SpendersKept
    BY <2>5, SpenderWriteKeeps, UnwrittenIsKept DEF WriteSpenders
  <2>6. \/ pad' = pad /\ schedules' = schedules /\ spenders' = spenders
        \/ StartServer
        \/ \E e \in Editors : WritePad(e) \/ WriteSchedules(e) \/ WriteSpenders(e)
    BY DEF DocumentsNext, docVars, docs, SoundPadSet, SoundPadClear, SoundPadPlay,
       PushSoundPadPlay, PostSchedule, PutSchedule, DeleteSchedule, RereadSchedules, InstallCron,
       PostSpender, PutSpender, DeleteSpender, AnnounceSpenders, WriteFails, CrashServer
  <2> QED
    BY <2>1, <2>2, <2>3, <2>4, <2>5, <2>6
<1>2. DocumentsSpec => [](DocumentsInv /\ CalmDocs)
  BY DocumentsInvariant, CalmAlways, PTL
<1>3. DocumentsSpec => [][docFaults = 0 => PadKept /\ SchedulesKept /\ SpendersKept]_docVars
  BY <1>1, <1>2, PTL DEF DocumentsSpec
<1> QED
  BY <1>3, PTL DEF OthersAreKept, PadKept, SchedulesKept, SpendersKept

-----------------------------------------------------------------------------
(* The parts together.                                                     *)

\* What the server does beside the queue and the office is, in each of the four parts, what
\* that part does alone.
THEOREM ServicesAreTheirParts ==
    ServicesSpec => ChatSpec /\ DocumentsSpec /\ LifecycleSpec /\ DeliverySpec
<1>1. ServicesInit => ChatInit /\ DocumentsInit /\ LifecycleInit /\ DeliveryInit
  BY DEF ServicesInit
<1>2. ASSUME [ServicesNext]_servicesVars
      PROVE  /\ [ChatNext]_chatVars /\ [DocumentsNext]_docVars
             /\ [LifecycleNext]_lifeVars /\ [DeliveryNext]_deliveryVars
  BY <1>2 DEF ServicesNext, servicesVars
<1> QED
  BY <1>1, <1>2, PTL DEF ServicesSpec, ChatSpec, DocumentsSpec, LifecycleSpec, DeliverySpec

\* The chat, the pins, the plays and the channel never outgrow their bounds, no two spenders
\* have one id, and every field has its type.
THEOREM ServicesTypeCorrect == ServicesSpec => []ServicesTypeOK
<1>1. ChatTyped => ChatTypeOK
  BY DEF ChatTyped
<1>2. LifeInv => LifecycleTypeOK
  BY DEF LifeInv
<1>3. ServicesTypeOK <=> ChatTypeOK /\ DocumentsTypeOK /\ LifecycleTypeOK /\ DeliveryTypeOK
  BY DEF ServicesTypeOK
<1> QED
  BY <1>1, <1>2, <1>3, ServicesAreTheirParts, ChatTypeCorrect, DocumentsInvariant, DocumentsTyped,
     LifecycleInvariant, DeliveryTypeCorrect, PTL
=============================================================================
