--------------------------- MODULE ListingsProofs ---------------------------
(***************************************************************************)
(* Proofs about Listings, for any calls, whatever they ask, and lists,     *)
(* limits and pages of any size: a list that stands still is shown as it   *)
(* is, rows that come hide none, and what is told as removed was there.    *)
(***************************************************************************)
EXTENDS Listings, SequenceTheorems, WellFoundedInduction, TLAPS

(* Of naturals one is the least.                                            *)
LEMMA Least == ASSUME NEW S \in SUBSET Nat, S # {}
               PROVE  Min(S) \in S /\ \A y \in S : Min(S) <= y
<1>1. \E x \in S : \A y \in S : ~(<<y, x>> \in OpToRel(<, Nat))
  BY NatLessThanWellFounded, WFMin
<1>2. PICK x \in S : \A y \in S : ~(<<y, x>> \in OpToRel(<, Nat))
  BY <1>1
<1>3. ASSUME NEW y \in S PROVE x <= y
  <2>1. <<y, x>> \in Nat \X Nat
    OBVIOUS
  <2>2. ~(y < x)
    BY <1>2, <2>1 DEF OpToRel
  <2> QED
    BY <2>2
<1> QED
  BY <1>3 DEF Min

(* The least and the greatest of two numbers.                               *)
LEMMA OfTwo ==
    ASSUME NEW a \in Int, NEW b \in Int
    PROVE  /\ Min({a, b}) = IF a <= b THEN a ELSE b
           /\ Max({a, b}) = IF a <= b THEN b ELSE a
<1>1. ASSUME NEW x \in {a, b}, NEW y \in {a, b}, x <= a, x <= b, y <= a, y <= b PROVE x = y
  BY <1>1
<1>2. ASSUME NEW x \in {a, b}, NEW y \in {a, b}, x >= a, x >= b, y >= a, y >= b PROVE x = y
  BY <1>2
<1>3. \E x \in {a, b} : x <= a /\ x <= b
  OBVIOUS
<1>4. \E x \in {a, b} : x >= a /\ x >= b
  OBVIOUS
<1>5. Min({a, b}) \in {a, b} /\ Min({a, b}) <= a /\ Min({a, b}) <= b
  BY <1>3 DEF Min
<1>6. Max({a, b}) \in {a, b} /\ Max({a, b}) >= a /\ Max({a, b}) >= b
  BY <1>4 DEF Max
<1> QED
  BY <1>5, <1>6

(* What the limit and the offset of a walk come to.                         *)
LEMMA Settled ==
    ASSUME NEW c \in Call, NEW rq \in Request[c], rq.tool # "remove"
    PROVE  Limit(rq) \in Nat \ {0} /\ From(rq) \in Nat
<1>1. rq.limit \in Int /\ rq.offset \in Int
  BY ListingsAssumption
<1>2. DefaultLimit \in Nat \ {0} /\ MaxLimit \in Nat \ {0}
  BY ListingsAssumption
<1>3. Max({rq.offset, 0}) = IF rq.offset <= 0 THEN 0 ELSE rq.offset
  <2>1. \A a \in Int : Max({a, 0}) = IF a <= 0 THEN 0 ELSE a
    BY OfTwo
  <2> QED
    BY <1>1, <2>1
<1> DEFINE asked == IF rq.limit <= 0 THEN DefaultLimit ELSE rq.limit
<1>4. asked \in Nat \ {0}
  BY <1>1, <1>2
<1>5. Limit(rq) = Min({asked, MaxLimit})
  BY DEF Limit
<1> HIDE DEF asked
<1>6. Limit(rq) = IF asked <= MaxLimit THEN asked ELSE MaxLimit
  BY <1>2, <1>4, <1>5, OfTwo
<1> QED
  BY <1>1, <1>2, <1>3, <1>4, <1>6 DEF From

(* t is what a cut of s is to be.                                            *)
CutLen(n, from, limit) == IF n <= from THEN 0 ELSE IF from + limit <= n THEN limit ELSE n - from
IsCut(t, s, from, limit) ==
    /\ t \in Seq(Row)
    /\ Len(t) = CutLen(Len(s), from, limit)
    /\ \A i \in 1 .. Len(t) : t[i] = s[from + i]

(* A cut of a sequence is what its length and its elements say.             *)
LEMMA CutIs ==
    ASSUME NEW s \in Seq(Row), NEW from \in Nat, NEW limit \in Nat
    PROVE  IsCut(Cut(s, from, limit), s, from, limit)
<1> DEFINE to == Min({from + limit, Len(s)})
<1>1. Len(s) \in Nat /\ to = (IF from + limit <= Len(s) THEN from + limit ELSE Len(s))
  BY LenProperties, OfTwo
<1> HIDE DEF to
<1>2. to \in Nat /\ \A i \in from + 1 .. to : s[i] \in Row
  <2>1. to \in Nat /\ to <= Len(s)
    BY <1>1
  <2>2. ASSUME NEW i \in from + 1 .. to PROVE s[i] \in Row
    <3>1. i \in 1 .. Len(s)
      BY <1>1, <2>1
    <3> QED
      BY <3>1, ElementOfSeq
  <2> QED
    BY <2>1, <2>2
<1>3. /\ SubSeq(s, from + 1, to) \in Seq(Row)
      /\ Len(SubSeq(s, from + 1, to)) = IF from + 1 <= to THEN to - (from + 1) + 1 ELSE 0
      /\ \A i \in 1 .. to - (from + 1) + 1 : SubSeq(s, from + 1, to)[i] = s[from + 1 + i - 1]
  BY <1>2, SubSeqProperties
<1>4. Cut(s, from, limit) = SubSeq(s, from + 1, to)
  BY DEF Cut, to
<1> DEFINE t == Cut(s, from, limit)
<1>5. /\ t \in Seq(Row)
      /\ Len(t) = IF from + 1 <= to THEN to - (from + 1) + 1 ELSE 0
      /\ \A i \in 1 .. to - (from + 1) + 1 : t[i] = s[from + 1 + i - 1]
  BY <1>3, <1>4
<1> HIDE DEF t
<1>6. Len(t) = CutLen(Len(s), from, limit)
  BY <1>1, <1>5 DEF CutLen
<1>7. ASSUME NEW i \in 1 .. Len(t) PROVE t[i] = s[from + i]
  <2>1. i \in 1 .. to - (from + 1) + 1 /\ from + 1 + i - 1 = from + i
    BY <1>2, <1>5
  <2> QED
    BY <1>5, <2>1
<1>8. IsCut(t, s, from, limit)
  BY <1>5, <1>6, <1>7 DEF IsCut
<1> QED
  BY <1>8 DEF t

(* Nothing else is: two cuts of the same rows are the same.                 *)
LEMMA CutThat ==
    ASSUME NEW s \in Seq(Row), NEW t, NEW from \in Nat, NEW limit \in Nat, IsCut(t, s, from, limit)
    PROVE  t = Cut(s, from, limit)
<1>1. IsCut(Cut(s, from, limit), s, from, limit)
  BY CutIs
<1>2. t \in Seq(Row) /\ Len(t) = CutLen(Len(s), from, limit) /\ \A i \in 1 .. Len(t) : t[i] = s[from + i]
  BY DEF IsCut
<1> DEFINE u == Cut(s, from, limit)
<1> HIDE DEF u
<1>3. u \in Seq(Row) /\ Len(u) = CutLen(Len(s), from, limit) /\ \A i \in 1 .. Len(u) : u[i] = s[from + i]
  BY <1>1 DEF IsCut, u
<1>4. t = u
  BY <1>2, <1>3, SeqEqual
<1> QED
  BY <1>4 DEF u

(* A page is a cut of the list.                                             *)
LEMMA FetchIsCut ==
    ASSUME NEW number \in Nat \ {0}, NEW size \in Nat
    PROVE  /\ (number - 1) * size \in Nat
           /\ Fetch(number, size) = Cut(list, (number - 1) * size, size)
<1>1. (number - 1) * size \in Nat /\ (number - 1) * size + size = number * size
  OBVIOUS
<1> QED
  BY <1>1 DEF Fetch, Cut

(* u is what is to be kept of the rows s: those before the first that is    *)
(* older.                                                                   *)
UntilOlder(u, rq, s) ==
    /\ u \in Seq(Row)
    /\ Len(u) <= Len(s)
    /\ \A i \in 1 .. Len(u) : u[i] = s[i] /\ (rq.tool = "recent" => s[i] >= rq.since)
    /\ Len(u) = Len(s) \/ (rq.tool = "recent" /\ s[Len(u) + 1] < rq.since)

(* Newer keeps just that, and all of it when no row is older.               *)
LEMMA NewerIs ==
    ASSUME NEW rq, NEW s \in Seq(Row), rq.tool = "recent" => rq.since \in Int
    PROVE  /\ UntilOlder(Newer(rq, s), rq, s)
           /\ Older(rq, s) = {} <=> Len(Newer(rq, s)) = Len(s)
<1> DEFINE S == Older(rq, s) \cup {Len(s) + 1}
           m == Min(S)
<1>1. Len(s) \in Nat /\ DOMAIN s = 1 .. Len(s) /\ \A i \in 1 .. Len(s) : s[i] \in Row
  BY LenProperties, ElementOfSeq
<1>2. S \in SUBSET (1 .. Len(s) + 1) /\ S # {}
  BY <1>1 DEF Older
<1>3. m \in S /\ \A y \in S : m <= y
  <2>1. S \in SUBSET Nat
    BY <1>1, <1>2
  <2> HIDE DEF S
  <2> QED
    BY <1>2, <2>1, Least
<1> HIDE DEF m
<1>4. m \in 1 .. Len(s) + 1
  BY <1>2, <1>3
<1>5. \A i \in 1 .. m - 1 : s[i] \in Row
  BY <1>1, <1>4
<1>6. /\ SubSeq(s, 1, m - 1) \in Seq(Row)
      /\ Len(SubSeq(s, 1, m - 1)) = m - 1
      /\ \A i \in 1 .. m - 1 : SubSeq(s, 1, m - 1)[i] = s[i]
  BY <1>1, <1>4, <1>5, SubSeqProperties
<1>7. Newer(rq, s) = SubSeq(s, 1, m - 1)
  BY DEF Newer, m
<1>8. \A i \in 1 .. m - 1 : rq.tool = "recent" => s[i] >= rq.since
  BY <1>1, <1>3, <1>4 DEF Older, Row
<1>9. IF Older(rq, s) = {} THEN m = Len(s) + 1
      ELSE m \in Older(rq, s) /\ m <= Len(s) /\ rq.tool = "recent" /\ s[m] < rq.since
  <2>1. CASE Older(rq, s) = {}
    BY <1>1, <1>3, <2>1
  <2>2. CASE Older(rq, s) # {}
    <3>1. PICK x \in Older(rq, s) : TRUE
      BY <2>2
    <3>2. x \in 1 .. Len(s) /\ m <= x
      BY <1>1, <1>3, <3>1 DEF Older
    <3>3. m \in Older(rq, s)
      BY <1>1, <1>3, <1>4, <3>2
    <3> QED
      BY <1>1, <2>2, <3>3 DEF Older
  <2> QED
    BY <2>1, <2>2
<1> DEFINE u == SubSeq(s, 1, m - 1)
<1>10. u \in Seq(Row) /\ Len(u) = m - 1 /\ \A i \in 1 .. Len(u) : u[i] = s[i]
  BY <1>6
<1> HIDE DEF u
<1>11. Len(u) <= Len(s) /\ Len(u) + 1 = m /\ (Len(u) = Len(s) <=> m = Len(s) + 1)
  BY <1>1, <1>4, <1>10
<1>12. \A i \in 1 .. Len(u) : u[i] = s[i] /\ (rq.tool = "recent" => s[i] >= rq.since)
  BY <1>8, <1>10
<1>13. UntilOlder(u, rq, s)
  BY <1>9, <1>10, <1>11, <1>12 DEF UntilOlder
<1>14. Older(rq, s) = {} <=> Len(u) = Len(s)
  BY <1>1, <1>4, <1>9, <1>11
<1> QED
  BY <1>7, <1>13, <1>14 DEF u

(* The elements of a sequence, by their places.                             *)
LEMMA Elements ==
    ASSUME NEW S, NEW s \in Seq(S)
    PROVE  \A x : x \in ToSet(s) <=> \E i \in 1 .. Len(s) : s[i] = x
BY LenProperties DEF ToSet

(* The elements of two sequences, one after the other.                      *)
LEMMA Together ==
    ASSUME NEW S, NEW s \in Seq(S), NEW t \in Seq(S)
    PROVE  \A x : x \in ToSet(s \o t) <=> x \in ToSet(s) \/ x \in ToSet(t)
<1>1. /\ Len(s) \in Nat /\ Len(t) \in Nat /\ s \o t \in Seq(S) /\ Len(s \o t) = Len(s) + Len(t)
      /\ \A i \in 1 .. Len(s) + Len(t) : (s \o t)[i] = IF i <= Len(s) THEN s[i] ELSE t[i - Len(s)]
  BY ConcatProperties, LenProperties
<1> DEFINE u == s \o t
<1> HIDE DEF u
<1>2. /\ u \in Seq(S) /\ Len(u) = Len(s) + Len(t)
      /\ \A i \in 1 .. Len(s) + Len(t) : u[i] = IF i <= Len(s) THEN s[i] ELSE t[i - Len(s)]
  BY <1>1 DEF u
<1>3. ASSUME NEW i \in 1 .. Len(u) PROVE u[i] \in ToSet(s) \/ u[i] \in ToSet(t)
  <2>1. CASE i <= Len(s)
    <3>1. i \in 1 .. Len(s) /\ u[i] = s[i]
      BY <1>1, <1>2, <2>1
    <3> QED
      BY <3>1, Elements
  <2>2. CASE ~(i <= Len(s))
    <3>1. i - Len(s) \in 1 .. Len(t) /\ u[i] = t[i - Len(s)]
      BY <1>1, <1>2, <2>2
    <3> QED
      BY <3>1, Elements
  <2> QED
    BY <2>1, <2>2
<1>4. ASSUME NEW i \in 1 .. Len(s) PROVE s[i] \in ToSet(u)
  <2>1. i \in 1 .. Len(u) /\ u[i] = s[i]
    BY <1>1, <1>2
  <2> QED
    BY <1>2, <2>1, Elements
<1>5. ASSUME NEW i \in 1 .. Len(t) PROVE t[i] \in ToSet(u)
  <2>1. i + Len(s) \in 1 .. Len(u) /\ ~(i + Len(s) <= Len(s)) /\ (i + Len(s)) - Len(s) = i
    BY <1>1, <1>2
  <2>2. u[i + Len(s)] = t[i]
    BY <1>2, <2>1
  <2> QED
    BY <1>2, <2>1, <2>2, Elements
<1>6. \A x : x \in ToSet(u) <=> x \in ToSet(s) \/ x \in ToSet(t)
  <2>1. /\ \A x : x \in ToSet(u) <=> \E i \in 1 .. Len(u) : u[i] = x
        /\ \A x : x \in ToSet(s) <=> \E i \in 1 .. Len(s) : s[i] = x
        /\ \A x : x \in ToSet(t) <=> \E i \in 1 .. Len(t) : t[i] = x
    BY <1>2, Elements
  <2>2. ASSUME NEW x \in ToSet(u) PROVE x \in ToSet(s) \/ x \in ToSet(t)
    BY <1>3, <2>1
  <2>3. ASSUME NEW x \in ToSet(s) PROVE x \in ToSet(u)
    BY <1>4, <2>1
  <2>4. ASSUME NEW x \in ToSet(t) PROVE x \in ToSet(u)
    BY <1>5, <2>1
  <2> QED
    BY <2>2, <2>3, <2>4
<1> QED
  BY <1>6 DEF u

(* A row is a number.                                                      *)
LEMMA RowsAre == ASSUME NEW s \in Seq(Row) PROVE \A k \in 1 .. Len(s) : s[k] \in Row /\ s[k] \in Int
<1>1. \A k \in 1 .. Len(s) : s[k] \in Row
  BY ElementOfSeq
<1>2. \A x \in Row : x \in Int
  BY ListingsAssumption DEF Row
<1> QED
  BY <1>1, <1>2

(* Newest first: a row is once in its list.                                 *)
Descending(s) == \A i, j \in 1 .. Len(s) : i < j => s[i] > s[j]

(* Removing a row from such a list.                                         *)
LEMMA Removed ==
    ASSUME NEW s \in Seq(Row), Descending(s), NEW e \in Int
    PROVE  /\ RemoveFirst(s, e) \in Seq(Row)
           /\ Descending(RemoveFirst(s, e))
           /\ ToSet(RemoveFirst(s, e)) = ToSet(s) \ {e}
           /\ e \notin ToSet(s) => RemoveFirst(s, e) = s
<1>1. Len(s) \in Nat /\ DOMAIN s = 1 .. Len(s) /\ \A i \in 1 .. Len(s) : s[i] \in Row /\ s[i] \in Int
  BY LenProperties, RowsAre
<1>2. CASE ~\E i \in 1 .. Len(s) : s[i] = e
  <2>1. RemoveFirst(s, e) = s
    BY <1>2 DEF RemoveFirst
  <2>2. e \notin ToSet(s)
    BY <1>1, <1>2, Elements
  <2> QED
    BY <2>1, <2>2
<1>3. CASE \E i \in 1 .. Len(s) : s[i] = e
  <2> DEFINE I == {i \in 1 .. Len(s) : s[i] = e}
             k == Min(I)
             a == SubSeq(s, 1, k - 1)
             b == SubSeq(s, k + 1, Len(s))
  <2>1. I \in SUBSET Nat /\ I # {}
    BY <1>1, <1>3
  <2>2. k \in 1 .. Len(s) /\ s[k] = e
    BY <2>1, Least
  <2>3. RemoveFirst(s, e) = a \o b
    BY <1>3, <2>1 DEF RemoveFirst, SelectInSeq, RemoveAt
  <2> HIDE DEF k, I
  <2>4. /\ a \in Seq(Row) /\ Len(a) = k - 1
        /\ \A i \in 1 .. k - 1 : a[i] = s[i]
    <3>1. \A i \in 1 .. k - 1 : s[i] \in Row
      BY <1>1, <2>2
    <3> QED
      BY <1>1, <2>2, <3>1, SubSeqProperties
  <2>5. /\ b \in Seq(Row) /\ Len(b) = Len(s) - k
        /\ \A i \in 1 .. Len(s) - k : b[i] = s[k + i]
    <3>1. \A i \in k + 1 .. Len(s) : s[i] \in Row
      BY <1>1, <2>2
    <3>2. /\ b \in Seq(Row) /\ Len(b) = IF k + 1 <= Len(s) THEN Len(s) - (k + 1) + 1 ELSE 0
          /\ \A i \in 1 .. Len(s) - (k + 1) + 1 : b[i] = s[k + 1 + i - 1]
      BY <1>1, <2>2, <3>1, SubSeqProperties
    <3> HIDE DEF b
    <3>3. Len(b) = Len(s) - k
      <4>1. Len(b) = IF k + 1 <= Len(s) THEN Len(s) - (k + 1) + 1 ELSE 0
        BY <3>2
      <4>2. Len(s) \in Nat /\ k \in Nat /\ k <= Len(s)
        BY <1>1, <2>2
      <4> QED
        BY <4>1, <4>2
    <3>4. ASSUME NEW i \in 1 .. Len(s) - k PROVE b[i] = s[k + i]
      <4>1. k + 1 + i - 1 = k + i /\ i \in 1 .. Len(s) - (k + 1) + 1
        BY <1>1, <2>2
      <4>2. b[i] = s[k + 1 + i - 1]
        BY <3>2, <4>1
      <4> QED
        BY <4>1, <4>2
    <3> QED
      BY <3>2, <3>3, <3>4
  <2> HIDE DEF a, b
  <2>6. /\ a \o b \in Seq(Row) /\ Len(a \o b) = Len(s) - 1
        /\ \A i \in 1 .. Len(s) - 1 : (a \o b)[i] = IF i < k THEN s[i] ELSE s[i + 1]
    <3>1. /\ a \o b \in Seq(Row) /\ Len(a \o b) = Len(a) + Len(b)
          /\ \A i \in 1 .. Len(a) + Len(b) : (a \o b)[i] = IF i <= Len(a) THEN a[i] ELSE b[i - Len(a)]
      BY <2>4, <2>5, ConcatProperties
    <3> QED
      BY <1>1, <2>2, <2>4, <2>5, <3>1
  <2> DEFINE t == a \o b
  <2> HIDE DEF t
  <2>7. t \in Seq(Row) /\ Len(t) = Len(s) - 1 /\ DOMAIN t = 1 .. Len(s) - 1
        /\ \A i \in 1 .. Len(s) - 1 : t[i] = IF i < k THEN s[i] ELSE s[i + 1]
    BY <2>6, LenProperties DEF t
  <2>8. Descending(t)
    BY <1>1, <2>2, <2>7 DEF Descending
  <2>9. ToSet(t) = ToSet(s) \ {e}
    <3>1. ASSUME NEW i \in 1 .. Len(s) - 1 PROVE t[i] \in ToSet(s) \ {e}
      <4>1. CASE i < k
        <5>1. t[i] = s[i] /\ s[i] > s[k]
          BY <1>1, <2>2, <2>7, <4>1 DEF Descending
        <5>2. s[i] \in ToSet(s) /\ s[i] # e
          BY <1>1, <2>2, <5>1, Elements
        <5> QED
          BY <5>1, <5>2
      <4>2. CASE ~(i < k)
        <5>1. t[i] = s[i + 1] /\ s[k] > s[i + 1] /\ i + 1 \in 1 .. Len(s)
          BY <1>1, <2>2, <2>7, <4>2 DEF Descending
        <5>2. s[i + 1] \in ToSet(s) /\ s[i + 1] # e
          BY <1>1, <2>2, <5>1, Elements
        <5> QED
          BY <5>1, <5>2
      <4> QED
        BY <4>1, <4>2
    <3>2. ASSUME NEW i \in 1 .. Len(s), s[i] # e PROVE s[i] \in ToSet(t)
      <4>1. i # k
        BY <2>2, <3>2
      <4>2. CASE i < k
        <5>1. i \in 1 .. Len(t) /\ t[i] = s[i]
          BY <1>1, <2>2, <2>7, <4>2
        <5> QED
          BY <2>7, <5>1, Elements
      <4>3. CASE i > k
        <5>1. i - 1 \in 1 .. Len(t) /\ t[i - 1] = s[i]
          BY <1>1, <2>2, <2>7, <4>3
        <5> QED
          BY <2>7, <5>1, Elements
      <4> QED
        BY <1>1, <2>2, <4>1, <4>2, <4>3
    <3> QED
      BY <2>7, <3>1, <3>2, Elements
  <2>10. RemoveFirst(s, e) = t
    BY <2>3 DEF t
  <2>11. e \in ToSet(s)
    BY <1>1, <1>3, Elements
  <2> QED
    BY <2>7, <2>8, <2>9, <2>10, <2>11
<1> QED
  BY <1>2, <1>3

-----------------------------------------------------------------------------
(* Where the i-th row of the list, as it was when c began, is now, if none  *)
(* has gone since; and which of those rows c's walk is to show.             *)
Place(c, i) == Len(list) - Len(began[c]) + i
AskedAt(c) == From(asks[c]) + 1 .. Len(Newer(asks[c], began[c]))

Walking(c) == pc[c] \in {"read", "second", "shown"} /\ asks[c].tool \in Walks
Reading(c) == pc[c] = "read" /\ asks[c].tool # "window"

(* The list is newest first, whoever takes rows off it.                     *)
ListOf == /\ Descending(list)
          /\ \A i \in 1 .. Len(list) : list[i] <= newest
          /\ torn \subseteq came

StageOf(c) ==
    /\ pc[c] = "new" <=> asks[c] = None
    /\ pc[c] = "new" => <<told[c], seen[c], got[c], page[c]>> = <<<<>>, <<>>, <<>>, 1>>
    /\ pc[c] = "second" => asks[c].tool = "window"
    /\ pc[c] = "shown" => asks[c].tool \in Walks
    /\ pc[c] \in {"check", "missing", "remove"} => asks[c].tool = "remove"
    /\ pc[c] \in {"check", "missing"} => asks[c].checked
    /\ pc[c] = "read" /\ asks[c].tool = "remove" => asks[c].checked
    /\ pc[c] \in {"read", "second", "shown", "check", "missing"} => told[c] = <<>>

(* The list as c began is the end of the list now: rows come at the front.  *)
SuffixOf(c) ==
    pc[c] # "new" /\ c \notin left =>
       /\ Len(began[c]) <= Len(list)
       /\ \A i \in 1 .. Len(began[c]) : list[Place(c, i)] = began[c][i]
       /\ c \notin came => Len(list) = Len(began[c])

(* A list read whole: full pages so far.  A row now within what is read has *)
(* been read, at its place now or before it; and one read before where the  *)
(* next page of the walk begins was shown.                                  *)
ReadOf(c) ==
    /\ \A k \in 1 .. Len(got[c]) : got[c][k] <= newest
    /\ Reading(c) =>
          /\ page[c] >= 1 /\ Len(got[c]) = (page[c] - 1) * PageSize
          /\ asks[c].tool = "recent" => \A k \in 1 .. Len(got[c]) : got[c][k] >= asks[c].since
    /\ Reading(c) /\ c \notin left =>
          \A i \in 1 .. Len(began[c]) : Place(c, i) <= Len(got[c]) =>
             \E k \in 1 .. Len(got[c]) : k <= Place(c, i) /\ got[c][k] = began[c][i]
    /\ Reading(c) /\ asks[c].tool \in Walks /\ c \notin left \cup torn =>
          \A i \in AskedAt(c), k \in 1 .. Len(got[c]) :
             k <= offset[c] /\ got[c][k] = began[c][i] => began[c][i] \in ToSet(seen[c])
    /\ Reading(c) /\ c \notin came \cup left =>
          Len(got[c]) <= Len(list) /\ \A k \in 1 .. Len(got[c]) : got[c][k] = list[k]

(* Between the halves of a window: the list is as the first half found it.  *)
HalfOf(c) ==
    pc[c] = "second" /\ c \notin left \cup torn =>
       LET limit == Limit(asks[c])
           first == offset[c] \div limit
       IN  /\ got[c] = Fetch(first + 1, limit)
           /\ total[c] = Len(list)
           /\ (first + 1) * limit < Len(list)

(* A row now before where the next page begins has been shown.              *)
ShownOf(c) ==
    c \notin left \cup torn =>
       /\ Walking(c) => \A i \in AskedAt(c) : Place(c, i) <= offset[c] => began[c][i] \in ToSet(seen[c])
       /\ WalkedOut(c) => \A i \in AskedAt(c) : began[c][i] \in ToSet(seen[c])

(* A list that stands still has been shown as it is, up to there: the rows  *)
(* of s shown, u, are those after the first few and up to the place at.     *)
UpTo(u, s, first, at) ==
    /\ at = first \/ at \in first .. Len(s)
    /\ Len(u) = at - first
    /\ \A k \in 1 .. Len(u) : u[k] = s[first + k]

StillOf(c) ==
    c \notin came \cup left =>
       /\ Walking(c) =>
             UpTo(seen[c], Newer(asks[c], began[c]), From(asks[c]), offset[c])
       /\ WalkedOut(c) => seen[c] = Asked(c)

RemovalOf(c) ==
    /\ pc[c] = "check" /\ c \notin left => ToSet(began[c]) \subseteq ToSet(got[c])
    /\ pc[c] = "missing" /\ c \notin left => ~(ToSet(asks[c].ids) \subseteq ToSet(began[c]))
    /\ asks[c] # None /\ asks[c].tool = "remove" =>
          /\ Len(told[c]) <= Len(asks[c].ids)
          /\ \A i \in 1 .. Len(told[c]) : told[c][i] = asks[c].ids[i]
          /\ pc[c] = "remove" => Len(told[c]) < Len(asks[c].ids)
          /\ pc[c] = "done" => Len(told[c]) = Len(asks[c].ids)
          /\ asks[c].checked =>
                /\ pc[c] = "remove" => ToSet(asks[c].ids) \subseteq ToSet(got[c])
                /\ ToSet(told[c]) \subseteq ToSet(got[c])
                /\ ToSet(told[c]) \cap ToSet(list) = {}

CallInv(c) == /\ StageOf(c) /\ SuffixOf(c) /\ ReadOf(c) /\ HalfOf(c)
              /\ ShownOf(c) /\ StillOf(c) /\ RemovalOf(c)

Inv == TypeOK /\ ListOf /\ \A c \in Call : CallInv(c)

-----------------------------------------------------------------------------
(* What the types say of one call.                                          *)
LEMMA Typed ==
    ASSUME TypeOK, NEW c \in Call
    PROVE  /\ list \in Seq(Row) /\ Len(list) \in Nat /\ newest \in Nat /\ Rows \in Nat
           /\ {got[c], seen[c], began[c]} \subseteq Seq(Row) /\ told[c] \in Seq(Int)
           /\ {Len(got[c]), Len(seen[c]), Len(began[c]), Len(told[c])} \subseteq Nat
           /\ {offset[c], page[c], total[c]} \subseteq Nat
           /\ asks[c] # None => asks[c] \in Request[c]
           /\ PageSize \in Nat \ {0}
<1>1. list \in Seq(Row) /\ newest \in 0 .. Rows /\ Rows \in Nat /\ PageSize \in Nat \ {0}
  BY ListingsAssumption DEF TypeOK
<1>2. got \in [Call -> Seq(Row)] /\ seen \in [Call -> Seq(Row)] /\ began \in [Call -> Seq(Row)]
  BY DEF TypeOK
<1>3. got[c] \in Seq(Row) /\ seen[c] \in Seq(Row) /\ began[c] \in Seq(Row) /\ told[c] \in Seq(Int)
  BY <1>2 DEF TypeOK
<1>4. /\ offset[c] \in Nat /\ page[c] \in Nat /\ total[c] \in Nat
      /\ asks[c] # None => asks[c] \in Request[c]
  BY DEF TypeOK
<1>5. Len(got[c]) \in Nat /\ Len(seen[c]) \in Nat /\ Len(began[c]) \in Nat /\ Len(told[c]) \in Nat
  BY <1>3, LenProperties
<1>6. Len(list) \in Nat
  BY <1>1, LenProperties
<1> QED
  BY <1>1, <1>3, <1>4, <1>5, <1>6

(* A call of which nothing changes, nor anything of the list.               *)
LEMMA Bystander ==
    ASSUME NEW d \in Call, CallInv(d),
           UNCHANGED <<list, newest, came, torn, left>>,
           pc'[d] = pc[d], asks'[d] = asks[d], offset'[d] = offset[d], page'[d] = page[d],
           got'[d] = got[d], total'[d] = total[d], seen'[d] = seen[d], told'[d] = told[d],
           began'[d] = began[d]
    PROVE  CallInv(d)'
<1>1. StageOf(d)' /\ SuffixOf(d)'
  <2>1. StageOf(d)'
    BY DEF CallInv, StageOf
  <2>2. \A i : Place(d, i)' = Place(d, i)
    BY DEF Place
  <2>3. SuffixOf(d)'
    BY <2>2 DEF CallInv, SuffixOf
  <2> QED
    BY <2>1, <2>3
<1>2. ReadOf(d)'
  <2>1. /\ \A i : Place(d, i)' = Place(d, i)
        /\ AskedAt(d)' = AskedAt(d) /\ Reading(d)' = Reading(d)
    BY DEF Place, AskedAt, Reading
  <2> QED
    BY <2>1 DEF CallInv, ReadOf
<1>3. HalfOf(d)'
  BY DEF CallInv, HalfOf, Fetch
<1>4. ShownOf(d)' /\ StillOf(d)'
  BY DEF CallInv, ShownOf, StillOf, Place, AskedAt, Walking, WalkedOut, Asked
<1>5. RemovalOf(d)'
  BY DEF CallInv, RemovalOf
<1> QED
  BY <1>1, <1>2, <1>3, <1>4, <1>5 DEF CallInv

(* A step of one call that leaves the list alone.                           *)
LEMMA OneCall ==
    ASSUME NEW c \in Call, Inv, TypeOK', CallInv(c)',
           UNCHANGED <<list, newest, came, torn, left>>,
           \A d \in Call \ {c} :
              /\ pc'[d] = pc[d] /\ asks'[d] = asks[d] /\ offset'[d] = offset[d]
              /\ page'[d] = page[d] /\ got'[d] = got[d] /\ total'[d] = total[d]
              /\ seen'[d] = seen[d] /\ told'[d] = told[d] /\ began'[d] = began[d]
    PROVE  Inv'
<1>1. ListOf'
  BY DEF Inv, ListOf, Descending
<1>2. ASSUME NEW d \in Call \ {c} PROVE CallInv(d)'
  BY Bystander DEF Inv
<1> QED
  BY <1>1, <1>2 DEF Inv

(* A request that fails: the call ends with what it has done.               *)
LEMMA FailInv == ASSUME NEW c \in Call, Inv, Fail(c) PROVE Inv'
<1> USE DEF Fail, Goes
<1>1. TypeOK'
  BY DEF Inv, TypeOK
<1>2. pc'[c] = "failed" /\ pc[c] # "new"
  BY DEF Inv, TypeOK
<1>3. StageOf(c)' /\ SuffixOf(c)'
  BY <1>2 DEF Inv, CallInv, StageOf, SuffixOf, Place
<1>4. ReadOf(c)' /\ HalfOf(c)' /\ ShownOf(c)' /\ StillOf(c)'
  BY <1>2 DEF Inv, CallInv, ReadOf, HalfOf, ShownOf, StillOf, Reading, Walking, WalkedOut
<1>5. RemovalOf(c)'
  BY <1>2 DEF Inv, CallInv, RemovalOf
<1>6. CallInv(c)'
  BY <1>3, <1>4, <1>5 DEF CallInv
<1> QED
  BY <1>1, <1>6, OneCall DEF Inv, TypeOK

(* The ids are looked for: the removal goes on, or is refused.              *)
LEMMA CheckInv == ASSUME NEW c \in Call, Inv, Check(c) PROVE Inv'
<1> USE DEF Check, Goes
<1>1. TypeOK'
  BY DEF Inv, TypeOK
<1>2. /\ pc[c] = "check" /\ asks[c].tool = "remove" /\ asks[c].checked /\ told[c] = <<>>
      /\ pc'[c] = IF ToSet(asks[c].ids) \subseteq ToSet(got[c]) THEN "remove" ELSE "missing"
  BY DEF Inv, TypeOK, CallInv, StageOf
<1>3. StageOf(c)' /\ SuffixOf(c)'
  <2>1. pc'[c] \in {"remove", "missing"} /\ asks'[c] = asks[c] /\ asks[c] # None
    BY <1>2 DEF Inv, CallInv, StageOf
  <2>2. StageOf(c)'
    BY <1>2, <2>1 DEF StageOf
  <2> QED
    BY <1>2, <2>1, <2>2 DEF Inv, CallInv, SuffixOf, Place
<1>4. ReadOf(c)' /\ HalfOf(c)' /\ ShownOf(c)' /\ StillOf(c)'
  BY <1>2 DEF Inv, CallInv, ReadOf, HalfOf, ShownOf, StillOf, Reading, Walking, WalkedOut
<1>5. RemovalOf(c)'
  <2>1. Len(asks[c].ids) > Len(told[c])
    <3>1. asks[c] # None
      BY <1>2 DEF Inv, CallInv, StageOf
    <3>2. asks[c].ids \in Seq(Int) /\ asks[c].ids # <<>>
      BY <1>2, <3>1, Typed, ListingsAssumption DEF Inv
    <3> QED
      BY <1>2, <3>2, EmptySeq
  <2> QED
    BY <1>2, <2>1 DEF Inv, CallInv, RemovalOf
<1>6. CallInv(c)'
  BY <1>3, <1>4, <1>5 DEF CallInv
<1> QED
  BY <1>1, <1>6, OneCall DEF Inv, TypeOK

(* The next page asked for: the list is read anew.                          *)
LEMMA GoOnInv == ASSUME NEW c \in Call, Inv, GoOn(c) PROVE Inv'
<1> USE DEF GoOn, Goes
<1>1. <<>> \in Seq(Row) /\ Len(<<>>) = 0
  BY EmptySeq
<1>2. TypeOK'
  BY <1>1 DEF Inv, TypeOK
<1>3. /\ pc[c] = "shown" /\ pc'[c] = "read" /\ asks[c].tool \in Walks
      /\ page'[c] = 1 /\ got'[c] = <<>> /\ Len(got'[c]) = 0
  BY <1>1 DEF Inv, TypeOK, CallInv, StageOf
<1>4. StageOf(c)' /\ SuffixOf(c)'
  BY <1>3 DEF Inv, CallInv, StageOf, SuffixOf, Place, Walks
<1>5. ReadOf(c)'
  <2>1. (page[c] - 1)' * PageSize = 0
    BY <1>3, ListingsAssumption
  <2>2. ASSUME NEW i \in 1 .. Len(began[c]), c \notin left PROVE ~(Place(c, i)' <= 0)
    <3>1. Len(began[c]) <= Len(list) /\ Len(began[c]) \in Nat /\ Len(list) \in Nat
      BY <1>3, <2>2, Typed DEF Inv, CallInv, SuffixOf
    <3>2. Place(c, i)' = Len(list) - Len(began[c]) + i
      BY DEF Place
    <3> QED
      BY <3>1, <3>2
  <2>3. \A k \in 1 .. Len(got'[c]) : FALSE
    BY <1>3
  <2>4. page'[c] >= 1 /\ Len(got'[c]) = (page'[c] - 1) * PageSize
    BY <1>3, <2>1
  <2>5. c \notin left' => \A i \in 1 .. Len(began'[c]) : ~(Place(c, i)' <= Len(got'[c]))
    BY <1>3, <2>2
  <2>6. Len(got'[c]) <= Len(list')
    BY <1>3, Typed DEF Inv
  <2> QED
    BY <2>3, <2>4, <2>5, <2>6 DEF ReadOf
<1>6. HalfOf(c)' /\ RemovalOf(c)'
  BY <1>3 DEF Inv, CallInv, HalfOf, RemovalOf, Walks
<1>7. ShownOf(c)' /\ StillOf(c)'
  BY <1>3 DEF Inv, CallInv, ShownOf, StillOf, Walking, WalkedOut, Place, AskedAt
<1>8. CallInv(c)'
  BY <1>4, <1>5, <1>6, <1>7 DEF CallInv
<1> QED
  BY <1>2, <1>8, OneCall DEF Inv, TypeOK

(* A walk or a removal begins, with the list as it is then.                 *)
LEMMA BeginInv == ASSUME NEW c \in Call, NEW rq \in Request[c], Inv, Begin(c, rq) PROVE Inv'
<1> USE DEF Begin, Goes
<1>1. <<>> \in Seq(Row) /\ Len(<<>>) = 0
  BY EmptySeq
<1>2. /\ rq # None /\ rq.tool \in Walks \cup {"remove"}
      /\ rq.tool \in Walks => From(rq) \in Nat
      /\ rq.tool = "remove" => /\ rq.checked \in BOOLEAN /\ rq.ids \in Seq(Int)
                               /\ Len(rq.ids) \in Nat \ {0}
  BY ListingsAssumption, Settled, EmptySeq DEF Walks
<1> DEFINE to == IF rq.tool \in Walks \/ rq.checked THEN "read" ELSE "remove"
           from == IF rq.tool \in Walks THEN From(rq) ELSE offset[c]
<1>3. pc' = [pc EXCEPT ![c] = to] /\ offset' = [offset EXCEPT ![c] = from]
  <2>1. offset = [offset EXCEPT ![c] = offset[c]]
    BY DEF Inv, TypeOK
  <2> QED
    BY <1>2, <2>1
<1>4. from \in Nat /\ to \in {"read", "remove"}
  BY <1>2, Typed DEF Inv
<1>5. TypeOK'
  <2> HIDE DEF to, from
  <2>1. /\ pc' \in [Call -> {"new", "read", "second", "shown", "check", "remove", "done", "failed", "missing"}]
        /\ offset' \in [Call -> Nat]
    BY <1>3, <1>4 DEF Inv, TypeOK
  <2>2. DOMAIN asks' = Call /\ \A d \in Call : asks'[d] \in Request[d] \cup {None}
    BY DEF Inv, TypeOK
  <2>3. began' \in [Call -> Seq(Row)]
    BY DEF Inv, TypeOK
  <2> QED
    BY <2>1, <2>2, <2>3 DEF Inv, TypeOK
<1>6. /\ asks[c] = None /\ told[c] = <<>> /\ seen[c] = <<>> /\ got[c] = <<>> /\ page[c] = 1
      /\ asks'[c] = rq /\ began'[c] = list
      /\ told'[c] = <<>> /\ seen'[c] = <<>> /\ got'[c] = <<>> /\ page'[c] = 1
      /\ pc'[c] = IF rq.tool \in Walks \/ rq.checked THEN "read" ELSE "remove"
      /\ rq.tool \in Walks => offset'[c] = From(rq)
  <2>1. StageOf(c)
    BY DEF Inv, CallInv
  <2> QED
    BY <2>1 DEF Inv, TypeOK, StageOf
<1>7. StageOf(c)'
  BY <1>2, <1>6 DEF StageOf, Walks
<1>8. \A i : Place(c, i)' = Len(list) - Len(list) + i
  BY <1>6 DEF Place
<1>9. Len(list) \in Nat /\ \A i \in Int : Place(c, i)' = i
  BY <1>8, Typed DEF Inv
<1>10. SuffixOf(c)'
  BY <1>6, <1>9 DEF SuffixOf
<1>11. ReadOf(c)'
  <2>1. (page[c] - 1)' * PageSize = 0 /\ Len(got[c])' = 0
    BY <1>1, <1>6, ListingsAssumption
  <2> QED
    BY <1>6, <1>9, <2>1 DEF ReadOf, Reading
<1>12. HalfOf(c)' /\ RemovalOf(c)'
  <2>1. ToSet(<<>>) = {}
    BY DEF ToSet
  <2> QED
    BY <1>1, <1>2, <1>6, <2>1 DEF HalfOf, RemovalOf, Walks
<1>13. ShownOf(c)' /\ StillOf(c)'
  <2>1. ASSUME Walking(c)' PROVE rq.tool \in Walks /\ offset'[c] = From(rq) /\ From(rq) \in Nat
    BY <1>2, <1>6, <2>1 DEF Walking
  <2>2. ASSUME Walking(c)', NEW i \in AskedAt(c)' PROVE ~(Place(c, i)' <= offset'[c])
    <3>1. AskedAt(c)' = From(rq) + 1 .. Len(Newer(rq, list))
      BY <1>6 DEF AskedAt
    <3>2. i \in Int /\ i > From(rq)
      BY <2>1, <2>2, <3>1
    <3> QED
      BY <1>9, <2>1, <2>2, <3>2
  <2>3. ~WalkedOut(c)'
    BY <1>6 DEF WalkedOut
  <2>4. ASSUME Walking(c)' PROVE Len(seen'[c]) = offset'[c] - From(rq) /\ Len(seen'[c]) = 0
    BY <1>1, <1>6, <2>1, <2>4
  <2>5. ASSUME Walking(c)' PROVE UpTo(seen'[c], Newer(rq, list), From(rq), offset'[c])
    <3>1. Len(seen'[c]) = offset'[c] - From(rq) /\ Len(seen'[c]) = 0 /\ offset'[c] = From(rq)
      BY <2>1, <2>4, <2>5
    <3>2. \A k \in 1 .. Len(seen'[c]) : FALSE
      BY <3>1
    <3> QED
      BY <3>1, <3>2 DEF UpTo
  <2> QED
    BY <1>6, <2>2, <2>3, <2>5 DEF ShownOf, StillOf
<1>14. CallInv(c)'
  BY <1>7, <1>10, <1>11, <1>12, <1>13 DEF CallInv
<1> QED
  <2>1. ASSUME NEW d \in Call \ {c}
        PROVE  /\ pc'[d] = pc[d] /\ offset'[d] = offset[d] /\ asks'[d] = asks[d] /\ began'[d] = began[d]
    BY <1>3 DEF Inv, TypeOK
  <2> QED
    BY <1>5, <1>14, <2>1, OneCall

-----------------------------------------------------------------------------
(* A row taken off the list, by whoever it is.                              *)
LEMMA Shorter ==
    ASSUME Inv, NEW e \in Int, list' = RemoveFirst(list, e), UNCHANGED <<newest, came, torn>>
    PROVE  /\ list' \in Seq(Row) /\ ToSet(list') = ToSet(list) \ {e}
           /\ e \notin ToSet(list) => list' = list
           /\ ListOf'
<1>1. list \in Seq(Row) /\ Descending(list)
  BY DEF Inv, TypeOK, ListOf
<1>2. /\ list' \in Seq(Row) /\ Descending(list') /\ ToSet(list') = ToSet(list) \ {e}
      /\ e \notin ToSet(list) => list' = list
  BY <1>1, Removed
<1>3. ASSUME NEW i \in 1 .. Len(list') PROVE list'[i] <= newest'
  <2>1. list'[i] \in ToSet(list)
    BY <1>2, Elements
  <2> QED
    BY <1>1, <2>1, Elements DEF Inv, ListOf
<1> QED
  BY <1>2, <1>3 DEF Inv, ListOf, Descending

(* What the other calls are left with: all that are begun lost it.          *)
LEMMA BystanderLoses ==
    ASSUME Inv, NEW e \in Int, NEW d \in Call,
           list' = RemoveFirst(list, e),
           left' = IF e \in ToSet(list) THEN left \cup Begun ELSE left,
           UNCHANGED <<newest, came, torn>>,
           pc'[d] = pc[d], asks'[d] = asks[d], offset'[d] = offset[d], page'[d] = page[d],
           got'[d] = got[d], total'[d] = total[d], seen'[d] = seen[d], told'[d] = told[d],
           began'[d] = began[d]
    PROVE  CallInv(d)'
<1>1. CallInv(d)
  BY DEF Inv
<1>2. CASE e \notin ToSet(list)
  BY <1>1, <1>2, Shorter, Bystander
<1>3. CASE e \in ToSet(list)
  <2>1. pc[d] = "new" \/ d \in left'
    BY <1>3 DEF Begun
  <2>2. StageOf(d)' /\ SuffixOf(d)'
    BY <1>1, <2>1 DEF CallInv, StageOf, SuffixOf
  <2>3. ReadOf(d)'
    BY <1>1, <2>1 DEF CallInv, ReadOf, Reading
  <2>4. HalfOf(d)' /\ ShownOf(d)' /\ StillOf(d)'
    BY <2>1 DEF HalfOf, ShownOf, StillOf, Walking, WalkedOut
  <2>5. RemovalOf(d)'
    <3>1. ToSet(list') \subseteq ToSet(list)
      BY Shorter
    <3>2. pc'[d] \in {"check", "missing"} => d \in left'
      BY <2>1
    <3> QED
      BY <1>1, <3>1, <3>2 DEF CallInv, RemovalOf
  <2> QED
    BY <2>2, <2>3, <2>4, <2>5 DEF CallInv
<1> QED
  BY <1>2, <1>3

(* A row goes by itself.                                                    *)
LEMMA GoInv == ASSUME NEW row \in Row, Inv, Go(row) PROVE Inv'
<1>1. row \in Int
  BY ListingsAssumption DEF Row
<1>2. list' \in Seq(Row) /\ ListOf'
  BY <1>1, Shorter DEF Go
<1>3. TypeOK'
  BY <1>2 DEF Inv, TypeOK, Go, Begun, reading
<1>4. ASSUME NEW d \in Call PROVE CallInv(d)'
  <2>1. left' = IF row \in ToSet(list) THEN left \cup Begun ELSE left
    BY DEF Go
  <2> QED
    BY <1>1, <2>1, BystanderLoses DEF Go, reading
<1> QED
  BY <1>2, <1>3, <1>4 DEF Inv

-----------------------------------------------------------------------------
(* A row made, at the front of the list.                                    *)
LEMMA Longer ==
    ASSUME Inv, Come
    PROVE  /\ list' \in Seq(Row) /\ newest' = newest + 1 /\ newest' \in 0 .. Rows
           /\ Len(list') = Len(list) + 1
           /\ \A i \in 1 .. Len(list) : list'[i + 1] = list[i]
           /\ ToSet(list') = ToSet(list) \cup {newest + 1}
           /\ ListOf'
<1>1. /\ list \in Seq(Row) /\ Len(list) \in Nat /\ newest \in Nat /\ newest + 1 \in Row
      /\ newest' = newest + 1 /\ newest' \in 0 .. Rows
  BY ListingsAssumption, LenProperties DEF Inv, TypeOK, Come, Row
<1>2. list' = <<newest + 1>> \o list
  BY <1>1 DEF Come
<1>3. <<newest + 1>> \in Seq(Row) /\ Len(<<newest + 1>>) = 1 /\ <<newest + 1>>[1] = newest + 1
  BY <1>1
<1>4. /\ list' \in Seq(Row) /\ Len(list') = 1 + Len(list)
      /\ \A i \in 1 .. 1 + Len(list) : list'[i] = IF i <= 1 THEN <<newest + 1>>[i] ELSE list[i - 1]
  BY <1>1, <1>2, <1>3, ConcatProperties
<1>5. list'[1] = newest + 1 /\ \A i \in 2 .. Len(list) + 1 : list'[i] = list[i - 1]
  BY <1>1, <1>3, <1>4
<1>6. ASSUME NEW i \in 1 .. Len(list) PROVE list'[i + 1] = list[i]
  <2>1. i + 1 \in 2 .. Len(list) + 1 /\ i + 1 - 1 = i
    BY <1>1
  <2> QED
    BY <1>5, <2>1
<1>7. \A i \in 1 .. Len(list) : list[i] \in Int /\ list[i] <= newest
  BY <1>1, ElementOfSeq, ListingsAssumption DEF Inv, ListOf, Row
<1>8. \A i \in 1 .. Len(list') : list'[i] <= newest'
  <2>1. ASSUME NEW i \in 1 .. Len(list') PROVE i = 1 \/ i \in 2 .. Len(list) + 1
    BY <1>1, <1>4
  <2>2. ASSUME NEW i \in 2 .. Len(list) + 1 PROVE list'[i] <= newest'
    <3>1. i - 1 \in 1 .. Len(list) /\ list'[i] = list[i - 1]
      BY <1>1, <1>5
    <3> QED
      BY <1>1, <1>7, <3>1
  <2> QED
    BY <1>1, <1>5, <2>1, <2>2
<1>9. Descending(list')
  <2>1. Descending(list)
    BY DEF Inv, ListOf
  <2>2. ASSUME NEW i \in 1 .. Len(list'), NEW j \in 1 .. Len(list'), i < j PROVE list'[i] > list'[j]
    <3>1. j \in 2 .. Len(list) + 1 /\ j - 1 \in 1 .. Len(list) /\ list'[j] = list[j - 1]
      BY <1>1, <1>4, <1>5, <2>2
    <3>2. CASE i = 1
      BY <1>1, <1>5, <1>7, <3>1, <3>2
    <3>3. CASE i # 1
      <4>1. i - 1 \in 1 .. Len(list) /\ i - 1 < j - 1 /\ list'[i] = list[i - 1]
        BY <1>1, <1>4, <1>5, <2>2, <3>3
      <4> QED
        BY <2>1, <3>1, <4>1 DEF Descending
    <3> QED
      BY <3>2, <3>3
  <2> QED
    BY <2>2 DEF Descending
<1>10. ToSet(list') = ToSet(list) \cup {newest + 1}
  <2>1. ASSUME NEW i \in 1 .. Len(list') PROVE list'[i] \in ToSet(list) \cup {newest + 1}
    <3>1. i = 1 \/ (i - 1 \in 1 .. Len(list) /\ list'[i] = list[i - 1])
      BY <1>1, <1>4, <1>5
    <3> QED
      BY <1>1, <1>5, <3>1, Elements
  <2>2. ASSUME NEW i \in 1 .. Len(list) PROVE list[i] \in ToSet(list')
    <3>1. i + 1 \in 1 .. Len(list')
      BY <1>1, <1>4
    <3> QED
      BY <1>4, <1>6, <3>1, Elements
  <2>3. newest + 1 \in ToSet(list')
    <3>1. 1 \in 1 .. Len(list')
      BY <1>1, <1>4
    <3> QED
      BY <1>4, <1>5, <3>1, Elements
  <2> QED
    BY <1>1, <1>4, <2>1, <2>2, <2>3, Elements
<1>11. torn' \subseteq came'
  BY DEF Inv, ListOf, Come, Begun
<1> QED
  BY <1>1, <1>4, <1>6, <1>8, <1>9, <1>10, <1>11 DEF ListOf

(* A row comes, and every row that was there is one place further.          *)
LEMMA ComeInv == ASSUME Inv, Come PROVE Inv'
<1>1. TypeOK'
  BY Longer DEF Inv, TypeOK, Come, Begun, reading
<1>2. ASSUME NEW d \in Call PROVE CallInv(d)'
  <2> USE DEF Come, reading
  <2>1. CallInv(d) /\ (pc[d] = "new" \/ d \in came')
    BY DEF Inv, Begun
  <2>2. /\ Len(list) \in Nat /\ Len(began[d]) \in Nat /\ Len(got[d]) \in Nat /\ offset[d] \in Nat
        /\ newest \in Nat /\ newest' = newest + 1 /\ Len(list') = Len(list) + 1
        /\ \A k \in 1 .. Len(got[d]) : got[d][k] \in Int
    BY Typed, Longer, RowsAre DEF Inv
  <2>3. ASSUME NEW i \in Int PROVE Place(d, i)' = Place(d, i) + 1 /\ Place(d, i) \in Int
    BY <2>2 DEF Place
  <2>4. StageOf(d)'
    BY <2>1 DEF CallInv, StageOf
  <2>5. SuffixOf(d)'
    <3>1. ASSUME pc[d] # "new", d \notin left
          PROVE  /\ Len(began[d]) <= Len(list)
                 /\ \A i \in 1 .. Len(began[d]) : list[Place(d, i)] = began[d][i]
      BY <2>1, <3>1 DEF CallInv, SuffixOf
    <3>2. ASSUME pc[d] # "new", d \notin left, NEW i \in 1 .. Len(began[d])
          PROVE  list'[Place(d, i)'] = began[d][i]
      <4>1. Len(began[d]) <= Len(list)
        BY <3>1, <3>2
      <4>2. Place(d, i) \in 1 .. Len(list)
        BY <2>2, <4>1 DEF Place
      <4>3. Place(d, i)' = Place(d, i) + 1
        BY <2>3
      <4>4. list'[Place(d, i) + 1] = list[Place(d, i)]
        BY <4>2, Longer
      <4> QED
        BY <3>1, <3>2, <4>3, <4>4
    <3>3. ASSUME pc[d] # "new", d \notin left PROVE Len(began[d]) <= Len(list')
      BY <2>2, <3>1, <3>3
    <3>4. pc[d] # "new" => d \in came'
      BY <2>1
    <3> QED
      BY <3>2, <3>3, <3>4 DEF SuffixOf
  <2>6. ReadOf(d)'
    <3>1. ASSUME NEW i \in 1 .. Len(began[d]), Place(d, i)' <= Len(got[d])
          PROVE  Place(d, i) <= Len(got[d]) /\ \A k \in Int : k <= Place(d, i) => k <= Place(d, i)'
      BY <2>2, <2>3, <3>1
    <3>2. ASSUME Reading(d), d \notin left, NEW i \in 1 .. Len(began[d]), Place(d, i)' <= Len(got[d])
          PROVE  \E k \in 1 .. Len(got[d]) : k <= Place(d, i)' /\ got[d][k] = began[d][i]
      <4>1. PICK k \in 1 .. Len(got[d]) : k <= Place(d, i) /\ got[d][k] = began[d][i]
        BY <2>1, <3>1, <3>2 DEF CallInv, ReadOf
      <4> QED
        BY <3>1, <3>2, <4>1
    <3>3. \A k \in 1 .. Len(got[d]) : got[d][k] <= newest'
      BY <2>1, <2>2 DEF CallInv, ReadOf
    <3>4. Reading(d) => d \in came'
      BY <2>1 DEF Reading
    <3>5. Reading(d)' <=> Reading(d)
      BY DEF Reading
    <3>6. AskedAt(d)' = AskedAt(d)
      BY DEF AskedAt
    <3> QED
      BY <2>1, <3>2, <3>3, <3>4, <3>5, <3>6 DEF CallInv, ReadOf
  <2>7. HalfOf(d)'
    BY DEF HalfOf
  <2>8. ShownOf(d)'
    <3>1. AskedAt(d)' = AskedAt(d) /\ AskedAt(d) \subseteq Int
      BY DEF AskedAt
    <3>2. \A i \in AskedAt(d) : Place(d, i)' <= offset[d] => Place(d, i) <= offset[d]
      BY <2>2, <2>3, <3>1
    <3>3. d \notin torn' => d \notin torn
      OBVIOUS
    <3> QED
      BY <2>1, <3>1, <3>2, <3>3 DEF CallInv, ShownOf, Walking, WalkedOut
  <2>9. StillOf(d)'
    BY <2>1 DEF StillOf, Walking, WalkedOut
  <2>10. RemovalOf(d)'
    <3>1. newest + 1 \notin ToSet(got[d])
      <4>1. \A k \in 1 .. Len(got[d]) : got[d][k] # newest + 1
        BY <2>1, <2>2 DEF CallInv, ReadOf
      <4> QED
        BY <4>1, Typed, Elements DEF Inv
    <3>2. ToSet(list') = ToSet(list) \cup {newest + 1}
      BY Longer
    <3> QED
      BY <2>1, <3>1, <3>2 DEF CallInv, RemovalOf
  <2> QED
    BY <2>4, <2>5, <2>6, <2>7, <2>8, <2>9, <2>10 DEF CallInv
<1> QED
  BY <1>1, <1>2, Longer DEF Inv

-----------------------------------------------------------------------------
(* One more row taken off by a removal.                                     *)
LEMMA RemoveInv ==
    ASSUME NEW c \in Call, NEW answered \in BOOLEAN, Inv, RemoveNext(c, answered)
    PROVE  Inv'
<1> DEFINE ids == asks[c].ids
           id == ids[Len(told[c]) + 1]
           more == IF answered THEN Append(told[c], id) ELSE told[c]
           to == IF ~answered THEN "failed" ELSE IF Len(more) = Len(ids) THEN "done" ELSE "remove"
<1>1. /\ pc[c] = "remove" /\ asks[c] # None /\ asks[c].tool = "remove"
      /\ told[c] \in Seq(Int) /\ Len(told[c]) \in Nat
      /\ Len(told[c]) < Len(ids) /\ \A i \in 1 .. Len(told[c]) : told[c][i] = ids[i]
      /\ asks[c].checked => /\ ToSet(ids) \subseteq ToSet(got[c])
                            /\ ToSet(told[c]) \subseteq ToSet(got[c])
                            /\ ToSet(told[c]) \cap ToSet(list) = {}
  <2>1. pc[c] = "remove" /\ told[c] \in Seq(Int) /\ Len(told[c]) \in Nat
    BY Typed DEF Inv, RemoveNext
  <2>2. asks[c] # None /\ asks[c].tool = "remove"
    BY <2>1 DEF Inv, CallInv, StageOf
  <2>3. RemovalOf(c)
    BY DEF Inv, CallInv
  <2> QED
    BY <2>1, <2>2, <2>3 DEF RemovalOf
<1>2. ids \in Seq(Int) /\ Len(ids) \in Nat /\ asks[c].checked \in BOOLEAN
  BY <1>1, Typed, ListingsAssumption, LenProperties DEF Inv
<1>3. id \in Int /\ id \in ToSet(ids) /\ Len(told[c]) + 1 \in 1 .. Len(ids)
  <2>1. Len(told[c]) + 1 \in 1 .. Len(ids)
    BY <1>1, <1>2
  <2> QED
    BY <1>2, <2>1, ElementOfSeq, Elements
<1>4. /\ list' = RemoveFirst(list, id)
      /\ left' = IF id \in ToSet(list) THEN left \cup Begun ELSE left
      /\ id \in ToSet(list) => answered
      /\ UNCHANGED <<newest, asks, offset, page, got, total, seen, began, came, torn>>
  BY DEF RemoveNext
<1>5. told' = [told EXCEPT ![c] = more] /\ told'[c] = more
  BY DEF RemoveNext, Inv, TypeOK
<1>6. pc' = [pc EXCEPT ![c] = to] /\ pc'[c] = to
  <2>1. pc' = [pc EXCEPT ![c] = IF ~answered THEN "failed"
                               ELSE IF Len(told'[c]) = Len(asks[c].ids) THEN "done" ELSE pc[c]]
    BY DEF RemoveNext
  <2>2. pc' = [pc EXCEPT ![c] = to]
    BY <1>1, <1>5, <2>1
  <2> QED
    BY <2>2 DEF Inv, TypeOK
<1>7. /\ list' \in Seq(Row) /\ ListOf' /\ ToSet(list') = ToSet(list) \ {id}
      /\ id \notin ToSet(list) => list' = list
  BY <1>3, <1>4, Shorter
<1>8. /\ more \in Seq(Int) /\ Len(more) = IF answered THEN Len(told[c]) + 1 ELSE Len(told[c])
      /\ \A i \in 1 .. Len(more) : more[i] = ids[i]
      /\ ToSet(more) \subseteq ToSet(told[c]) \cup {id}
  <2>1. CASE answered
    <3>1. /\ more \in Seq(Int) /\ Len(more) = Len(told[c]) + 1
          /\ \A i \in 1 .. Len(told[c]) : more[i] = told[c][i]
          /\ more[Len(told[c]) + 1] = id
      BY <1>1, <1>3, <2>1, AppendProperties
    <3> HIDE DEF more
    <3>2. ASSUME NEW i \in 1 .. Len(more)
          PROVE  more[i] = ids[i] /\ more[i] \in ToSet(told[c]) \cup {id}
      <4>1. CASE i = Len(told[c]) + 1
        BY <3>1, <4>1
      <4>2. CASE i # Len(told[c]) + 1
        <5>1. i \in 1 .. Len(told[c])
          BY <1>1, <3>1, <4>2
        <5> QED
          BY <1>1, <3>1, <5>1, Elements
      <4> QED
        BY <4>1, <4>2
    <3> QED
      BY <2>1, <3>1, <3>2, Elements
  <2>2. CASE ~answered
    BY <1>1, <2>2
  <2> QED
    BY <2>1, <2>2
<1> HIDE DEF id, more
<1>9. to \in {"failed", "done", "remove"}
  OBVIOUS
<1>10. TypeOK'
  <2>1. pc' \in [Call -> {"new", "read", "second", "shown", "check", "remove", "done", "failed", "missing"}]
    BY <1>6, <1>9 DEF Inv, TypeOK
  <2>2. told' \in [Call -> Seq(Int)]
    BY <1>5, <1>8 DEF Inv, TypeOK
  <2>3. left' \subseteq Call
    BY <1>4 DEF Inv, TypeOK, Begun
  <2> QED
    BY <1>4, <1>7, <2>1, <2>2, <2>3 DEF Inv, TypeOK
<1>11. StageOf(c)'
  BY <1>1, <1>4, <1>6, <1>9 DEF Inv, CallInv, StageOf
<1>12. SuffixOf(c)'
  <2>1. CASE id \in ToSet(list)
    BY <1>1, <1>4, <2>1 DEF SuffixOf, Begun
  <2>2. CASE id \notin ToSet(list)
    <3>1. list' = list
      BY <1>7, <2>2
    <3>2. \A i : Place(c, i)' = Place(c, i)
      BY <1>4, <3>1 DEF Place
    <3>3. pc[c] # "new" /\ left' = left
      BY <1>1, <1>4, <2>2
    <3> QED
      BY <1>4, <3>1, <3>2, <3>3 DEF Inv, CallInv, SuffixOf
  <2> QED
    BY <2>1, <2>2
<1>13. ReadOf(c)' /\ HalfOf(c)' /\ ShownOf(c)' /\ StillOf(c)'
  <2>1. ~Reading(c)' /\ pc'[c] # "second" /\ ~Walking(c)' /\ ~WalkedOut(c)'
    BY <1>1, <1>4, <1>6, <1>9 DEF Reading, Walking, WalkedOut, Walks
  <2> QED
    BY <1>4, <2>1 DEF Inv, CallInv, ReadOf, HalfOf, ShownOf, StillOf
<1>14. RemovalOf(c)'
  <2>1. Len(more) <= Len(ids)
    BY <1>1, <1>2, <1>8
  <2>2. to = "remove" => Len(more) < Len(ids)
    BY <1>2, <1>8, <2>1
  <2>3. to = "done" => Len(more) = Len(ids)
    OBVIOUS
  <2>4. ASSUME asks[c].checked
        PROVE  ToSet(more) \subseteq ToSet(got[c]) /\ ToSet(more) \cap ToSet(list') = {}
    BY <1>1, <1>3, <1>7, <1>8, <2>4
  <2> QED
    BY <1>1, <1>4, <1>5, <1>6, <1>8, <1>9, <2>1, <2>2, <2>3, <2>4 DEF RemovalOf
<1>15. CallInv(c)'
  BY <1>11, <1>12, <1>13, <1>14 DEF CallInv
<1>16. ASSUME NEW d \in Call \ {c} PROVE CallInv(d)'
  <2>1. pc'[d] = pc[d] /\ told'[d] = told[d]
    BY <1>5, <1>6 DEF Inv, TypeOK
  <2> QED
    BY <1>3, <1>4, <2>1, BystanderLoses
<1> QED
  BY <1>7, <1>10, <1>15, <1>16 DEF Inv

-----------------------------------------------------------------------------
(* The next page after those shown, and what is then left to show.          *)
LEMMA NextShown ==
    ASSUME NEW s \in Seq(Row), NEW u \in Seq(Row), NEW first \in Nat, NEW at \in Nat,
           NEW limit \in Nat \ {0}, UpTo(u, s, first, at)
    PROVE  LET next == NextOffset(at, Len(Cut(s, at, limit)), Len(s))
               more == u \o Cut(s, at, limit)
           IN  IF next = 0 THEN more = SubSeq(s, first + 1, Len(s)) ELSE UpTo(more, s, first, next)
<1> DEFINE rows == Cut(s, at, limit)
           n == Len(rows)
           more == u \o rows
           rest == SubSeq(s, first + 1, Len(s))
<1>1. Len(s) \in Nat /\ Len(u) = at - first /\ at >= first /\ (at = first \/ at <= Len(s))
  BY LenProperties DEF UpTo
<1>2. /\ rows \in Seq(Row)
      /\ n = IF Len(s) <= at THEN 0 ELSE IF at + limit <= Len(s) THEN limit ELSE Len(s) - at
      /\ \A i \in 1 .. n : rows[i] = s[at + i]
  BY CutIs DEF IsCut, CutLen
<1> HIDE DEF rows
<1>3. /\ more \in Seq(Row) /\ Len(more) = Len(u) + n
      /\ \A i \in 1 .. Len(u) + n : more[i] = IF i <= Len(u) THEN u[i] ELSE rows[i - Len(u)]
  BY <1>2, ConcatProperties
<1>4. n \in Nat /\ n = IF Len(s) <= at THEN 0 ELSE IF at + limit <= Len(s) THEN limit ELSE Len(s) - at
  BY <1>1, <1>2
<1>5. Len(more) = Len(u) + n
  BY <1>3
<1> HIDE DEF n, more
<1>6. ASSUME NEW j \in 1 .. Len(more) PROVE more[j] = s[first + j]
  <2>1. j \in 1 .. Len(u) + n
    BY <1>5
  <2>2. CASE j <= Len(u)
    <3>1. j \in 1 .. Len(u)
      BY <1>1, <1>4, <2>1, <2>2
    <3>2. more[j] = u[j]
      BY <1>3, <2>1, <2>2
    <3> QED
      BY <3>1, <3>2 DEF UpTo
  <2>3. CASE ~(j <= Len(u))
    <3>1. j - Len(u) \in 1 .. n /\ at + (j - Len(u)) = first + j
      BY <1>1, <1>4, <2>1, <2>3
    <3>2. more[j] = rows[j - Len(u)]
      BY <1>3, <2>1, <2>3
    <3> QED
      BY <1>2, <3>1, <3>2
  <2> QED
    BY <2>2, <2>3
<1>7. ASSUME n # 0, ~(at + n >= Len(s)) PROVE UpTo(more, s, first, at + n)
  <2>1. at + n \in first .. Len(s) /\ Len(more) = (at + n) - first
    BY <1>1, <1>4, <1>5, <1>7
  <2>2. \A k \in 1 .. Len(more) : more[k] = s[first + k]
    BY <1>6
  <2> DEFINE next == at + n
  <2>3. next \in first .. Len(s) /\ Len(more) = next - first
    BY <2>1
  <2> HIDE DEF next
  <2>4. UpTo(more, s, first, next)
    BY <2>2, <2>3 DEF UpTo
  <2> QED
    BY <2>4 DEF next
<1>8. ASSUME n = 0 \/ at + n >= Len(s) PROVE more = rest
  <2>1. \A i \in first + 1 .. Len(s) : s[i] \in Row
    BY <1>1, ElementOfSeq
  <2>2. /\ rest \in Seq(Row) /\ Len(rest) = IF first + 1 <= Len(s) THEN Len(s) - (first + 1) + 1 ELSE 0
        /\ \A i \in 1 .. Len(s) - (first + 1) + 1 : rest[i] = s[first + 1 + i - 1]
    BY <1>1, <2>1, SubSeqProperties
  <2> HIDE DEF rest
  <2>3. Len(more) = IF first + 1 <= Len(s) THEN Len(s) - (first + 1) + 1 ELSE 0
    <3>1. CASE at = first
      BY <1>1, <1>4, <1>5, <1>8, <3>1
    <3>2. CASE at # first
      <4>1. n = Len(s) - at
        BY <1>1, <1>4, <1>8, <3>2
      <4>2. Len(more) = Len(s) - first /\ first < Len(s)
        BY <1>1, <1>5, <3>2, <4>1
      <4> QED
        BY <1>1, <4>2
    <3> QED
      BY <3>1, <3>2
  <2>4. ASSUME NEW i \in 1 .. Len(more) PROVE more[i] = rest[i]
    <3>1. i \in 1 .. Len(s) - (first + 1) + 1 /\ first + 1 + i - 1 = first + i
      BY <1>1, <2>3
    <3>2. rest[i] = s[first + i]
      BY <2>2, <3>1
    <3> QED
      BY <1>6, <3>2
  <2>5. Len(more) = Len(rest)
    BY <2>2, <2>3
  <2> QED
    BY <1>3, <2>2, <2>4, <2>5, SeqEqual
<1>9. IF NextOffset(at, n, Len(s)) = 0 THEN n = 0 \/ at + n >= Len(s)
      ELSE n # 0 /\ ~(at + n >= Len(s)) /\ NextOffset(at, n, Len(s)) = at + n
  BY <1>1, <1>4 DEF NextOffset
<1>10. IF NextOffset(at, n, Len(s)) = 0 THEN more = rest
       ELSE UpTo(more, s, first, NextOffset(at, n, Len(s)))
  BY <1>7, <1>8, <1>9
<1> QED
  BY <1>10 DEF n, more, rows

(* The next page of a list whose rows before offset are shown, as Show      *)
(* answers it: what it leaves behind when the rows it shows hide none, and  *)
(* are the next of the list if that stands still.                           *)
HidesNone(c, rows, all) ==
    \A i \in AskedAt(c) :
       \/ Place(c, i) <= offset[c] + Len(rows)
       \/ Len(rows) = 0
       \/ offset[c] + Len(rows) >= all
       => began[c][i] \in ToSet(seen[c] \o rows)

(* An answer to a walk, whatever was read for it.                           *)
LEMMA ShowInv ==
    ASSUME NEW c \in Call, NEW rows \in Seq(Row), NEW all \in Nat,
           Inv, pc[c] \in {"read", "second"}, asks[c].tool \in Walks, Show(c, rows, all),
           UNCHANGED <<list, newest, asks, told, began, came, torn, left>>,
           got' \in [Call -> Seq(Row)], page' \in [Call -> Nat], total' \in [Call -> Nat],
           \A d \in Call \ {c} : got'[d] = got[d] /\ page'[d] = page[d] /\ total'[d] = total[d],
           \A k \in 1 .. Len(got'[c]) : got'[c][k] <= newest,
           c \notin left \cup torn => HidesNone(c, rows, all),
           c \notin came \cup left =>
              /\ rows = Cut(Newer(asks[c], began[c]), offset[c], Limit(asks[c]))
              /\ all = Len(Newer(asks[c], began[c]))
    PROVE  Inv'
<1> DEFINE n == Len(rows)
           next == NextOffset(offset[c], n, all)
           to == IF next = 0 THEN "done" ELSE "shown"
           from == IF next = 0 THEN offset[c] ELSE next
<1>1. /\ n \in Nat /\ offset[c] \in Nat /\ seen[c] \in Seq(Row) /\ Len(seen[c]) \in Nat
      /\ asks[c] # None /\ asks[c] \in Request[c] /\ began[c] \in Seq(Row)
      /\ told[c] = <<>> /\ asks[c].tool # "remove"
  BY Typed, LenProperties DEF Inv, CallInv, StageOf, Walks
<1>2. /\ next = 0 <=> n = 0 \/ offset[c] + n >= all
      /\ next # 0 => next = offset[c] + n
      /\ from \in Nat
  BY <1>1 DEF NextOffset
<1>3. /\ seen' = [seen EXCEPT ![c] = @ \o rows] /\ seen'[c] = seen[c] \o rows
      /\ pc' = [pc EXCEPT ![c] = to] /\ pc'[c] = to
      /\ offset' = [offset EXCEPT ![c] = from] /\ offset'[c] = from
  <2>1. offset = [offset EXCEPT ![c] = offset[c]]
    BY DEF Inv, TypeOK
  <2>2. /\ seen' = [seen EXCEPT ![c] = @ \o rows]
        /\ pc' = [pc EXCEPT ![c] = to]
        /\ offset' = [offset EXCEPT ![c] = from]
    BY <2>1 DEF Show, Goes
  <2> QED
    BY <2>2 DEF Inv, TypeOK
<1>4. /\ seen[c] \o rows \in Seq(Row) /\ Len(seen[c] \o rows) = Len(seen[c]) + n
      /\ \A i \in 1 .. Len(seen[c]) + n :
            (seen[c] \o rows)[i] = IF i <= Len(seen[c]) THEN seen[c][i] ELSE rows[i - Len(seen[c])]
  BY <1>1, ConcatProperties
<1> HIDE DEF n, next, from
<1>5. to \in {"done", "shown"}
  OBVIOUS
<1>6. TypeOK'
  <2>1. seen' \in [Call -> Seq(Row)] /\ offset' \in [Call -> Nat]
    BY <1>2, <1>3, <1>4 DEF Inv, TypeOK
  <2>2. pc' \in [Call -> {"new", "read", "second", "shown", "check", "remove", "done", "failed", "missing"}]
    BY <1>3, <1>5 DEF Inv, TypeOK
  <2> QED
    BY <2>1, <2>2 DEF Inv, TypeOK
<1>7. StageOf(c)' /\ SuffixOf(c)'
  <2>1. StageOf(c)'
    BY <1>1, <1>3, <1>5 DEF StageOf
  <2>2. SuffixOf(c)'
    BY <1>1, <1>3 DEF Inv, CallInv, SuffixOf, Place
  <2> QED
    BY <2>1, <2>2
<1>8. ReadOf(c)' /\ HalfOf(c)' /\ RemovalOf(c)'
  BY <1>1, <1>3, <1>5 DEF ReadOf, Reading, HalfOf, RemovalOf
<1>9. ShownOf(c)'
  <2> SUFFICES ASSUME c \notin left \cup torn
               PROVE  /\ to = "shown" => \A i \in AskedAt(c) : Place(c, i) <= from => began[c][i] \in ToSet(seen[c] \o rows)
                      /\ to = "done" => \A i \in AskedAt(c) : began[c][i] \in ToSet(seen[c] \o rows)
    BY <1>3, <1>5 DEF ShownOf, Walking, WalkedOut, AskedAt, Place
  <2> QED
    BY <1>2 DEF HidesNone, n, from
<1>10. StillOf(c)'
  <2> DEFINE whole == Newer(asks[c], began[c])
             first == From(asks[c])
             limit == Limit(asks[c])
  <2>1. ASSUME c \notin came \cup left
        PROVE  IF next = 0 THEN seen[c] \o rows = SubSeq(whole, first + 1, Len(whole))
               ELSE UpTo(seen[c] \o rows, whole, first, next)
    <3>1. whole \in Seq(Row) /\ first \in Nat /\ limit \in Nat \ {0}
      BY <1>1, NewerIs, Settled, ListingsAssumption DEF UntilOlder
    <3>2. UpTo(seen[c], whole, first, offset[c])
      BY <2>1 DEF Inv, CallInv, StillOf, Walking
    <3>3. rows = Cut(whole, offset[c], limit) /\ next = NextOffset(offset[c], Len(rows), Len(whole))
      BY <2>1 DEF n, next
    <3> HIDE DEF whole, first, limit
    <3> DEFINE after == NextOffset(offset[c], Len(Cut(whole, offset[c], limit)), Len(whole))
               more == seen[c] \o Cut(whole, offset[c], limit)
    <3>4. IF after = 0 THEN more = SubSeq(whole, first + 1, Len(whole)) ELSE UpTo(more, whole, first, after)
      BY <1>1, <3>1, <3>2, NextShown
    <3>5. after = next /\ more = seen[c] \o rows
      BY <3>3
    <3> QED
      BY <3>4, <3>5
  <2> QED
    BY <1>3, <1>5, <2>1 DEF StillOf, Walking, WalkedOut, Asked, from
<1>11. CallInv(c)'
  BY <1>7, <1>8, <1>9, <1>10 DEF CallInv
<1>12. \A d \in Call \ {c} : pc'[d] = pc[d] /\ seen'[d] = seen[d] /\ offset'[d] = offset[d]
  BY <1>3 DEF Inv, TypeOK
<1> QED
  BY <1>6, <1>11, <1>12, OneCall

-----------------------------------------------------------------------------
(* A page inside one of Radarr's, or in the last one.                       *)
LEMMA CutOfCut ==
    ASSUME NEW s \in Seq(Row), NEW a \in Nat, NEW limit \in Nat, NEW k \in Nat,
           k = 0 \/ a + limit >= Len(s)
    PROVE  Cut(Cut(s, a, limit), k, limit) = Cut(s, a + k, limit)
<1> DEFINE t == Cut(s, a, limit)
           u == Cut(t, k, limit)
<1>1. /\ t \in Seq(Row) /\ Len(t) = CutLen(Len(s), a, limit)
      /\ \A i \in 1 .. Len(t) : t[i] = s[a + i]
  BY CutIs DEF IsCut
<1> HIDE DEF t
<1>2. /\ u \in Seq(Row) /\ Len(u) = CutLen(Len(t), k, limit)
      /\ \A i \in 1 .. Len(u) : u[i] = t[k + i]
  BY <1>1, CutIs DEF IsCut
<1>3. Len(s) \in Nat /\ Len(t) \in Nat /\ Len(u) \in Nat
  BY <1>1, <1>2, LenProperties
<1> HIDE DEF u
<1>4. Len(u) = CutLen(Len(s), a + k, limit)
  <2>1. Len(t) = CutLen(Len(s), a, limit) /\ Len(u) = CutLen(Len(t), k, limit)
    BY <1>1, <1>2
  <2> QED
    BY <1>3, <2>1 DEF CutLen
<1>5. ASSUME NEW i \in 1 .. Len(u) PROVE u[i] = s[(a + k) + i]
  <2>1. u[i] = t[k + i]
    BY <1>2
  <2>2. k + i \in 1 .. Len(t)
    <3>1. Len(u) = CutLen(Len(t), k, limit)
      BY <1>2
    <3> QED
      BY <1>3, <3>1 DEF CutLen
  <2>3. a + (k + i) = (a + k) + i
    BY <1>3
  <2>4. t[k + i] = s[a + (k + i)]
    BY <1>1, <2>2
  <2> QED
    BY <2>1, <2>3, <2>4
<1>6. a + k \in Nat
  OBVIOUS
<1>7. u = Cut(s, a + k, limit)
  <2>1. IsCut(u, s, a + k, limit)
    BY <1>2, <1>4, <1>5 DEF IsCut
  <2> QED
    BY <1>6, <2>1, CutThat
<1> QED
  BY <1>7 DEF u, t

(* A page that begins in one of Radarr's and goes on in the next.           *)
LEMMA CutOfTwo ==
    ASSUME NEW s \in Seq(Row), NEW a \in Nat, NEW limit \in Nat, NEW k \in Nat,
           k < limit, a + limit < Len(s)
    PROVE  Cut(Cut(s, a, limit) \o Cut(s, a + limit, limit), k, limit) = Cut(s, a + k, limit)
<1> DEFINE t1 == Cut(s, a, limit)
           t2 == Cut(s, a + limit, limit)
           t == t1 \o t2
           u == Cut(t, k, limit)
<1>1. /\ t1 \in Seq(Row) /\ Len(t1) = CutLen(Len(s), a, limit)
      /\ \A i \in 1 .. Len(t1) : t1[i] = s[a + i]
  BY CutIs DEF IsCut
<1>2. /\ t2 \in Seq(Row) /\ Len(t2) = CutLen(Len(s), a + limit, limit)
      /\ \A i \in 1 .. Len(t2) : t2[i] = s[(a + limit) + i]
  <2>1. a + limit \in Nat
    OBVIOUS
  <2> QED
    BY <2>1, CutIs DEF IsCut
<1> HIDE DEF t1, t2
<1>3. /\ t \in Seq(Row) /\ Len(t) = Len(t1) + Len(t2)
      /\ \A i \in 1 .. Len(t1) + Len(t2) : t[i] = IF i <= Len(t1) THEN t1[i] ELSE t2[i - Len(t1)]
  BY <1>1, <1>2, ConcatProperties
<1> HIDE DEF t
<1>4. /\ u \in Seq(Row) /\ Len(u) = CutLen(Len(t), k, limit)
      /\ \A i \in 1 .. Len(u) : u[i] = t[k + i]
  BY <1>3, CutIs DEF IsCut
<1>5. Len(s) \in Nat /\ Len(t1) \in Nat /\ Len(t2) \in Nat /\ Len(t) \in Nat /\ Len(u) \in Nat
  BY <1>1, <1>2, <1>3, <1>4, LenProperties
<1> HIDE DEF u
<1>6. /\ Len(t1) = limit /\ Len(t2) = CutLen(Len(s), a + limit, limit) /\ Len(t) = Len(t1) + Len(t2)
      /\ Len(u) = CutLen(Len(t), k, limit)
  <2>1. Len(t1) = CutLen(Len(s), a, limit)
    BY <1>1
  <2>2. Len(t1) = limit
    BY <1>5, <2>1 DEF CutLen
  <2> QED
    BY <1>2, <1>3, <1>4, <2>2
<1>7. Len(u) = CutLen(Len(s), a + k, limit)
  BY <1>5, <1>6 DEF CutLen
<1>8. ASSUME NEW i \in 1 .. Len(u) PROVE u[i] = s[(a + k) + i]
  <2>1. u[i] = t[k + i]
    BY <1>4
  <2>2. k + i \in 1 .. Len(t1) + Len(t2)
    BY <1>5, <1>6 DEF CutLen
  <2>3. t[k + i] = IF k + i <= Len(t1) THEN t1[k + i] ELSE t2[(k + i) - Len(t1)]
    BY <1>3, <2>2
  <2>4. CASE k + i <= Len(t1)
    <3>1. k + i \in 1 .. Len(t1) /\ a + (k + i) = (a + k) + i
      BY <1>5, <2>4
    <3>2. t1[k + i] = s[a + (k + i)]
      BY <1>1, <3>1
    <3> QED
      BY <2>1, <2>3, <2>4, <3>1, <3>2
  <2>5. CASE ~(k + i <= Len(t1))
    <3>1. (k + i) - Len(t1) \in 1 .. Len(t2) /\ (a + limit) + ((k + i) - Len(t1)) = (a + k) + i
      BY <1>5, <1>6, <2>2, <2>5
    <3>2. t2[(k + i) - Len(t1)] = s[(a + limit) + ((k + i) - Len(t1))]
      BY <1>2, <3>1
    <3> QED
      BY <2>1, <2>3, <2>5, <3>1, <3>2
  <2> QED
    BY <2>4, <2>5
<1>9. a + k \in Nat
  OBVIOUS
<1>10. u = Cut(s, a + k, limit)
  <2>1. IsCut(u, s, a + k, limit)
    BY <1>4, <1>7, <1>8 DEF IsCut
  <2> QED
    BY <1>9, <2>1, CutThat
<1> QED
  BY <1>10 DEF u, t, t1, t2

-----------------------------------------------------------------------------
(* Nothing else is what Newer keeps.                                        *)
LEMMA NewerThat ==
    ASSUME NEW rq, NEW s \in Seq(Row), rq.tool = "recent" => rq.since \in Int,
           NEW u, UntilOlder(u, rq, s)
    PROVE  u = Newer(rq, s)
<1>1. Len(s) \in Nat /\ \A i \in 1 .. Len(s) : s[i] \in Int
  BY LenProperties, ElementOfSeq, ListingsAssumption DEF Row
<1>2. ASSUME NEW x, NEW y, UntilOlder(x, rq, s), UntilOlder(y, rq, s) PROVE ~(Len(x) < Len(y))
  <2> SUFFICES ASSUME Len(x) < Len(y) PROVE FALSE
    OBVIOUS
  <2>1. /\ Len(y) <= Len(s)
        /\ \A i \in 1 .. Len(y) : rq.tool = "recent" => s[i] >= rq.since
        /\ Len(x) = Len(s) \/ (rq.tool = "recent" /\ s[Len(x) + 1] < rq.since)
    BY <1>2 DEF UntilOlder
  <2>2. Len(x) \in Nat /\ Len(y) \in Nat
    BY <1>2, LenProperties DEF UntilOlder
  <2>3. Len(x) + 1 \in 1 .. Len(y) /\ Len(x) + 1 \in 1 .. Len(s) /\ Len(x) # Len(s)
    BY <1>1, <2>1, <2>2
  <2>4. rq.tool = "recent" /\ s[Len(x) + 1] < rq.since
    BY <2>1, <2>3
  <2>5. s[Len(x) + 1] >= rq.since
    BY <2>1, <2>3, <2>4
  <2> QED
    BY <1>1, <2>3, <2>4, <2>5
<1> DEFINE v == Newer(rq, s)
<1>3. UntilOlder(v, rq, s)
  BY NewerIs
<1> HIDE DEF v
<1>4. /\ u \in Seq(Row) /\ Len(u) \in Nat /\ \A i \in 1 .. Len(u) : u[i] = s[i]
      /\ v \in Seq(Row) /\ Len(v) \in Nat /\ \A i \in 1 .. Len(v) : v[i] = s[i]
  BY <1>3, LenProperties DEF UntilOlder
<1>5. ~(Len(u) < Len(v)) /\ ~(Len(v) < Len(u))
  BY <1>2, <1>3
<1>6. Len(u) = Len(v)
  BY <1>4, <1>5
<1>7. \A i \in 1 .. Len(u) : u[i] = v[i]
  BY <1>4, <1>6
<1>8. u = v
  BY <1>4, <1>6, <1>7, SeqEqual
<1> QED
  BY <1>8 DEF v

(* Where a row that c began with is, and that it is nowhere else.           *)
LEMMA PlaceIs ==
    ASSUME Inv, NEW c \in Call, pc[c] # "new", c \notin left, NEW i \in 1 .. Len(began[c])
    PROVE  /\ Place(c, i) \in 1 .. Len(list)
           /\ list[Place(c, i)] = began[c][i]
           /\ \A k \in 1 .. Len(list) : list[k] = began[c][i] => k = Place(c, i)
<1>1. Len(list) \in Nat /\ Len(began[c]) \in Nat /\ Len(began[c]) <= Len(list)
  BY Typed DEF Inv, CallInv, SuffixOf
<1>2. Place(c, i) \in 1 .. Len(list)
  BY <1>1 DEF Place
<1>3. list[Place(c, i)] = began[c][i]
  BY DEF Inv, CallInv, SuffixOf
<1>4. \A j, k \in 1 .. Len(list) : j < k => list[j] > list[k]
  BY DEF Inv, ListOf, Descending
<1>5. \A j \in 1 .. Len(list) : list[j] \in Int
  BY Typed, RowsAre DEF Inv
<1>6. ASSUME NEW k \in 1 .. Len(list), list[k] = began[c][i] PROVE k = Place(c, i)
  <2>1. CASE k < Place(c, i)
    BY <1>2, <1>3, <1>4, <1>5, <1>6, <2>1
  <2>2. CASE Place(c, i) < k
    BY <1>2, <1>3, <1>4, <1>5, <1>6, <2>2
  <2> QED
    BY <1>2, <2>1, <2>2
<1> QED
  BY <1>2, <1>3, <1>6

(* A list that stood still is as it was when c began.                       *)
LEMMA StillList ==
    ASSUME Inv, NEW c \in Call, pc[c] # "new", c \notin came \cup left
    PROVE  list = began[c]
<1>1. /\ list \in Seq(Row) /\ began[c] \in Seq(Row)
      /\ Len(list) \in Nat /\ Len(list) = Len(began[c])
  BY Typed DEF Inv, CallInv, SuffixOf
<1>2. ASSUME NEW i \in 1 .. Len(list) PROVE list[i] = began[c][i]
  <2>1. Place(c, i) = i
    BY <1>1 DEF Place
  <2> QED
    BY <1>1, <2>1, PlaceIs
<1> QED
  BY <1>1, <1>2, SeqEqual

(* The rows a walk is to show are among those it began with.                *)
LEMMA AskedIs ==
    ASSUME Inv, NEW c \in Call, asks[c] # None, asks[c].tool # "remove", NEW i \in AskedAt(c)
    PROVE  /\ i \in 1 .. Len(began[c]) /\ i > From(asks[c])
           /\ asks[c].tool = "recent" => began[c][i] >= asks[c].since
<1> DEFINE kept == Newer(asks[c], began[c])
<1>1. began[c] \in Seq(Row) /\ Len(began[c]) \in Nat /\ asks[c] \in Request[c]
  BY Typed DEF Inv
<1>2. From(asks[c]) \in Nat /\ asks[c].since \in Int
  BY <1>1, Settled, ListingsAssumption
<1>3. /\ Len(kept) \in 0 .. Len(began[c])
      /\ \A k \in 1 .. Len(kept) : asks[c].tool = "recent" => began[c][k] >= asks[c].since
  <2>1. UntilOlder(kept, asks[c], began[c])
    BY <1>1, <1>2, NewerIs
  <2> HIDE DEF kept
  <2>2. kept \in Seq(Row) /\ Len(kept) <= Len(began[c])
    BY <2>1 DEF UntilOlder
  <2>3. Len(kept) \in Nat
    BY <2>2, LenProperties
  <2>4. Len(kept) \in 0 .. Len(began[c])
    BY <1>1, <2>2, <2>3
  <2> QED
    BY <2>1, <2>4 DEF UntilOlder
<1>4. i \in From(asks[c]) + 1 .. Len(kept)
  BY DEF AskedAt
<1> HIDE DEF kept
<1>5. i \in 1 .. Len(kept) /\ i \in 1 .. Len(began[c]) /\ i > From(asks[c])
  <2>1. Len(kept) \in Nat /\ Len(kept) <= Len(began[c])
    BY <1>1, <1>3
  <2> QED
    BY <1>1, <1>2, <1>4, <2>1
<1> QED
  BY <1>3, <1>5

-----------------------------------------------------------------------------
(* What is read of a list is enough to show: every row asked for is in it,  *)
(* no later than it is now in the list; and those of it before where the    *)
(* next page of the walk begins have been shown.                            *)
Covers(c, rows) ==
    \A i \in AskedAt(c) :
       /\ Place(c, i) <= Len(rows)
       /\ \E k \in 1 .. Len(rows) : k <= Place(c, i) /\ rows[k] = began[c][i]
NoneBefore(c, rows) ==
    \A i \in AskedAt(c), k \in 1 .. Len(rows) :
       k <= offset[c] /\ rows[k] = began[c][i] => began[c][i] \in ToSet(seen[c])

(* A page cut from rows that are enough hides none of those asked for.      *)
LEMMA Covered ==
    ASSUME Inv, NEW c \in Call, Walking(c), c \notin left \cup torn,
           NEW rows \in Seq(Row), NEW limit \in Nat \ {0},
           Covers(c, rows), NoneBefore(c, rows)
    PROVE  HidesNone(c, Cut(rows, offset[c], limit), Len(rows))
<1> DEFINE shown == Cut(rows, offset[c], limit)
<1>1. /\ shown \in Seq(Row) /\ Len(shown) = CutLen(Len(rows), offset[c], limit)
      /\ \A i \in 1 .. Len(shown) : shown[i] = rows[offset[c] + i]
  <2>1. offset[c] \in Nat
    BY Typed DEF Inv
  <2> QED
    BY <2>1, CutIs DEF IsCut
<1> HIDE DEF shown
<1>2. /\ Len(rows) \in Nat /\ Len(shown) \in Nat /\ offset[c] \in Nat /\ seen[c] \in Seq(Row)
      /\ Len(list) \in Nat /\ Len(began[c]) \in Nat /\ pc[c] # "new" /\ asks[c] # None
      /\ asks[c].tool # "remove"
  BY <1>1, Typed, LenProperties DEF Inv, CallInv, StageOf, Walking, Walks
<1>3. \A x : x \in ToSet(seen[c] \o shown) <=> x \in ToSet(seen[c]) \/ x \in ToSet(shown)
  BY <1>1, <1>2, Together
<1>4. ASSUME NEW i \in AskedAt(c),
             \/ Place(c, i) <= offset[c] + Len(shown)
             \/ Len(shown) = 0
             \/ offset[c] + Len(shown) >= Len(rows)
      PROVE  began[c][i] \in ToSet(seen[c] \o shown)
  <2>1. i \in Int /\ Place(c, i) \in Int
    BY <1>2, AskedIs DEF Place
  <2>2. PICK k \in 1 .. Len(rows) : k <= Place(c, i) /\ rows[k] = began[c][i]
    BY DEF Covers
  <2>3. CASE Place(c, i) <= offset[c]
    <3>1. began[c][i] \in ToSet(seen[c])
      BY <2>3 DEF Inv, CallInv, ShownOf
    <3> QED
      BY <1>3, <3>1
  <2>4. CASE k <= offset[c]
    <3>1. began[c][i] \in ToSet(seen[c])
      BY <2>2, <2>4 DEF NoneBefore
    <3> QED
      BY <1>3, <3>1
  <2>5. CASE ~(Place(c, i) <= offset[c]) /\ ~(k <= offset[c])
    <3>1. Place(c, i) <= Len(rows)
      BY DEF Covers
    <3>2. Len(shown) = CutLen(Len(rows), offset[c], limit)
      BY <1>1
    <3>3. k - offset[c] \in 1 .. Len(shown)
      <4>1. offset[c] < k /\ k <= Len(rows)
        BY <1>2, <2>2, <2>5
      <4>2. Len(shown) # 0
        BY <1>2, <3>2, <4>1 DEF CutLen
      <4>3. k <= offset[c] + Len(shown)
        BY <1>2, <1>4, <2>1, <2>2, <4>1, <4>2
      <4> QED
        BY <1>2, <4>1, <4>3
    <3>4. offset[c] + (k - offset[c]) = k
      BY <1>2
    <3>5. shown[k - offset[c]] = began[c][i]
      BY <1>1, <2>2, <3>3, <3>4
    <3>6. began[c][i] \in ToSet(shown)
      BY <1>1, <3>3, <3>5, Elements
    <3> QED
      BY <1>3, <3>6
  <2> QED
    BY <2>3, <2>4, <2>5
<1> QED
  BY <1>4 DEF HidesNone, shown

-----------------------------------------------------------------------------
(* A window: one page of Radarr's read, or two.                             *)
LEMMA DivMod ==
    ASSUME NEW n \in Nat, NEW d \in Nat \ {0}
    PROVE  /\ n \div d \in Nat /\ n % d \in Nat /\ n % d < d
           /\ (n \div d) * d + (n % d) = n
OBVIOUS

(* The next page of the list as it is hides none of it.                     *)
LEMMA ListCovers ==
    ASSUME Inv, NEW c \in Call, Walking(c), c \notin left \cup torn
    PROVE  Covers(c, list) /\ NoneBefore(c, list)
<1>1. pc[c] # "new" /\ asks[c] # None /\ asks[c].tool # "remove"
  BY DEF Inv, CallInv, StageOf, Walking, Walks
<1>2. Len(list) \in Nat
  BY Typed DEF Inv
<1>3. ASSUME NEW i \in AskedAt(c)
      PROVE  /\ Place(c, i) \in 1 .. Len(list) /\ list[Place(c, i)] = began[c][i]
             /\ \A k \in 1 .. Len(list) : list[k] = began[c][i] => k = Place(c, i)
  <2>1. i \in 1 .. Len(began[c])
    BY <1>1, AskedIs
  <2> QED
    BY <1>1, <2>1, PlaceIs
<1>4. Covers(c, list)
  <2> SUFFICES ASSUME NEW i \in AskedAt(c)
               PROVE  /\ Place(c, i) <= Len(list)
                      /\ \E k \in 1 .. Len(list) : k <= Place(c, i) /\ list[k] = began[c][i]
    BY DEF Covers
  <2>1. Place(c, i) \in 1 .. Len(list) /\ list[Place(c, i)] = began[c][i]
    BY <1>3
  <2>2. Place(c, i) <= Len(list) /\ Place(c, i) <= Place(c, i)
    BY <1>2, <2>1
  <2> QED
    BY <2>1, <2>2
<1>5. NoneBefore(c, list)
  <2> SUFFICES ASSUME NEW i \in AskedAt(c), NEW k \in 1 .. Len(list), k <= offset[c], list[k] = began[c][i]
               PROVE  began[c][i] \in ToSet(seen[c])
    BY DEF NoneBefore
  <2>1. Place(c, i) <= offset[c]
    BY <1>3
  <2> QED
    BY <2>1 DEF Inv, CallInv, ShownOf
<1> QED
  BY <1>4, <1>5

(* So a window of the list as it is hides none, and shows a still list as   *)
(* it is.                                                                   *)
LEMMA WindowShown ==
    ASSUME Inv, NEW c \in Call, Walking(c), asks[c].tool = "window"
    PROVE  /\ Limit(asks[c]) \in Nat \ {0}
           /\ c \notin left \cup torn => HidesNone(c, Cut(list, offset[c], Limit(asks[c])), Len(list))
           /\ c \notin came \cup left => list = Newer(asks[c], began[c])
<1>1. /\ pc[c] # "new" /\ asks[c] # None /\ asks[c] \in Request[c]
      /\ list \in Seq(Row) /\ Len(list) \in Nat
  BY Typed DEF Inv, CallInv, StageOf, Walking
<1>2. Limit(asks[c]) \in Nat \ {0}
  BY <1>1, Settled
<1>3. ASSUME c \notin left \cup torn PROVE HidesNone(c, Cut(list, offset[c], Limit(asks[c])), Len(list))
  BY <1>1, <1>2, <1>3, ListCovers, Covered
<1>4. ASSUME c \notin came \cup left PROVE list = Newer(asks[c], began[c])
  <2>1. list = began[c]
    BY <1>1, <1>4, StillList
  <2>2. UntilOlder(list, asks[c], list)
    BY <1>1 DEF UntilOlder
  <2> QED
    BY <1>1, <2>1, <2>2, NewerThat
<1> QED
  BY <1>2, <1>3, <1>4

(* The rows of a page are of the list.                                      *)
LEMMA Fetched ==
    ASSUME Inv, NEW number \in Nat \ {0}, NEW size \in Nat
    PROVE  /\ IsCut(Fetch(number, size), list, (number - 1) * size, size)
           /\ (number - 1) * size \in Nat
           /\ \A k \in 1 .. Len(Fetch(number, size)) : Fetch(number, size)[k] <= newest
<1> DEFINE a == (number - 1) * size
           rows == Fetch(number, size)
<1>1. a \in Nat /\ rows = Cut(list, a, size)
  BY FetchIsCut
<1>2. list \in Seq(Row) /\ Len(list) \in Nat
  BY LenProperties DEF Inv, TypeOK
<1> HIDE DEF a, rows
<1>3. IsCut(rows, list, a, size)
  BY <1>1, <1>2, CutIs
<1>4. /\ Len(rows) = CutLen(Len(list), a, size)
      /\ \A k \in 1 .. Len(rows) : rows[k] = list[a + k]
  BY <1>3 DEF IsCut
<1>5. ASSUME NEW k \in 1 .. Len(rows) PROVE rows[k] <= newest
  <2>1. a + k \in 1 .. Len(list)
    BY <1>1, <1>2, <1>4 DEF CutLen
  <2> QED
    BY <1>4, <2>1 DEF Inv, ListOf
<1> QED
  BY <1>1, <1>3, <1>5 DEF a, rows

(* The second half of a window, put after the first.                        *)
LEMMA ReadSecondInv == ASSUME NEW c \in Call, Inv, ReadSecond(c) PROVE Inv'
<1> DEFINE limit == Limit(asks[c])
           first == offset[c] \div limit
           next == Fetch(first + 2, limit)
           rows == got[c] \o next
           shown == Cut(rows, offset[c] % limit, limit)
<1>1. /\ pc[c] = "second" /\ asks[c].tool = "window" /\ Walking(c)
      /\ asks[c] # None /\ asks[c] \in Request[c]
      /\ list \in Seq(Row) /\ got[c] \in Seq(Row) /\ offset[c] \in Nat /\ total[c] \in Nat
  BY Typed DEF Inv, CallInv, StageOf, ReadSecond, Walking, Walks
<1>2. limit \in Nat \ {0}
  BY <1>1, WindowShown
<1> HIDE DEF limit
<1>3. /\ first \in Nat /\ offset[c] % limit \in Nat /\ offset[c] % limit < limit
      /\ first * limit + (offset[c] % limit) = offset[c]
  BY <1>1, <1>2, DivMod
<1> HIDE DEF first
<1>4. /\ first + 1 \in Nat \ {0} /\ first + 2 \in Nat \ {0} /\ (first + 1) - 1 = first
      /\ (first + 2) - 1 = first + 1 /\ (first + 1) * limit = first * limit + limit
      /\ first * limit \in Nat
  BY <1>2, <1>3
<1>5. next = Cut(list, (first + 1) * limit, limit) /\ next \in Seq(Row)
  <2>1. Fetch(first + 2, limit) = Cut(list, ((first + 2) - 1) * limit, limit)
    BY <1>2, <1>4, FetchIsCut
  <2>2. IsCut(Fetch(first + 2, limit), list, ((first + 2) - 1) * limit, limit)
    BY <1>2, <1>4, Fetched
  <2> QED
    BY <1>4, <2>1, <2>2 DEF IsCut
<1> HIDE DEF next
<1>6. rows \in Seq(Row)
  BY <1>1, <1>5, ConcatProperties
<1>7. shown \in Seq(Row)
  BY <1>2, <1>3, <1>6, CutIs DEF IsCut
<1>8. ASSUME c \notin left \cup torn
      PROVE  shown = Cut(list, offset[c], limit) /\ total[c] = Len(list)
  <2>1. got[c] = Fetch(first + 1, limit) /\ total[c] = Len(list) /\ (first + 1) * limit < Len(list)
    BY <1>1, <1>8 DEF Inv, CallInv, HalfOf, limit, first
  <2>2. got[c] = Cut(list, first * limit, limit)
    BY <1>2, <1>4, <2>1, FetchIsCut
  <2>3. rows = Cut(list, first * limit, limit) \o Cut(list, first * limit + limit, limit)
    BY <1>4, <1>5, <2>2
  <2>4. first * limit + limit < Len(list)
    BY <1>4, <2>1
  <2> DEFINE a == first * limit
             k == offset[c] % limit
  <2>5. a \in Nat /\ k \in Nat /\ k < limit /\ a + limit < Len(list) /\ a + k = offset[c]
    BY <1>3, <1>4, <2>4
  <2> HIDE DEF a, k
  <2>6. Cut(Cut(list, a, limit) \o Cut(list, a + limit, limit), k, limit) = Cut(list, a + k, limit)
    BY <1>1, <1>2, <2>5, CutOfTwo
  <2> QED
    BY <2>1, <2>3, <2>5, <2>6 DEF a, k
<1>9. /\ Show(c, shown, total[c])
      /\ UNCHANGED <<list, newest, asks, page, got, total, told, began, came, torn, left>>
  BY DEF ReadSecond, shown, rows, next, first, limit
<1>10. c \notin left \cup torn => HidesNone(c, shown, total[c])
  BY <1>1, <1>8, WindowShown DEF limit
<1>11. c \notin came \cup left => /\ shown = Cut(Newer(asks[c], began[c]), offset[c], Limit(asks[c]))
                                 /\ total[c] = Len(Newer(asks[c], began[c]))
  <2>1. torn \subseteq came
    BY DEF Inv, ListOf
  <2> QED
    BY <1>1, <1>8, <2>1, WindowShown DEF limit
<1> HIDE DEF shown
<1>12. \A k \in 1 .. Len(got[c]) : got[c][k] <= newest
  BY DEF Inv, CallInv, ReadOf
<1>13. got' \in [Call -> Seq(Row)] /\ page' \in [Call -> Nat] /\ total' \in [Call -> Nat]
  BY <1>9 DEF Inv, TypeOK
<1> QED
  BY <1>1, <1>7, <1>9, <1>10, <1>11, <1>12, <1>13, ShowInv DEF Walks

(* The first page of a window, which may do by itself.                      *)
LEMMA ReadWindowInv == ASSUME NEW c \in Call, Inv, ReadWindow(c) PROVE Inv'
<1> DEFINE limit == Limit(asks[c])
           first == offset[c] \div limit
           skip == offset[c] % limit
           rows == Fetch(first + 1, limit)
           shown == Cut(rows, skip, limit)
<1>1. /\ pc[c] = "read" /\ asks[c].tool = "window" /\ Walking(c) /\ ~Reading(c)
      /\ asks[c] # None /\ told[c] = <<>>
      /\ list \in Seq(Row) /\ Len(list) \in Nat /\ offset[c] \in Nat
  BY Typed DEF Inv, CallInv, StageOf, ReadWindow, Walking, Walks, Reading
<1>2. limit \in Nat \ {0}
  BY <1>1, WindowShown
<1>3. /\ got' = [got EXCEPT ![c] = rows] /\ total' = [total EXCEPT ![c] = Len(list)]
      /\ IF skip > 0 /\ (first + 1) * limit < Len(list)
         THEN Goes(c, "second") /\ UNCHANGED <<offset, seen>>
         ELSE Show(c, shown, Len(list))
      /\ UNCHANGED <<list, newest, asks, page, told, began, came, torn, left>>
  BY DEF ReadWindow
<1> HIDE DEF limit
<1>4. /\ first \in Nat /\ skip \in Nat /\ skip < limit
      /\ first * limit + skip = offset[c]
  BY <1>1, <1>2, DivMod
<1> HIDE DEF first, skip
<1>5. /\ first + 1 \in Nat \ {0} /\ (first + 1) - 1 = first
      /\ (first + 1) * limit = first * limit + limit /\ first * limit \in Nat
  BY <1>2, <1>4
<1>6. rows = Cut(list, first * limit, limit)
  BY <1>2, <1>5, FetchIsCut
<1>7. rows \in Seq(Row) /\ \A k \in 1 .. Len(rows) : rows[k] <= newest
  BY <1>2, <1>5, Fetched DEF IsCut
<1> HIDE DEF rows
<1>8. /\ got' \in [Call -> Seq(Row)] /\ page' \in [Call -> Nat] /\ total' \in [Call -> Nat]
      /\ got'[c] = rows /\ total'[c] = Len(list)
      /\ \A d \in Call \ {c} : got'[d] = got[d] /\ page'[d] = page[d] /\ total'[d] = total[d]
  BY <1>1, <1>3, <1>7 DEF Inv, TypeOK
<1>9. CASE skip > 0 /\ (first + 1) * limit < Len(list)
  <2>1. pc' = [pc EXCEPT ![c] = "second"] /\ pc'[c] = "second" /\ UNCHANGED <<offset, seen>>
    BY <1>3, <1>9 DEF Goes, Inv, TypeOK
  <2>2. TypeOK'
    BY <1>3, <1>8, <2>1 DEF Inv, TypeOK
  <2>3. StageOf(c)' /\ SuffixOf(c)'
    BY <1>1, <1>3, <2>1 DEF Inv, CallInv, StageOf, SuffixOf, Place
  <2>4. ReadOf(c)'
    BY <1>3, <1>7, <1>8, <2>1 DEF ReadOf, Reading
  <2>5. HalfOf(c)'
    <3>1. offset'[c] \div Limit(asks'[c]) = first /\ Limit(asks'[c]) = limit
      BY <1>3, <2>1 DEF first, limit
    <3>2. rows = Fetch(first + 1, limit)
      BY DEF rows
    <3> QED
      BY <1>3, <1>8, <1>9, <3>1, <3>2 DEF HalfOf, Fetch
  <2>6. ShownOf(c)' /\ StillOf(c)'
    <3>1. Walking(c) /\ ~WalkedOut(c)'
      BY <1>1, <2>1 DEF WalkedOut
    <3> QED
      BY <1>3, <2>1, <3>1 DEF Inv, CallInv, ShownOf, StillOf, Place, AskedAt
  <2>7. RemovalOf(c)'
    BY <1>1, <1>3, <2>1 DEF RemovalOf
  <2>8. CallInv(c)'
    BY <2>3, <2>4, <2>5, <2>6, <2>7 DEF CallInv
  <2>9. \A d \in Call \ {c} : pc'[d] = pc[d]
    BY <2>1 DEF Inv, TypeOK
  <2> QED
    BY <1>3, <1>8, <2>1, <2>2, <2>8, <2>9, OneCall
<1>10. CASE ~(skip > 0 /\ (first + 1) * limit < Len(list))
  <2>1. Show(c, shown, Len(list))
    BY <1>3, <1>10
  <2> DEFINE a == first * limit
  <2>2. a \in Nat /\ a + skip = offset[c] /\ (skip = 0 \/ a + limit >= Len(list))
    BY <1>1, <1>2, <1>4, <1>5, <1>10
  <2> HIDE DEF a
  <2>3. Cut(Cut(list, a, limit), skip, limit) = Cut(list, a + skip, limit)
    BY <1>1, <1>2, <1>4, <2>2, CutOfCut
  <2>4. shown = Cut(list, offset[c], limit)
    BY <1>6, <2>2, <2>3 DEF a
  <2>5. shown \in Seq(Row)
    BY <1>1, <1>2, <2>4, CutIs DEF IsCut
  <2> HIDE DEF shown
  <2>6. c \notin left \cup torn => HidesNone(c, shown, Len(list))
    BY <1>1, <2>4, WindowShown DEF limit
  <2>7. c \notin came \cup left => /\ shown = Cut(Newer(asks[c], began[c]), offset[c], Limit(asks[c]))
                                  /\ Len(list) = Len(Newer(asks[c], began[c]))
    BY <1>1, <2>4, WindowShown DEF limit
  <2> QED
    BY <1>1, <1>3, <1>7, <1>8, <2>1, <2>5, <2>6, <2>7, ShowInv DEF Walks
<1> QED
  BY <1>9, <1>10

-----------------------------------------------------------------------------
(* A list read whole, one page further: rows is what has then been read.    *)
ReadTo(c, rows) ==
    /\ rows \in Seq(Row)
    /\ Len(got[c]) <= Len(rows)
    /\ \A k \in 1 .. Len(got[c]) : rows[k] = got[c][k]
    /\ \A k \in Len(got[c]) + 1 .. Len(rows) : k \in 1 .. Len(list) /\ rows[k] = list[k]
    /\ \A k \in 1 .. Len(rows) : rows[k] <= newest /\ (asks[c].tool = "recent" => rows[k] >= asks[c].since)
    /\ IF LastPage(asks[c], Fetch(page[c], PageSize), page[c])
       THEN \/ Len(rows) >= Len(list)
            \/ /\ asks[c].tool = "recent"
               /\ Len(rows) + 1 \in 1 .. Len(list)
               /\ list[Len(rows) + 1] < asks[c].since
       ELSE Len(rows) = page[c] * PageSize

(* Reading the next page of Radarr's comes to that.                         *)
LEMMA ReadOn ==
    ASSUME NEW c \in Call, Inv, Reading(c)
    PROVE  ReadTo(c, got[c] \o Newer(asks[c], Fetch(page[c], PageSize)))
<1> DEFINE rq == asks[c]
           p == Fetch(page[c], PageSize)
           new == Newer(rq, p)
           m == Len(got[c])
           all == got[c] \o new
<1>1. /\ rq # None /\ rq \in Request[c] /\ got[c] \in Seq(Row) /\ m \in Nat
      /\ list \in Seq(Row) /\ Len(list) \in Nat /\ page[c] \in Nat \ {0} /\ PageSize \in Nat \ {0}
      /\ m = (page[c] - 1) * PageSize
      /\ \A k \in 1 .. m : got[c][k] <= newest /\ (rq.tool = "recent" => got[c][k] >= rq.since)
  <2>1. StageOf(c) /\ ReadOf(c) /\ TypeOK
    BY DEF Inv, CallInv
  <2>2. rq # None
    BY <2>1 DEF StageOf, Reading
  <2> QED
    BY <2>1, <2>2, Typed DEF ReadOf
<1>2. rq.tool = "recent" => rq.since \in Int
  BY <1>1, ListingsAssumption
<1>3. /\ p \in Seq(Row) /\ Len(p) = CutLen(Len(list), m, PageSize)
      /\ \A k \in 1 .. Len(p) : p[k] = list[m + k] /\ p[k] <= newest
  <2>1. /\ IsCut(p, list, (page[c] - 1) * PageSize, PageSize)
        /\ \A k \in 1 .. Len(p) : p[k] <= newest
    BY <1>1, Fetched
  <2>2. IsCut(p, list, m, PageSize)
    BY <1>1, <2>1
  <2> HIDE DEF p, m
  <2> QED
    BY <2>1, <2>2 DEF IsCut
<1> HIDE DEF p
<1>4. UntilOlder(new, rq, p) /\ (Older(rq, p) = {} <=> Len(new) = Len(p))
  BY <1>2, <1>3, NewerIs
<1> HIDE DEF new
<1>5. /\ new \in Seq(Row) /\ Len(new) <= Len(p)
      /\ \A k \in 1 .. Len(new) : new[k] = p[k] /\ (rq.tool = "recent" => p[k] >= rq.since)
      /\ Len(new) = Len(p) \/ (rq.tool = "recent" /\ p[Len(new) + 1] < rq.since)
  BY <1>4 DEF UntilOlder
<1>6. Len(p) \in Nat /\ Len(new) \in Nat
  BY <1>3, <1>5, LenProperties
<1>7. /\ all \in Seq(Row) /\ Len(all) = m + Len(new)
      /\ \A i \in 1 .. m + Len(new) : all[i] = IF i <= m THEN got[c][i] ELSE new[i - m]
  <2>1. got[c] \in Seq(Row) /\ new \in Seq(Row)
    BY <1>1, <1>5
  <2> QED
    BY <2>1, ConcatProperties
<1> HIDE DEF all, m
<1>8. m \in Nat /\ Len(list) \in Nat /\ PageSize \in Nat \ {0} /\ Len(p) \in Nat /\ Len(new) \in Nat
  BY <1>1, <1>6
<1>9. \A k \in 1 .. m : k \in 1 .. Len(all) /\ all[k] = got[c][k]
  <2>1. ASSUME NEW k \in 1 .. m PROVE k \in 1 .. Len(all) /\ k \in 1 .. m + Len(new) /\ k <= m
    BY <1>8, <1>7
  <2> QED
    BY <1>7, <2>1
<1>10. Len(p) = CutLen(Len(list), m, PageSize) /\ Len(new) <= Len(p) /\ Len(all) = m + Len(new)
  BY <1>3, <1>5, <1>7
<1>11. ASSUME NEW k \in m + 1 .. Len(all)
       PROVE  /\ k \in 1 .. Len(list) /\ all[k] = list[k] /\ all[k] <= newest
              /\ rq.tool = "recent" => all[k] >= rq.since
  <2>1. /\ k - m \in 1 .. Len(new) /\ k - m \in 1 .. Len(p) /\ k \in 1 .. m + Len(new) /\ ~(k <= m)
        /\ m + (k - m) = k
    BY <1>8, <1>10
  <2>2. k \in 1 .. Len(list)
    BY <1>8, <1>10, <2>1 DEF CutLen
  <2>3. all[k] = new[k - m]
    BY <1>7, <2>1
  <2>4. new[k - m] = p[k - m] /\ (rq.tool = "recent" => p[k - m] >= rq.since)
    BY <1>5, <2>1
  <2>5. p[k - m] = list[k] /\ p[k - m] <= newest
    BY <1>3, <2>1
  <2> QED
    BY <2>2, <2>3, <2>4, <2>5
<1>12. ASSUME NEW k \in 1 .. Len(all)
       PROVE  all[k] <= newest /\ (rq.tool = "recent" => all[k] >= rq.since)
  <2>1. k \in 1 .. m \/ k \in m + 1 .. Len(all)
    BY <1>8, <1>10
  <2> QED
    BY <1>1, <1>9, <1>11, <2>1
<1>13. ASSUME Older(rq, p) # {}
       PROVE  /\ rq.tool = "recent" /\ Len(all) + 1 \in 1 .. Len(list)
              /\ list[Len(all) + 1] < rq.since
  <2>1. Len(new) # Len(p) /\ rq.tool = "recent" /\ p[Len(new) + 1] < rq.since
    BY <1>4, <1>5, <1>13
  <2>2. Len(new) + 1 \in 1 .. Len(p) /\ m + (Len(new) + 1) = Len(all) + 1
    BY <1>8, <1>10, <2>1
  <2>3. Len(all) + 1 \in 1 .. Len(list)
    BY <1>8, <1>10, <2>2 DEF CutLen
  <2>4. p[Len(new) + 1] = list[Len(all) + 1]
    BY <1>3, <2>2
  <2> QED
    BY <2>1, <2>3, <2>4
<1>14. ASSUME Older(rq, p) = {}
       PROVE  IF Len(p) < PageSize \/ (rq.tool # "recent" /\ page[c] * PageSize >= Len(list))
              THEN Len(all) >= Len(list)
              ELSE Len(all) = page[c] * PageSize
  <2>1. Len(new) = Len(p)
    BY <1>4, <1>14
  <2>2. page[c] * PageSize = m + PageSize
    BY <1>1 DEF m
  <2> QED
    BY <1>8, <1>10, <2>1, <2>2 DEF CutLen
<1>15. IF LastPage(rq, p, page[c])
       THEN \/ Len(all) >= Len(list)
            \/ /\ rq.tool = "recent"
               /\ Len(all) + 1 \in 1 .. Len(list)
               /\ list[Len(all) + 1] < rq.since
       ELSE Len(all) = page[c] * PageSize
  BY <1>13, <1>14 DEF LastPage
<1>16. m <= Len(all)
  BY <1>8, <1>10
<1>17. ReadTo(c, all)
  BY <1>7, <1>9, <1>11, <1>12, <1>15, <1>16 DEF ReadTo, m, p
<1> QED
  BY <1>17 DEF all, new, p

(* What is read then covers as much of the list.                            *)
LEMMA ReadCovers ==
    ASSUME NEW c \in Call, Inv, Reading(c), c \notin left, NEW rows, ReadTo(c, rows)
    PROVE  /\ \A i \in 1 .. Len(began[c]) : Place(c, i) <= Len(rows) =>
                 \E k \in 1 .. Len(rows) : k <= Place(c, i) /\ rows[k] = began[c][i]
           /\ asks[c].tool \in Walks /\ c \notin torn => NoneBefore(c, rows)
           /\ c \notin came => /\ Len(rows) <= Len(list)
                               /\ \A k \in 1 .. Len(rows) : rows[k] = list[k]
<1> DEFINE m == Len(got[c])
<1>1. /\ pc[c] = "read" /\ pc[c] # "new" /\ asks[c] # None
      /\ m \in Nat /\ Len(list) \in Nat /\ Len(began[c]) \in Nat
  BY Typed DEF Inv, CallInv, StageOf, Reading
<1>2. /\ rows \in Seq(Row) /\ m <= Len(rows)
      /\ \A k \in 1 .. m : rows[k] = got[c][k]
      /\ \A k \in m + 1 .. Len(rows) : k \in 1 .. Len(list) /\ rows[k] = list[k]
  BY DEF ReadTo
<1>3. ReadOf(c) /\ ShownOf(c)
  BY DEF Inv, CallInv
<1>4. Len(rows) \in Nat
  BY <1>2, LenProperties
<1>5. ASSUME NEW k \in 1 .. Len(rows) PROVE k \in 1 .. m \/ k \in m + 1 .. Len(rows)
  BY <1>1, <1>4
<1>6. ASSUME NEW i \in 1 .. Len(began[c]), Place(c, i) <= Len(rows)
      PROVE  \E k \in 1 .. Len(rows) : k <= Place(c, i) /\ rows[k] = began[c][i]
  <2>1. Place(c, i) \in 1 .. Len(list) /\ list[Place(c, i)] = began[c][i]
    BY <1>1, PlaceIs
  <2>2. CASE Place(c, i) <= m
    <3>1. PICK k \in 1 .. m : k <= Place(c, i) /\ got[c][k] = began[c][i]
      BY <1>3, <2>2 DEF ReadOf
    <3>2. k \in 1 .. Len(rows)
      BY <1>1, <1>2, <1>4
    <3> QED
      BY <1>2, <3>1, <3>2
  <2>3. CASE ~(Place(c, i) <= m)
    <3>1. Place(c, i) \in m + 1 .. Len(rows) /\ Place(c, i) \in 1 .. Len(rows) /\ Place(c, i) <= Place(c, i)
      BY <1>1, <1>4, <1>6, <2>1, <2>3
    <3>2. rows[Place(c, i)] = began[c][i]
      BY <1>2, <2>1, <3>1
    <3> QED
      BY <3>1, <3>2
  <2> QED
    BY <2>2, <2>3
<1>7. ASSUME asks[c].tool \in Walks, c \notin torn PROVE NoneBefore(c, rows)
  <2> SUFFICES ASSUME NEW i \in AskedAt(c), NEW k \in 1 .. Len(rows), k <= offset[c], rows[k] = began[c][i]
               PROVE  began[c][i] \in ToSet(seen[c])
    BY DEF NoneBefore
  <2>1. CASE k \in 1 .. m
    BY <1>2, <1>3, <1>7, <2>1 DEF ReadOf
  <2>2. CASE k \in m + 1 .. Len(rows)
    <3>1. k \in 1 .. Len(list) /\ list[k] = began[c][i]
      BY <1>2, <2>2
    <3>2. i \in 1 .. Len(began[c])
      BY <1>1, <1>7, AskedIs DEF Walks
    <3>3. Place(c, i) <= offset[c]
      BY <1>1, <3>1, <3>2, PlaceIs
    <3>4. Walking(c)
      BY <1>1, <1>7 DEF Walking
    <3> QED
      BY <1>3, <1>7, <3>3, <3>4 DEF ShownOf
  <2> QED
    BY <1>5, <2>1, <2>2
<1>8. ASSUME c \notin came
      PROVE  Len(rows) <= Len(list) /\ \A k \in 1 .. Len(rows) : rows[k] = list[k]
  <2>1. m <= Len(list) /\ \A k \in 1 .. m : got[c][k] = list[k]
    BY <1>3, <1>8 DEF ReadOf
  <2>2. \A k \in 1 .. Len(rows) : rows[k] = list[k]
    BY <1>2, <1>5, <2>1
  <2>3. CASE Len(rows) = m
    BY <2>1, <2>2, <2>3
  <2>4. CASE Len(rows) # m
    <3>1. Len(rows) \in m + 1 .. Len(rows)
      BY <1>1, <1>2, <1>4, <2>4
    <3>2. Len(rows) \in 1 .. Len(list)
      BY <1>2, <3>1
    <3> QED
      BY <1>1, <2>2, <3>2
  <2> QED
    BY <2>3, <2>4
<1> QED
  BY <1>6, <1>7, <1>8

(* The last page: no row asked for is beyond it.                            *)
LEMMA LastCovers ==
    ASSUME NEW c \in Call, Inv, Reading(c), c \notin left, NEW rows, ReadTo(c, rows),
           LastPage(asks[c], Fetch(page[c], PageSize), page[c]),
           NEW i \in 1 .. Len(began[c]), asks[c].tool = "recent" => began[c][i] >= asks[c].since
    PROVE  Place(c, i) <= Len(rows)
<1>1. /\ Place(c, i) \in 1 .. Len(list) /\ list[Place(c, i)] = began[c][i]
      /\ Len(list) \in Nat /\ list \in Seq(Row)
  BY PlaceIs, Typed DEF Inv, Reading
<1>2. /\ rows \in Seq(Row)
      /\ \/ Len(rows) >= Len(list)
         \/ /\ asks[c].tool = "recent"
            /\ Len(rows) + 1 \in 1 .. Len(list)
            /\ list[Len(rows) + 1] < asks[c].since
  BY DEF ReadTo
<1>3. Len(rows) \in Nat
  BY <1>2, LenProperties
<1>4. CASE Len(rows) >= Len(list)
  BY <1>1, <1>3, <1>4
<1>5. CASE /\ asks[c].tool = "recent"
           /\ Len(rows) + 1 \in 1 .. Len(list)
           /\ list[Len(rows) + 1] < asks[c].since
  <2> SUFFICES ASSUME ~(Place(c, i) <= Len(rows)) PROVE FALSE
    OBVIOUS
  <2>1. asks[c].since \in Int
    <3>1. asks[c] # None
      BY DEF Inv, CallInv, StageOf, Reading
    <3>2. asks[c] \in Request[c]
      BY <3>1, Typed DEF Inv
    <3> QED
      BY <1>5, <3>2, ListingsAssumption
  <2>2. \A k \in 1 .. Len(list) : list[k] \in Int
    BY <1>1, RowsAre
  <2>3. Len(rows) + 1 = Place(c, i) \/ Len(rows) + 1 < Place(c, i)
    BY <1>1, <1>3
  <2>4. Len(rows) + 1 < Place(c, i) => list[Len(rows) + 1] > list[Place(c, i)]
    BY <1>1, <1>5 DEF Inv, ListOf, Descending
  <2>5. list[Place(c, i)] >= asks[c].since
    BY <1>1, <1>5
  <2> QED
    BY <1>1, <1>5, <2>1, <2>2, <2>3, <2>4, <2>5
<1> QED
  BY <1>2, <1>4, <1>5

(* A page of a list read whole: more to read, ids to look for, or an answer. *)
LEMMA ReadPageInv == ASSUME NEW c \in Call, Inv, ReadPage(c) PROVE Inv'
<1> DEFINE p == Fetch(page[c], PageSize)
           all == got[c] \o Newer(asks[c], p)
           last == LastPage(asks[c], p, page[c])
           shown == Cut(all, offset[c], Limit(asks[c]))
<1>1. /\ pc[c] = "read" /\ Reading(c) /\ asks[c] # None /\ asks[c] \in Request[c]
      /\ asks[c].tool \in {"whole", "recent", "remove"} /\ told[c] = <<>>
      /\ asks[c].tool = "remove" => asks[c].checked
  <2>1. pc[c] = "read" /\ asks[c].tool # "window" /\ Reading(c)
    BY DEF ReadPage, Reading
  <2>2. asks[c] # None /\ told[c] = <<>> /\ (asks[c].tool = "remove" => asks[c].checked)
    BY <2>1 DEF Inv, CallInv, StageOf
  <2>3. asks[c] \in Request[c]
    BY <2>2, Typed DEF Inv
  <2> QED
    BY <2>1, <2>2, <2>3, ListingsAssumption
<1>2. /\ got' = [got EXCEPT ![c] = all]
      /\ page' = [page EXCEPT ![c] = @ + 1]
      /\ ~last => UNCHANGED <<pc, offset, seen>>
      /\ last /\ asks[c].tool = "remove" => Goes(c, "check") /\ UNCHANGED <<offset, seen>>
      /\ last /\ asks[c].tool \in Walks => Show(c, shown, Len(all))
      /\ UNCHANGED <<list, newest, asks, total, told, began, came, torn, left>>
  BY <1>1 DEF ReadPage, Walks
<1>3. ReadTo(c, all)
  BY <1>1, ReadOn
<1> HIDE DEF all
<1>4. /\ all \in Seq(Row) /\ Len(all) \in Nat
      /\ \A k \in 1 .. Len(all) : all[k] <= newest /\ (asks[c].tool = "recent" => all[k] >= asks[c].since)
      /\ ~last => Len(all) = page[c] * PageSize
  BY <1>3, LenProperties DEF ReadTo
<1>5. page[c] \in Nat /\ PageSize \in Nat /\ offset[c] \in Nat
  BY Typed DEF Inv
<1>6. /\ got' \in [Call -> Seq(Row)] /\ page' \in [Call -> Nat] /\ total' \in [Call -> Nat]
      /\ got'[c] = all /\ page'[c] = page[c] + 1
      /\ \A d \in Call \ {c} : got'[d] = got[d] /\ page'[d] = page[d] /\ total'[d] = total[d]
  BY <1>2, <1>4, <1>5 DEF Inv, TypeOK
<1>7. SuffixOf(c)' <=> (pc'[c] # "new" /\ c \notin left =>
                          /\ Len(began[c]) <= Len(list)
                          /\ \A i \in 1 .. Len(began[c]) : list[Place(c, i)] = began[c][i]
                          /\ c \notin came => Len(list) = Len(began[c]))
  BY <1>2 DEF SuffixOf, Place
<1>8. SuffixOf(c)'
  BY <1>1, <1>7 DEF Inv, CallInv, SuffixOf
<1> HIDE DEF p
<1>9. CASE ~last
  <2>1. UNCHANGED <<pc, offset, seen>>
    BY <1>2, <1>9
  <2> HIDE DEF last, shown
  <2>2. TypeOK'
    <3>1. UNCHANGED <<list, newest, asks, told, began, came, torn, left, offset, seen>>
      BY <1>2, <2>1
    <3>2. pc' \in [Call -> {"new", "read", "second", "shown", "check", "remove", "done", "failed", "missing"}]
      BY <2>1 DEF Inv, TypeOK
    <3>3. got' \in [Call -> Seq(Row)] /\ page' \in [Call -> Nat] /\ total' \in [Call -> Nat]
      BY <1>6
    <3> QED
      BY <3>1, <3>2, <3>3 DEF Inv, TypeOK
  <2>3. StageOf(c)' /\ HalfOf(c)'
    BY <1>1, <1>2, <2>1 DEF Inv, CallInv, StageOf, HalfOf
  <2>4. ReadOf(c)'
    <3>1. (page[c] + 1) - 1 = page[c] /\ page[c] + 1 >= 1
      BY <1>5
    <3>2. Len(all) = ((page[c] + 1) - 1) * PageSize
      BY <1>4, <1>9, <3>1
    <3>3. /\ Reading(c)' /\ AskedAt(c)' = AskedAt(c)
          /\ \A i : Place(c, i)' = Place(c, i)
      BY <1>1, <1>2, <2>1 DEF Reading, AskedAt, Place
    <3>4. ASSUME c \notin left
          PROVE  /\ \A i \in 1 .. Len(began[c]) : Place(c, i) <= Len(all) =>
                       \E k \in 1 .. Len(all) : k <= Place(c, i) /\ all[k] = began[c][i]
                 /\ asks[c].tool \in Walks /\ c \notin torn =>
                       \A i \in AskedAt(c), k \in 1 .. Len(all) :
                          k <= offset[c] /\ all[k] = began[c][i] => began[c][i] \in ToSet(seen[c])
                 /\ c \notin came => Len(all) <= Len(list) /\ \A k \in 1 .. Len(all) : all[k] = list[k]
      BY <1>1, <1>3, <3>4, ReadCovers DEF NoneBefore
    <3>5. /\ got'[c] = all /\ page'[c] = page[c] + 1
          /\ UNCHANGED <<list, newest, asks, began, came, torn, left, pc, offset, seen>>
      BY <1>2, <1>6, <2>1
    <3> QED
      BY <1>4, <3>1, <3>2, <3>3, <3>4, <3>5 DEF ReadOf
  <2>5. ShownOf(c)' /\ StillOf(c)'
    BY <1>2, <2>1 DEF Inv, CallInv, ShownOf, StillOf, Walking, WalkedOut, Place, AskedAt, Asked
  <2>6. RemovalOf(c)'
    <3>1. /\ pc'[c] = "read" /\ told'[c] = <<>> /\ asks'[c] = asks[c]
          /\ told[c] = <<>> /\ UNCHANGED list
      BY <1>1, <1>2, <2>1
    <3>2. ToSet(<<>>) = {}
      BY DEF ToSet
    <3>3. RemovalOf(c)
      BY DEF Inv, CallInv
    <3> QED
      BY <3>1, <3>2, <3>3 DEF RemovalOf
  <2>7. CallInv(c)'
    BY <1>8, <2>3, <2>4, <2>5, <2>6 DEF CallInv
  <2> QED
    BY <1>2, <1>6, <2>1, <2>2, <2>7, OneCall
<1>10. CASE last /\ asks[c].tool = "remove"
  <2>1. pc' = [pc EXCEPT ![c] = "check"] /\ pc'[c] = "check" /\ UNCHANGED <<offset, seen>>
    BY <1>2, <1>10 DEF Goes, Inv, TypeOK
  <2>2. ASSUME c \notin left PROVE ToSet(began[c]) \subseteq ToSet(all)
    <3>1. ASSUME NEW i \in 1 .. Len(began[c]) PROVE began[c][i] \in ToSet(all)
      <4>1. Place(c, i) <= Len(all)
        BY <1>1, <1>3, <1>10, <2>2, LastCovers DEF p
      <4>2. PICK k \in 1 .. Len(all) : all[k] = began[c][i]
        BY <1>1, <1>3, <2>2, <4>1, ReadCovers
      <4> QED
        BY <1>4, <4>2, Elements
    <3>2. began[c] \in Seq(Row)
      BY Typed DEF Inv
    <3> QED
      BY <3>1, <3>2, Elements
  <2> HIDE DEF last, shown
  <2>3. TypeOK'
    <3>1. UNCHANGED <<list, newest, asks, told, began, came, torn, left, offset, seen>>
      BY <1>2, <2>1
    <3>2. pc' \in [Call -> {"new", "read", "second", "shown", "check", "remove", "done", "failed", "missing"}]
      BY <2>1 DEF Inv, TypeOK
    <3>3. got' \in [Call -> Seq(Row)] /\ page' \in [Call -> Nat] /\ total' \in [Call -> Nat]
      BY <1>6
    <3> QED
      BY <3>1, <3>2, <3>3 DEF Inv, TypeOK
  <2>4. StageOf(c)' /\ HalfOf(c)'
    BY <1>1, <1>2, <1>10, <2>1 DEF StageOf, HalfOf
  <2>5. ReadOf(c)'
    BY <1>2, <1>4, <1>6, <2>1 DEF ReadOf, Reading
  <2>6. ShownOf(c)' /\ StillOf(c)'
    BY <2>1 DEF ShownOf, StillOf, Walking, WalkedOut
  <2>7. RemovalOf(c)'
    <3>1. ToSet(<<>>) = {}
      BY DEF ToSet
    <3>2. RemovalOf(c)
      BY DEF Inv, CallInv
    <3> QED
      BY <1>1, <1>2, <1>6, <2>1, <2>2, <3>1, <3>2 DEF RemovalOf
  <2>8. CallInv(c)'
    BY <1>8, <2>4, <2>5, <2>6, <2>7 DEF CallInv
  <2>9. \A d \in Call \ {c} : pc'[d] = pc[d]
    BY <2>1 DEF Inv, TypeOK
  <2> QED
    BY <1>2, <1>6, <2>1, <2>3, <2>8, <2>9, OneCall
<1>11. CASE last /\ asks[c].tool \in Walks
  <2>1. Show(c, shown, Len(all))
    BY <1>2, <1>11
  <2>2. Limit(asks[c]) \in Nat \ {0} /\ (asks[c].tool = "recent" => asks[c].since \in Int) /\ Walking(c)
    BY <1>1, <1>11, Settled, ListingsAssumption DEF Walking, Walks
  <2>3. shown \in Seq(Row)
    BY <1>4, <1>5, <2>2, CutIs DEF IsCut
  <2>4. ASSUME c \notin left \cup torn PROVE HidesNone(c, shown, Len(all))
    <3>1. NoneBefore(c, all)
      BY <1>1, <1>3, <1>11, <2>4, ReadCovers
    <3>2. Covers(c, all)
      <4> SUFFICES ASSUME NEW i \in AskedAt(c)
                   PROVE  /\ Place(c, i) <= Len(all)
                          /\ \E k \in 1 .. Len(all) : k <= Place(c, i) /\ all[k] = began[c][i]
        BY DEF Covers
      <4>1. /\ i \in 1 .. Len(began[c])
            /\ asks[c].tool = "recent" => began[c][i] >= asks[c].since
        BY <1>1, <1>11, AskedIs DEF Walks
      <4>2. Place(c, i) <= Len(all)
        BY <1>1, <1>3, <1>11, <2>4, <4>1, LastCovers DEF p
      <4> QED
        BY <1>1, <1>3, <2>4, <4>1, <4>2, ReadCovers
    <3> QED
      BY <1>4, <2>2, <2>4, <3>1, <3>2, Covered
  <2>5. ASSUME c \notin came \cup left PROVE all = Newer(asks[c], began[c])
    <3>1. list = began[c] /\ list \in Seq(Row) /\ Len(list) \in Nat
      BY <1>1, <2>5, StillList, Typed DEF Inv
    <3>2. Len(all) <= Len(list) /\ \A k \in 1 .. Len(all) : all[k] = list[k]
      BY <1>1, <1>3, <2>5, ReadCovers
    <3>3. \/ Len(all) >= Len(list)
          \/ asks[c].tool = "recent" /\ list[Len(all) + 1] < asks[c].since
      BY <1>3, <1>11 DEF ReadTo, p
    <3>4. Len(all) = Len(list) \/ (asks[c].tool = "recent" /\ list[Len(all) + 1] < asks[c].since)
      BY <1>4, <3>1, <3>2, <3>3
    <3>5. \A k \in 1 .. Len(all) : asks[c].tool = "recent" => list[k] >= asks[c].since
      BY <1>4, <3>2
    <3>6. UntilOlder(all, asks[c], list)
      BY <1>4, <3>2, <3>4, <3>5 DEF UntilOlder
    <3>7. all = Newer(asks[c], list)
      BY <2>2, <3>1, <3>6, NewerThat
    <3> QED
      BY <3>1, <3>7
  <2>6. c \notin came \cup left => /\ shown = Cut(Newer(asks[c], began[c]), offset[c], Limit(asks[c]))
                                  /\ Len(all) = Len(Newer(asks[c], began[c]))
    BY <2>5
  <2> HIDE DEF shown, last
  <2> QED
    BY <1>1, <1>2, <1>4, <1>6, <1>11, <2>1, <2>3, <2>4, <2>6, ShowInv
<1> QED
  BY <1>1, <1>9, <1>10, <1>11 DEF Walks

-----------------------------------------------------------------------------
(* At the start no call has begun, and the list is newest first.            *)
LEMMA InitInv == Init => Inv
<1> SUFFICES ASSUME Init PROVE Inv
  OBVIOUS
<1>1. newest \in 0 .. Rows /\ Rows \in Nat /\ list = [i \in 1 .. newest |-> newest + 1 - i]
  BY ListingsAssumption DEF Init
<1>2. newest \in Nat /\ \A i \in 1 .. newest : newest + 1 - i \in Row
  BY <1>1 DEF Row
<1>3. list \in [1 .. newest -> Row]
  BY <1>1, <1>2
<1>4. list \in Seq(Row) /\ Len(list) = newest
  BY <1>2, <1>3
<1>5. \A i \in 1 .. Len(list) : list[i] = newest + 1 - i
  BY <1>1, <1>4
<1>6. ListOf
  BY <1>1, <1>2, <1>4, <1>5 DEF ListOf, Descending, Init
<1>7. <<>> \in Seq(Row) /\ <<>> \in Seq(Int)
  BY EmptySeq
<1>8. TypeOK
  BY <1>1, <1>4, <1>7 DEF Init, TypeOK
<1>9. ASSUME NEW c \in Call PROVE CallInv(c)
  <2>1. /\ pc[c] = "new" /\ asks[c] = None /\ told[c] = <<>> /\ seen[c] = <<>> /\ got[c] = <<>>
        /\ page[c] = 1 /\ Len(got[c]) = 0
    BY EmptySeq DEF Init
  <2> QED
    BY <2>1 DEF CallInv, StageOf, SuffixOf, ReadOf, HalfOf, ShownOf, StillOf, RemovalOf,
                Reading, Walking, WalkedOut
<1> QED
  BY <1>6, <1>8, <1>9 DEF Inv

(* Every step keeps the invariant.                                          *)
LEMMA StepInv == Inv /\ [Next]_vars => Inv'
<1> SUFFICES ASSUME Inv, [Next]_vars PROVE Inv'
  OBVIOUS
<1>1. ASSUME NEW c \in Call, NEW rq \in Request[c], Begin(c, rq) PROVE Inv'
  BY <1>1, BeginInv
<1>2. ASSUME NEW c \in Call, ReadWindow(c) PROVE Inv'
  BY <1>2, ReadWindowInv
<1>3. ASSUME NEW c \in Call, ReadSecond(c) PROVE Inv'
  BY <1>3, ReadSecondInv
<1>4. ASSUME NEW c \in Call, ReadPage(c) PROVE Inv'
  BY <1>4, ReadPageInv
<1>5. ASSUME NEW c \in Call, GoOn(c) \/ Check(c) \/ Fail(c) PROVE Inv'
  BY <1>5, GoOnInv, CheckInv, FailInv
<1>6. ASSUME NEW c \in Call, NEW answered \in BOOLEAN, RemoveNext(c, answered) PROVE Inv'
  BY <1>6, RemoveInv
<1>7. CASE Come
  BY <1>7, ComeInv
<1>8. ASSUME NEW row \in Row, Go(row) PROVE Inv'
  BY <1>8, GoInv
<1>9. CASE UNCHANGED vars
  <2>1. TypeOK' /\ ListOf'
    BY <1>9 DEF Inv, TypeOK, ListOf, Descending, vars, reading
  <2>2. ASSUME NEW c \in Call PROVE CallInv(c)'
    BY <1>9, Bystander DEF Inv, vars, reading
  <2> QED
    BY <2>1, <2>2 DEF Inv
<1> QED
  BY <1>1, <1>2, <1>3, <1>4, <1>5, <1>6, <1>7, <1>8, <1>9 DEF Next

(* The invariant holds of every behaviour.                                  *)
THEOREM Invariance == Spec => []Inv
<1>1. Init => Inv
  BY InitInv
<1>2. Inv /\ [Next]_vars => Inv'
  BY StepInv
<1> QED
  BY <1>1, <1>2, PTL DEF Spec

(* Every variable has its type.                                             *)
THEOREM TypeCorrect == Spec => []TypeOK
<1>1. Inv => TypeOK
  BY DEF Inv
<1> QED
  BY <1>1, Invariance, PTL

(* A list that stands still is shown as it is: each row once, in order.     *)
THEOREM ShownAsIs == Spec => []StillShownAsIs
<1>1. Inv => StillShownAsIs
  BY DEF Inv, CallInv, StillOf, StillShownAsIs
<1> QED
  BY <1>1, Invariance, PTL

(* Rows that come while a list is read or walked hide none of those that    *)
(* were there.                                                              *)
THEOREM HideNothing == Spec => []NothingMissed
<1>1. ASSUME Inv, NEW c \in Call, c \notin left \cup torn, WalkedOut(c)
      PROVE  ToSet(Asked(c)) \subseteq ToSet(seen[c])
  <2> DEFINE kept == Newer(asks[c], began[c])
             from == From(asks[c])
  <2>1. /\ asks[c] # None /\ asks[c] \in Request[c] /\ asks[c].tool # "remove"
        /\ began[c] \in Seq(Row)
    BY <1>1, Typed DEF Inv, CallInv, StageOf, WalkedOut, Walks
  <2>2. from \in Nat /\ (asks[c].tool = "recent" => asks[c].since \in Int)
    BY <2>1, Settled, ListingsAssumption
  <2>3. UntilOlder(kept, asks[c], began[c])
    BY <2>1, <2>2, NewerIs
  <2>4. \A i \in from + 1 .. Len(kept) : began[c][i] \in ToSet(seen[c])
    BY <1>1 DEF Inv, CallInv, ShownOf, AskedAt
  <2>5. Asked(c) = SubSeq(kept, from + 1, Len(kept))
    BY DEF Asked
  <2> HIDE DEF kept, from
  <2>6. kept \in Seq(Row) /\ \A i \in 1 .. Len(kept) : kept[i] = began[c][i]
    BY <2>3 DEF UntilOlder
  <2>7. Len(kept) \in Nat
    BY <2>6, LenProperties
  <2>8. ASSUME NEW i \in from + 1 .. Len(kept) PROVE kept[i] \in ToSet(seen[c]) /\ kept[i] \in Row
    <3>1. i \in 1 .. Len(kept)
      BY <2>2, <2>7
    <3> QED
      BY <2>4, <2>6, <3>1, ElementOfSeq
  <2> DEFINE rest == SubSeq(kept, from + 1, Len(kept))
  <2>9. /\ rest \in Seq(Row) /\ Len(rest) = IF from + 1 <= Len(kept) THEN Len(kept) - (from + 1) + 1 ELSE 0
        /\ \A i \in 1 .. Len(kept) - (from + 1) + 1 : rest[i] = kept[from + 1 + i - 1]
    BY <2>2, <2>7, <2>8, SubSeqProperties
  <2> HIDE DEF rest
  <2>10. ASSUME NEW i \in 1 .. Len(rest) PROVE rest[i] \in ToSet(seen[c])
    <3>1. Len(rest) = IF from + 1 <= Len(kept) THEN Len(kept) - (from + 1) + 1 ELSE 0
      BY <2>9
    <3>2. /\ i \in 1 .. Len(kept) - (from + 1) + 1 /\ from + 1 + i - 1 = from + i
          /\ from + i \in from + 1 .. Len(kept)
      BY <2>2, <2>7, <3>1
    <3>3. rest[i] = kept[from + i]
      BY <2>9, <3>2
    <3> QED
      BY <2>8, <3>2, <3>3
  <2> QED
    <3>1. \A x : x \in ToSet(rest) <=> \E i \in 1 .. Len(rest) : rest[i] = x
      BY <2>9, Elements
    <3>2. ToSet(rest) \subseteq ToSet(seen[c])
      BY <2>10, <3>1
    <3> QED
      BY <2>5, <3>2 DEF rest
<1>2. Inv => NothingMissed
  BY <1>1 DEF Inv, CallInv, RemovalOf, NothingMissed
<1> QED
  BY <1>2, Invariance, PTL

(* What is told as removed was there and is not, in the order asked.        *)
THEOREM TrulyRemoved == Spec => []RemovedWereThere
<1>1. ASSUME Inv, NEW c \in Call, asks[c] # None, asks[c].tool = "remove"
      PROVE  /\ IsPrefix(told[c], asks[c].ids)
             /\ pc[c] = "done" => told[c] = asks[c].ids
  <2> DEFINE ids == asks[c].ids
             t == told[c]
  <2>1. ids \in Seq(Int) /\ t \in Seq(Int)
    BY <1>1, Typed, ListingsAssumption DEF Inv
  <2>2. /\ Len(t) <= Len(ids) /\ \A i \in 1 .. Len(t) : t[i] = ids[i]
        /\ pc[c] = "done" => Len(t) = Len(ids)
    BY <1>1 DEF Inv, CallInv, RemovalOf
  <2> HIDE DEF ids, t
  <2>3. Len(t) \in Nat /\ Len(ids) \in Nat
    BY <2>1, LenProperties
  <2>4. SubSeq(t, 1, Len(t)) = t
    BY <2>1, SubSeqFull
  <2> DEFINE u == SubSeq(ids, 1, Len(t))
  <2>5. \A i \in 1 .. Len(t) : ids[i] \in Int
    BY <2>1, <2>2, <2>3, ElementOfSeq
  <2>6. /\ u \in Seq(Int) /\ Len(u) = IF 1 <= Len(t) THEN Len(t) - 1 + 1 ELSE 0
        /\ \A i \in 1 .. Len(t) - 1 + 1 : u[i] = ids[1 + i - 1]
    BY <2>3, <2>5, SubSeqProperties
  <2> HIDE DEF u
  <2>7. Len(u) = Len(t) /\ \A i \in 1 .. Len(t) : u[i] = t[i]
    <3>1. Len(u) = Len(t)
      BY <2>3, <2>6
    <3>2. ASSUME NEW i \in 1 .. Len(t) PROVE u[i] = t[i]
      <4>1. i \in 1 .. Len(t) - 1 + 1 /\ 1 + i - 1 = i
        BY <2>3
      <4> QED
        BY <2>2, <2>6, <4>1
    <3> QED
      BY <3>1, <3>2
  <2>8. u = t
    BY <2>1, <2>6, <2>7, SeqEqual
  <2>9. IsPrefix(t, ids)
    BY <2>2, <2>4, <2>8 DEF IsPrefix, u
  <2>10. pc[c] = "done" => t = ids
    BY <2>1, <2>2, SeqEqual
  <2> QED
    BY <2>9, <2>10 DEF t, ids
<1>2. Inv => RemovedWereThere
  BY <1>1 DEF Inv, CallInv, StageOf, RemovalOf, RemovedWereThere
<1> QED
  BY <1>2, Invariance, PTL
=============================================================================
