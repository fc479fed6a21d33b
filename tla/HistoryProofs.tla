--------------------------- MODULE HistoryProofs -----------------------------
(* That a load is complete and exact, for tables, pages and ranges of any    *)
(* size.                                                                     *)
EXTENDS History, FiniteSetTheorems, TLAPS

(* A nonempty set of naturals has a least member.                            *)
LEMMA Least ==
    ASSUME NEW T \in SUBSET Nat, T # {}
    PROVE  \E i \in T : \A j \in T : i <= j
<1> DEFINE Before == OpToRel(<, Nat)
<1>1. \A i, j \in Nat : i < j => <<i, j>> \in Before
  BY DEF OpToRel
<1>2. IsWellFoundedOn(Before, Nat)
  BY NatLessThanWellFounded
<1> HIDE DEF Before
<1>3. PICK i \in T : \A j \in T : ~(<<j, i>> \in Before)
  BY <1>2, WFMin
<1>4. \A j \in T : ~(j < i)
  BY <1>1, <1>3
<1> QED BY <1>4

(* Places that hold every earlier place are the first ones.                  *)
LEMMA FirstPlaces ==
    ASSUME NEW n \in Nat, NEW P \in SUBSET (1..n),
           \A i \in P, j \in 1..n : j < i => j \in P
    PROVE  P = 1..Cardinality(P) /\ Cardinality(P) \in Nat
<1> DEFINE T == {i \in Nat : i > 0 /\ i \notin P}
<1>1. n + 1 \in T
  OBVIOUS
<1>2. PICK k \in T : \A j \in T : k <= j
  <2>1. T \in SUBSET Nat /\ T # {}
    BY <1>1
  <2> HIDE DEF T
  <2> QED BY <2>1, Least
<1>3. k \in Nat /\ k > 0 /\ k \notin P /\ k <= n + 1
  BY <1>1, <1>2
<1>4. \A i \in Nat : 0 < i /\ i < k => i \in P
  BY <1>2
<1>5. \A i \in P : i \in 1..n /\ i < k
  <2> SUFFICES ASSUME NEW i \in P, ~(i < k) PROVE FALSE
    OBVIOUS
  <2>1. i \in 1..n /\ k < i
    BY <1>3
  <2>2. k \in 1..n
    BY <1>3, <2>1
  <2> QED BY <1>3, <2>1, <2>2
<1>6. P = 1..(k - 1)
  <2>1. \A i \in P : i \in 1..(k - 1)
    BY <1>3, <1>5
  <2>2. \A i \in 1..(k - 1) : i \in P
    BY <1>3, <1>4
  <2> QED BY <2>1, <2>2
<1>7. Cardinality(1..(k - 1)) = k - 1
  BY <1>3, FS_Interval
<1> QED BY <1>3, <1>6, <1>7

(* A one-to-one listing of S meets a part of S as often as it has members.   *)
LEMMA CountedByListing ==
    ASSUME NEW S, IsFiniteSet(S), NEW f \in [1..Cardinality(S) -> S],
           \A i, j \in 1..Cardinality(S) : i # j => f[i] # f[j],
           NEW X \in SUBSET S
    PROVE  Cardinality({i \in 1..Cardinality(S) : f[i] \in X}) = Cardinality(X)
<1> DEFINE n == Cardinality(S)
           P == {i \in 1..n : f[i] \in X}
           g == [i \in P |-> f[i]]
<1>1. n \in Nat /\ IsFiniteSet(1..n) /\ Cardinality(1..n) = n
  BY FS_CardinalityType, FS_Interval
<1>2. f \in Injection(1..n, S)
  BY DEF Injection, IsInjective
<1>3. f \in Surjection(1..n, S)
  BY <1>1, <1>2, FS_Injection
<1>4. \A x \in X : \E i \in 1..n : f[i] = x
  BY <1>3 DEF Surjection
<1>5. g \in Bijection(P, X)
  <2>1. g \in [P -> X]
    OBVIOUS
  <2>2. \A i, j \in P : g[i] = g[j] => i = j
    OBVIOUS
  <2>3. \A x \in X : \E i \in P : g[i] = x
    BY <1>4
  <2> QED BY <2>1, <2>2, <2>3 DEF Bijection, Injection, Surjection, IsInjective
<1>6. IsFiniteSet(P)
  BY <1>1, FS_Subset
<1>7. ExistsBijection(P, X)
  BY <1>5 DEF ExistsBijection
<1> QED BY <1>6, <1>7, FS_Bijection
------------------------------------------------------------------------------
(* The order of a page.                                                      *)

(* The rows of S later than x, and at x.                                     *)
LaterThan(S, x) == {n \in S : TsOf[n] > x}
AtTime(S, x) == {n \in S : TsOf[n] = x}

(* In S by descending timestamp the rows of one timestamp follow the later   *)
(* ones, whichever way PostgreSQL orders the ties.                           *)
LEMMA SortedPlaces ==
    ASSUME NEW S \in SUBSET Msg, IsFiniteSet(S), NEW all \in Descending(S), NEW x \in Int
    PROVE  /\ Cardinality(S) \in Nat
           /\ Cardinality(LaterThan(S, x)) \in Nat /\ Cardinality(AtTime(S, x)) \in Nat
           /\ Cardinality(LaterThan(S, x)) + Cardinality(AtTime(S, x)) <= Cardinality(S)
           /\ \A i \in 1..Cardinality(S) :
                 TsOf[all[i]] = x <=>
                    /\ Cardinality(LaterThan(S, x)) < i
                    /\ i <= Cardinality(LaterThan(S, x)) + Cardinality(AtTime(S, x))
<1> DEFINE n == Cardinality(S)
           H == LaterThan(S, x)
           E == AtTime(S, x)
           P == {i \in 1..n : all[i] \in H}
           Q == {i \in 1..n : all[i] \in H \cup E}
<1>1. n \in Nat /\ all \in [1..n -> S]
  BY FS_CardinalityType DEF Descending
<1>2. \A i, j \in 1..n : i < j => all[i] # all[j] /\ TsOf[all[i]] >= TsOf[all[j]]
  BY DEF Descending
<1>3. \A i, j \in 1..n : i # j => all[i] # all[j]
  <2> SUFFICES ASSUME NEW i \in 1..n, NEW j \in 1..n, i # j PROVE all[i] # all[j]
    OBVIOUS
  <2>1. i < j \/ j < i
    BY <1>1
  <2> QED BY <1>2, <2>1
<1>4. \A i \in 1..n : all[i] \in S /\ TsOf[all[i]] \in Int
  BY <1>1, PositionsAssumption
<1>5. /\ IsFiniteSet(H) /\ IsFiniteSet(E) /\ IsFiniteSet(H \cup E) /\ H \cap E = {}
      /\ H \in SUBSET S /\ E \in SUBSET S /\ H \cup E \in SUBSET S
  BY FS_Subset, PositionsAssumption DEF LaterThan, AtTime
<1>6. /\ Cardinality(H) \in Nat /\ Cardinality(E) \in Nat
      /\ Cardinality(H \cup E) = Cardinality(H) + Cardinality(E)
      /\ Cardinality(H \cup E) <= n
  <2>1. Cardinality(H) \in Nat /\ Cardinality(E) \in Nat /\ Cardinality({}) = 0
    BY <1>5, FS_CardinalityType, FS_EmptySet
  <2>2. Cardinality(H \cup E) = Cardinality(H) + Cardinality(E) - Cardinality(H \cap E)
    BY <1>5, FS_Union
  <2>3. Cardinality(H \cup E) <= n
    BY <1>5, FS_Subset
  <2>4. Cardinality(H \cap E) = 0
    BY <1>5, FS_EmptySet
  <2> HIDE DEF H, E, n
  <2> QED BY <2>1, <2>2, <2>3, <2>4
<1>7. Cardinality(P) = Cardinality(H) /\ Cardinality(Q) = Cardinality(H \cup E)
  BY <1>1, <1>3, <1>5, CountedByListing
<1>8. P = 1..Cardinality(H)
  <2>1. \A i \in P, j \in 1..n : j < i => j \in P
    BY <1>1, <1>2, <1>4 DEF LaterThan
  <2>2. P \in SUBSET (1..n)
    OBVIOUS
  <2> HIDE DEF P
  <2> QED BY <1>1, <1>7, <2>1, <2>2, FirstPlaces
<1>9. Q = 1..(Cardinality(H) + Cardinality(E))
  <2>1. \A i \in Q, j \in 1..n : j < i => j \in Q
    BY <1>1, <1>2, <1>4 DEF LaterThan, AtTime
  <2>2. Q \in SUBSET (1..n)
    OBVIOUS
  <2> HIDE DEF Q
  <2> QED BY <1>1, <1>6, <1>7, <2>1, <2>2, FirstPlaces
<1>10. \A i \in 1..n : TsOf[all[i]] = x <=> i \in Q /\ i \notin P
  BY <1>1, <1>4 DEF LaterThan, AtTime
<1> HIDE DEF P, Q, H, E, n
<1>11. \A i \in 1..n : TsOf[all[i]] = x <=>
          Cardinality(H) < i /\ i <= Cardinality(H) + Cardinality(E)
  BY <1>1, <1>6, <1>8, <1>9, <1>10
<1> QED BY <1>1, <1>6, <1>11 DEF n, H, E

(* How much a page holds, and what.                                          *)
LEMMA PageFacts ==
    ASSUME NEW S, NEW n \in Nat, NEW all \in [1..n -> S], NEW off \in Nat, off <= n
    PROVE  /\ Page(all, off) \in Seq(S) /\ Len(Page(all, off)) <= PageSize
           /\ off + Len(Page(all, off)) <= n
           /\ Len(Page(all, off)) < PageSize => off + Len(Page(all, off)) = n
<1> DEFINE k == LowerOf(off + PageSize, n)
           p == Page(all, off)
<1>1. Len(all) = n /\ all \in Seq(S)
  OBVIOUS
<1>2. k \in Nat /\ off <= k /\ k <= n /\ k <= off + PageSize /\ (k < off + PageSize => k = n)
  BY HistoryAssumption DEF LowerOf
<1>3. p = SubSeq(all, off + 1, k)
  BY <1>1 DEF Page
<1> HIDE DEF k, p
<1>4. p \in Seq(S) /\ Len(p) = k - off
  BY <1>1, <1>2, <1>3
<1> QED BY <1>2, <1>4, HistoryAssumption DEF p

(* Place i of the page is place off + i of the order.                        *)
LEMMA PagePlace ==
    ASSUME NEW S, NEW n \in Nat, NEW all \in [1..n -> S], NEW off \in Nat, off <= n,
           NEW i \in 1..Len(Page(all, off))
    PROVE  Page(all, off)[i] = all[off + i]
<1> DEFINE k == LowerOf(off + PageSize, n)
           p == Page(all, off)
<1>1. Len(all) = n /\ all \in Seq(S)
  OBVIOUS
<1>2. k \in Nat /\ off <= k /\ k <= n
  BY HistoryAssumption DEF LowerOf
<1>3. p = SubSeq(all, off + 1, k) /\ i \in 1..Len(p)
  BY <1>1 DEF Page
<1> HIDE DEF k, p
<1>4. Len(p) = k - off
  BY <1>1, <1>2, <1>3
<1>5. p[i] = all[off + i]
  BY <1>1, <1>2, <1>3, <1>4
<1> QED BY <1>5 DEF p

(* The points like m among p.                                                *)
Likes(p, m) == {i \in DOMAIN p : Alike(m, p[i])}
Count(p, m) == Cardinality(Likes(p, m))

LEMMA CountType ==
    ASSUME NEW p \in Seq(Msg), NEW m
    PROVE  IsFiniteSet(Likes(p, m)) /\ Count(p, m) \in Nat /\ Likes(p, m) \subseteq 1..Len(p)
<1>1. Likes(p, m) \subseteq 1..Len(p) /\ IsFiniteSet(1..Len(p))
  BY FS_Interval DEF Likes
<1> QED BY <1>1, FS_Subset, FS_CardinalityType DEF Count

(* Pages add up.                                                             *)
LEMMA CountAdds ==
    ASSUME NEW p \in Seq(Msg), NEW q \in Seq(Msg), NEW m
    PROVE  Count(p \o q, m) = Count(p, m) + Count(q, m)
<1> DEFINE A == Likes(p, m)
           B == Likes(q, m)
           C == {i \in (Len(p) + 1)..(Len(p) + Len(q)) : Alike(m, q[i - Len(p)])}
           f == [i \in B |-> i + Len(p)]
<1>1. /\ Len(p) \in Nat /\ Len(q) \in Nat
      /\ p \o q \in Seq(Msg) /\ Len(p \o q) = Len(p) + Len(q)
      /\ \A i \in 1..Len(p) : (p \o q)[i] = p[i]
      /\ \A i \in (Len(p) + 1)..(Len(p) + Len(q)) : (p \o q)[i] = q[i - Len(p)]
  OBVIOUS
<1>2. Likes(p \o q, m) = A \cup C
  BY <1>1 DEF Likes
<1>3. A \cap C = {}
  BY <1>1 DEF Likes
<1>4. f \in Bijection(B, C)
  <2>1. B \subseteq 1..Len(q)
    BY CountType
  <2>2. f \in [B -> C]
    BY <1>1, <2>1 DEF Likes
  <2>3. \A i, j \in B : f[i] = f[j] => i = j
    BY <1>1, <2>1
  <2>4. \A c \in C : \E i \in B : f[i] = c
    <3> SUFFICES ASSUME NEW c \in C PROVE c - Len(p) \in B /\ f[c - Len(p)] = c
      OBVIOUS
    <3> QED BY <1>1 DEF Likes
  <2> HIDE DEF f, B, C
  <2> QED BY <2>2, <2>3, <2>4 DEF Bijection, Injection, Surjection, IsInjective
<1>5. IsFiniteSet(A) /\ IsFiniteSet(B) /\ Cardinality(A) \in Nat /\ Cardinality(B) \in Nat
  BY CountType DEF Count
<1> HIDE DEF A, B, C, f
<1>6. IsFiniteSet(C) /\ Cardinality(C) = Cardinality(B)
  BY <1>4, <1>5, FS_Bijection DEF ExistsBijection
<1>7. Cardinality(A \cup C) = Cardinality(A) + Cardinality(C) - Cardinality(A \cap C)
  BY <1>5, <1>6, FS_Union
<1>8. Cardinality(A \cap C) = 0
  BY <1>3, FS_EmptySet
<1> QED BY <1>2, <1>5, <1>6, <1>7, <1>8 DEF Count, A, B
------------------------------------------------------------------------------
(* What one page adds.                                                       *)

(* Of b rows with h later ones, those that a list up to offset off reaches.  *)
Enough(c, b, off, h) == c >= b \/ c >= off - h

(* A page has the rows of a timestamp whose places it covers.                *)
LEMMA PageCount ==
    ASSUME NEW S \in SUBSET Msg, IsFiniteSet(S), NEW all \in Descending(S),
           NEW off \in Nat, off <= Cardinality(S),
           NEW m \in Msg, \A n \in S : TagOf[n] = TagOf[m]
    PROVE  LET h == Cardinality(LaterThan(S, TsOf[m]))
               e == Cardinality(AtTime(S, TsOf[m]))
               k == Len(Page(all, off))
               from == IF h < off THEN 1 ELSE h + 1 - off
               to == IF off + k <= h + e THEN k ELSE h + e - off
           IN  Count(Page(all, off), m) = IF from > to THEN 0 ELSE to - from + 1
<1> DEFINE h == Cardinality(LaterThan(S, TsOf[m]))
           e == Cardinality(AtTime(S, TsOf[m]))
           p == Page(all, off)
           k == Len(p)
           from == IF h < off THEN 1 ELSE h + 1 - off
           to == IF off + k <= h + e THEN k ELSE h + e - off
           n == Cardinality(S)
<1>1. TsOf[m] \in Int
  BY PositionsAssumption
<1>2. /\ n \in Nat /\ h \in Nat /\ e \in Nat
      /\ \A i \in 1..n : TsOf[all[i]] = TsOf[m] <=> h < i /\ i <= h + e
  BY <1>1, SortedPlaces
<1>3. all \in [1..n -> S]
  BY DEF Descending
<1>4. /\ p \in Seq(S) /\ off + k <= n
      /\ \A i \in 1..k : p[i] = all[off + i]
  <2>1. n \in Nat /\ off <= n
    BY <1>2
  <2>2. all \in [1..n -> S]
    BY <1>3
  <2> HIDE DEF n, h, e, from, to
  <2>3. Page(all, off) \in Seq(S) /\ off + Len(Page(all, off)) <= n
    BY <2>1, <2>2, PageFacts
  <2>4. ASSUME NEW i \in 1..Len(Page(all, off))
        PROVE  Page(all, off)[i] = all[off + i]
    BY <2>1, <2>2, PagePlace, ZenonT(60)
  <2> QED BY <2>3, <2>4
<1>5. k \in Nat /\ DOMAIN p = 1..k
  BY <1>4
<1> HIDE DEF h, e, p, k, n
<1>6. \A i \in 1..k : Alike(m, p[i]) <=> h < off + i /\ off + i <= h + e
  <2> SUFFICES ASSUME NEW i \in 1..k
               PROVE  Alike(m, p[i]) <=> h < off + i /\ off + i <= h + e
    OBVIOUS
  <2>1. off + i \in 1..n
    BY <1>2, <1>4, <1>5
  <2>2. p[i] = all[off + i] /\ all[off + i] \in S
    BY <1>3, <1>4, <2>1
  <2>3. TagOf[p[i]] = TagOf[m]
    BY <2>2
  <2>4. Alike(m, p[i]) <=> TsOf[all[off + i]] = TsOf[m]
    BY <2>2, <2>3 DEF Alike
  <2> QED BY <1>2, <2>1, <2>4
<1>7. from \in Int /\ to \in Int
  BY <1>2, <1>5
<1>8. Likes(p, m) = from..to
  <2>1. \A i \in 1..k : Alike(m, p[i]) <=> i \in from..to
    BY <1>2, <1>5, <1>6
  <2>2. from..to \subseteq 1..k
    BY <1>2, <1>5
  <2> HIDE DEF from, to
  <2> QED BY <1>5, <2>1, <2>2 DEF Likes
<1> HIDE DEF from, to
<1>9. Count(p, m) = IF from > to THEN 0 ELSE to - from + 1
  BY <1>7, <1>8, FS_Interval DEF Count
<1> QED BY <1>9 DEF p, h, e, k, from, to

(* Rows that had to be reached up to off are reached up to the page's end.   *)
LEMMA PageCovers ==
    ASSUME NEW S \in SUBSET Msg, IsFiniteSet(S), NEW all \in Descending(S),
           NEW off \in Nat, off <= Cardinality(S),
           NEW m \in Msg, \A n \in S : TagOf[n] = TagOf[m],
           NEW b \in Nat, b <= Cardinality(AtTime(S, TsOf[m])),
           NEW c \in Nat, Enough(c, b, off, Cardinality(LaterThan(S, TsOf[m])))
    PROVE  Enough(c + Count(Page(all, off), m), b, off + Len(Page(all, off)),
                  Cardinality(LaterThan(S, TsOf[m])))
<1> DEFINE h == Cardinality(LaterThan(S, TsOf[m]))
           e == Cardinality(AtTime(S, TsOf[m]))
           k == Len(Page(all, off))
           v == Count(Page(all, off), m)
           from == IF h < off THEN 1 ELSE h + 1 - off
           to == IF off + k <= h + e THEN k ELSE h + e - off
<1>1. h \in Nat /\ e \in Nat /\ Cardinality(S) \in Nat
  BY SortedPlaces, PositionsAssumption
<1>2. k \in Nat
  <2>1. all \in [1..Cardinality(S) -> S]
    BY DEF Descending
  <2>2. Page(all, off) \in Seq(S)
    BY <1>1, <2>1, PageFacts
  <2> QED BY <2>2
<1>3. v = IF from > to THEN 0 ELSE to - from + 1
  BY PageCount
<1>4. b <= e /\ Enough(c, b, off, h)
  OBVIOUS
<1> HIDE DEF h, e, k, v
<1>5. Enough(c + v, b, off + k, h)
  BY <1>1, <1>2, <1>3, <1>4 DEF Enough
<1> QED BY <1>5 DEF h, k, v
------------------------------------------------------------------------------
(* The inductive invariant.                                                  *)

(* The rows of tag t in S that a range selects.                              *)
Selected(S, t, r) == {n \in S : TagOf[n] = t /\ InRange(n, r)}

(* Rows of m's tag, selected by the range, at m's time and later.            *)
RowsAt(S, r, m) == AtTime(Selected(S, TagOf[m], r), TsOf[m])
RowsAfter(S, r, m) == LaterThan(Selected(S, TagOf[m], r), TsOf[m])

(* The points with the page that was read, and the offset after it.          *)
Points == load.allPoints \o load.items
Reached == load.offset + Len(load.items)

(* The tags whose pages have all been added.                                 *)
DoneTags == load.wanted \ (load.todo \cup {load.tag})

(* An active load works on one of the tags; there is a page between the      *)
(* query and its reply only; no page starts behind the end of the result.    *)
PageFits ==
    /\ IsFiniteSet(table)
    /\ load.stage \in {"none", "rows"} => load.items = <<>>
    /\ load.stage # "none" =>
          /\ load.tag \in load.wanted \ load.todo
          /\ Reached <= Cardinality(Selected(table, load.tag, load.range))

(* Tag t has at least the points it had rows when Load was clicked.          *)
HasAll(t) ==
    \A m \in Msg : TagOf[m] = t =>
        Cardinality(RowsAt(load.before, load.range, m)) <= Count(Points, m)

(* A row of the tag in work that an insert pushed on is still ahead: what is *)
(* missing of a timestamp lies behind the offset.                            *)
NothingSkipped ==
    load.stage # "none" =>
        \A m \in Msg : TagOf[m] = load.tag =>
            Enough(Count(Points, m), Cardinality(RowsAt(load.before, load.range, m)),
                   Reached, Cardinality(RowsAfter(table, load.range, m)))

(* What ends the pages of a tag shows that the tag has all its points.       *)
EndIsComplete ==
    /\ load.stage # "none" => \A t \in DoneTags : HasAll(t)
    /\ load.stage \in {"count", "reply"} /\ IsShort(load.items) => HasAll(load.tag)
    /\ load.stage = "reply" /\ Reached >= load.total => HasAll(load.tag)

(* The rows of the tags that are done.                                       *)
RowsOf(S, D, r) == {n \in S : TagOf[n] \in D /\ InRange(n, r)}
DoneRows == RowsOf(table, DoneTags, load.range)

(* Only rows become points, and each of them once while the table rests.     *)
NothingAdded ==
    load.stage # "none" =>
        /\ \A i \in DOMAIN Points : Points[i] \in Requested(table)
        /\ load.before = table => Len(Points) = Cardinality(DoneRows) + Reached
        /\ load.before = table /\ load.stage \in {"count", "reply"} /\ IsShort(load.items) =>
              Reached = Cardinality(Selected(table, load.tag, load.range))
        /\ load.before = table /\ load.stage = "reply" =>
              load.total = Cardinality(Selected(table, load.tag, load.range))

IInv == TypeOK /\ PageFits /\ NothingSkipped /\ EndIsComplete /\ NothingAdded
------------------------------------------------------------------------------
(* What each action does to the parts the invariant speaks of.               *)

(* The work that goes on is the same.                                        *)
SameWork ==
    /\ load'.range = load.range /\ load'.wanted = load.wanted /\ load'.before = load.before
    /\ load'.todo = load.todo /\ load'.tag = load.tag

(* The fields of a load.                                                     *)
LEMMA Fields ==
    ASSUME TypeOK
    PROVE  /\ load.range \in TimeRange /\ load.wanted \subseteq Tag
           /\ load.before \subseteq Msg /\ load.before \subseteq table /\ table \subseteq Msg
           /\ load.todo \subseteq load.wanted /\ load.tag \in Tag \cup {None}
           /\ load.offset \in Nat /\ load.total \in Nat
           /\ load.items \in Seq(Msg) /\ load.allPoints \in Seq(Msg)
           /\ Len(load.items) \in Nat /\ Len(load.items) <= PageSize
           /\ Points \in Seq(Msg) /\ Reached \in Nat
<1>1. /\ load.range \in TimeRange /\ load.wanted \subseteq Tag
      /\ load.before \subseteq Msg /\ load.before \subseteq table /\ table \subseteq Msg
      /\ load.todo \subseteq load.wanted /\ load.tag \in Tag \cup {None}
      /\ load.offset \in Nat /\ load.total \in Nat
      /\ load.items \in Seq(Msg) /\ load.allPoints \in Seq(Msg)
      /\ Len(load.items) <= PageSize
  BY DEF TypeOK
<1>2. Len(load.items) \in Nat
  BY <1>1
<1>3. Points \in Seq(Msg) /\ Reached \in Nat
  BY <1>1, <1>2 DEF Points, Reached
<1> QED BY <1>1, <1>2, <1>3

(* The rows of a request are finitely many.                                  *)
LEMMA SelectedFacts ==
    ASSUME NEW S \in SUBSET Msg, IsFiniteSet(S), NEW t, NEW r
    PROVE  /\ Selected(S, t, r) \in SUBSET Msg /\ Selected(S, t, r) \subseteq S
           /\ IsFiniteSet(Selected(S, t, r))
           /\ Cardinality(Selected(S, t, r)) \in Nat
<1>1. Selected(S, t, r) \in SUBSET S
  BY DEF Selected
<1>2. IsFiniteSet(Selected(S, t, r))
  BY <1>1, FS_Subset
<1> QED BY <1>1, <1>2, FS_CardinalityType

(* A query reads a page.                                                     *)
LEMMA SelectMoves ==
    ASSUME TypeOK, PageFits, SelectRows
    PROVE  /\ load.stage = "rows" /\ load'.stage = "count"
           /\ SameWork /\ load'.total = load.total /\ UNCHANGED <<table, loading>>
           /\ load'.offset = load.offset /\ load'.allPoints = load.allPoints
           /\ \E all \in Descending(Selected(table, load.tag, load.range)) :
                 /\ load'.items = Page(all, Reached)
                 /\ Page(all, Reached) \in Seq(Selected(table, load.tag, load.range))
                 /\ Points' = Points \o Page(all, Reached)
                 /\ Reached' = Reached + Len(Page(all, Reached))
                 /\ load' = [load EXCEPT !.items = Page(all, Reached), !.stage = "count"]
<1> DEFINE M == Selected(table, load.tag, load.range)
<1>1. load.stage = "rows" /\ load.items = <<>> /\ M = Matching(table)
  BY DEF SelectRows, PageFits, Selected, Matching
<1>2. PICK all \in Descending(M) :
         load' = [load EXCEPT !.items = Page(all, load.offset), !.stage = "count"]
  BY <1>1 DEF SelectRows
<1>3. /\ load.offset \in Nat /\ load.allPoints \in Seq(Msg) /\ Reached = load.offset
      /\ Points = load.allPoints /\ table \subseteq Msg
  BY <1>1, Fields DEF Reached, Points
<1>4. /\ load'.items = Page(all, Reached) /\ load'.stage = "count" /\ SameWork
      /\ load'.total = load.total /\ load'.offset = load.offset
      /\ load'.allPoints = load.allPoints
  BY <1>2, <1>3 DEF TypeOK, SameWork
<1>5. Cardinality(M) \in Nat /\ Reached <= Cardinality(M)
  BY <1>1, <1>3, SelectedFacts DEF PageFits
<1>6. Page(all, Reached) \in Seq(M)
  <2>1. all \in [1..Cardinality(M) -> M]
    BY DEF Descending
  <2> HIDE DEF M
  <2> QED BY <1>3, <1>5, <2>1, PageFacts
<1>7. Points' = Points \o Page(all, Reached)
  BY <1>3, <1>4 DEF Points
<1>8. Reached' = Reached + Len(Page(all, Reached))
  BY <1>3, <1>4 DEF Reached
<1>9. UNCHANGED <<table, loading>>
  BY DEF SelectRows
<1> HIDE DEF M
<1>10. \E a \in Descending(M) :
                 /\ load'.items = Page(a, Reached)
                 /\ Page(a, Reached) \in Seq(M)
                 /\ Points' = Points \o Page(a, Reached)
                 /\ Reached' = Reached + Len(Page(a, Reached))
                 /\ load' = [load EXCEPT !.items = Page(a, Reached), !.stage = "count"]
  BY <1>2, <1>3, <1>4, <1>6, <1>7, <1>8
<1> QED BY <1>1, <1>4, <1>9, <1>10 DEF M

(* The count is read.                                                        *)
LEMMA CountMoves ==
    ASSUME TypeOK, PageFits, CountRows
    PROVE  /\ load.stage = "count" /\ load'.stage = "reply"
           /\ SameWork /\ UNCHANGED <<table, loading>>
           /\ load'.items = load.items /\ Points' = Points /\ Reached' = Reached
           /\ load'.total = Cardinality(Selected(table, load.tag, load.range))
<1>1. Selected(table, load.tag, load.range) = Matching(table)
  BY DEF Selected, Matching
<1>2. /\ load'.stage = "reply" /\ SameWork /\ load'.items = load.items
      /\ load'.offset = load.offset /\ load'.allPoints = load.allPoints
      /\ load'.total = Cardinality(Selected(table, load.tag, load.range))
  BY <1>1 DEF CountRows, TypeOK, SameWork
<1> QED BY <1>2 DEF Points, Reached, CountRows

(* The page is added; it counted as reached before.                          *)
LEMMA PageMoves ==
    ASSUME TypeOK
    PROVE  /\ WithPage.allPoints = Points /\ WithPage.offset = Reached
           /\ WithPage.items = <<>> /\ WithPage.range = load.range
           /\ WithPage.wanted = load.wanted /\ WithPage.before = load.before
           /\ WithPage.todo = load.todo /\ WithPage.tag = load.tag
           /\ WithPage.total = load.total
           /\ WithPage \in [stage : Stages, range : TimeRange, wanted : SUBSET Tag,
                            before : SUBSET Msg, todo : SUBSET Tag, tag : Tag \cup {None},
                            offset : Nat, items : Seq(Msg), total : Nat, allPoints : Seq(Msg)]
<1>1. Points \in Seq(Msg) /\ Reached \in Nat /\ <<>> \in Seq(Msg)
  BY Fields
<1>2. WithPage = [load EXCEPT !.allPoints = Points, !.offset = Reached, !.items = <<>>]
  BY DEF WithPage, TypeOK, Points, Reached
<1> QED BY <1>1, <1>2 DEF TypeOK

(* The next page of the tag is asked for.                                    *)
LEMMA NextPageMoves ==
    ASSUME TypeOK, PageFits, NextPage
    PROVE  /\ load.stage = "reply" /\ load'.stage = "rows" /\ UNCHANGED <<table, loading>>
           /\ SameWork /\ load'.total = load.total
           /\ load'.items = <<>> /\ Points' = Points /\ Reached' = Reached
           /\ load'.allPoints = Points /\ load'.offset = Reached
<1>1. /\ load'.stage = "rows" /\ SameWork /\ load'.items = <<>>
      /\ load'.allPoints = Points /\ load'.offset = Reached /\ load'.total = load.total
  BY PageMoves DEF NextPage, SameWork
<1>2. Points \in Seq(Msg) /\ Reached \in Nat
  BY Fields
<1>3. Points' = Points
  BY <1>1, <1>2 DEF Points
<1>4. Reached' = Reached
  BY <1>1, <1>2 DEF Reached
<1> QED BY <1>1, <1>3, <1>4 DEF NextPage

(* The first page of the next tag is asked for.                              *)
LEMMA NextTagMoves ==
    ASSUME TypeOK, PageFits, NEW t \in Tag, NextTag(t)
    PROVE  /\ load.stage = "reply" /\ load'.stage = "rows" /\ UNCHANGED <<table, loading>>
           /\ IsShort(load.items) \/ Reached >= load.total
           /\ t \in load.todo /\ load'.tag = t /\ load'.todo = load.todo \ {t}
           /\ load'.range = load.range /\ load'.wanted = load.wanted
           /\ load'.before = load.before /\ load'.total = load.total
           /\ load'.items = <<>> /\ Points' = Points /\ Reached' = 0
           /\ load'.allPoints = Points /\ load'.offset = 0
<1>1. /\ load'.stage = "rows" /\ load'.tag = t /\ load'.todo = load.todo \ {t}
      /\ load'.range = load.range /\ load'.wanted = load.wanted
      /\ load'.before = load.before /\ load'.total = load.total
      /\ load'.items = <<>> /\ load'.allPoints = Points /\ load'.offset = 0
  BY PageMoves DEF NextTag, FirstPage
<1>2. Points \in Seq(Msg) /\ Reached \in Nat /\ load.total \in Nat
  BY Fields
<1>3. Points' = Points
  BY <1>1, <1>2 DEF Points
<1>4. Reached' = 0
  BY <1>1 DEF Reached
<1>5. IsShort(load.items) \/ Reached >= load.total
  BY <1>2, PageMoves DEF NextTag, MorePages
<1> QED BY <1>1, <1>3, <1>4, <1>5 DEF NextTag

(* A load starts.                                                            *)
LEMMA ClickMoves ==
    ASSUME NEW S \in SUBSET Tag, NEW r \in Ranges, NEW t \in Tag, ClickLoad(S, r, t)
    PROVE  /\ load'.stage = "rows" /\ table' = table /\ loading' = TRUE /\ t \in S
           /\ load'.tag = t /\ load'.todo = S \ {t} /\ load'.wanted = S
           /\ load'.range = r /\ load'.before = table /\ load'.total = 0
           /\ load'.items = <<>> /\ load'.allPoints = <<>> /\ load'.offset = 0
           /\ Points' = <<>> /\ Reached' = 0
<1>1. /\ load'.stage = "rows" /\ table' = table /\ loading' = TRUE /\ t \in S
      /\ load'.tag = t /\ load'.todo = S \ {t} /\ load'.wanted = S
      /\ load'.range = r /\ load'.before = table /\ load'.total = 0
      /\ load'.items = <<>> /\ load'.allPoints = <<>> /\ load'.offset = 0
  BY DEF ClickLoad, FirstPage, NoLoad
<1>2. Points' = <<>> /\ Reached' = 0
  BY <1>1 DEF Points, Reached
<1> QED BY <1>1, <1>2
------------------------------------------------------------------------------
(* Types.                                                                    *)

(* The record of a load, without the relations between its fields.           *)
LoadType == [stage : Stages, range : TimeRange, wanted : SUBSET Tag,
             before : SUBSET Msg, todo : SUBSET Tag, tag : Tag \cup {None},
             offset : Nat, items : Seq(Msg), total : Nat, allPoints : Seq(Msg)]

(* Nothing is loaded.                                                        *)
LEMMA NoLoadType == NoLoad \in LoadType /\ NoLoad.todo = {} /\ NoLoad.before = {}
                    /\ NoLoad.items = <<>> /\ NoLoad.stage = "none" /\ Len(<<>>) <= PageSize
BY HistoryAssumption DEF NoLoad, LoadType, Stages, TimeRange

(* Every step keeps the types.                                               *)
LEMMA TypeStep == ASSUME TypeOK, PageFits, [Next]_vars PROVE TypeOK'
<1> USE DEF LoadType
<1>0. load \in LoadType /\ IsFiniteSet(table) /\ table \subseteq Msg
  BY DEF TypeOK, PageFits
<1>1. CASE UNCHANGED vars
  BY <1>1 DEF vars, TypeOK
<1>2. ASSUME NEW m \in Msg, Insert(m) PROVE TypeOK'
  BY <1>2 DEF Insert, TypeOK
<1>3. ASSUME NEW S \in SUBSET Tag, NEW r \in Ranges, NEW t \in Tag, ClickLoad(S, r, t)
      PROVE  TypeOK'
  <2>1. r \in TimeRange /\ Len(<<>>) <= PageSize
    BY HistoryAssumption DEF TimeRange
  <2>2. load' \in LoadType
    BY <1>0, <1>3, <2>1, NoLoadType DEF ClickLoad, FirstPage, Stages
  <2> HIDE DEF LoadType
  <2>3. /\ load'.todo = S \ {t} /\ load'.wanted = S /\ load'.before = table
        /\ load'.items = <<>> /\ table' = table /\ loading' = TRUE
    BY <1>3, ClickMoves
  <2> QED BY <1>0, <2>1, <2>2, <2>3 DEF TypeOK, LoadType
<1>4. CASE SelectRows
  <2> DEFINE M == Selected(table, load.tag, load.range)
  <2>1. PICK all \in Descending(M) :
           /\ load'.items = Page(all, Reached)
           /\ Page(all, Reached) \in Seq(M)
           /\ load' = [load EXCEPT !.items = Page(all, Reached), !.stage = "count"]
    BY <1>4, SelectMoves
  <2>2. M \in SUBSET Msg /\ Cardinality(M) \in Nat /\ all \in [1..Cardinality(M) -> M]
    BY <1>0, SelectedFacts DEF Descending
  <2>3. Reached \in Nat /\ Reached <= Cardinality(M)
    BY <1>4, SelectMoves, Fields DEF PageFits
  <2> HIDE DEF M
  <2>4. Page(all, Reached) \in Seq(Msg)
    BY <2>1, <2>2
  <2>5. Len(Page(all, Reached)) <= PageSize
    BY <2>2, <2>3, PageFacts
  <2>6. load' \in LoadType
    BY <1>0, <2>1, <2>4 DEF Stages
  <2>7. /\ load'.todo = load.todo /\ load'.wanted = load.wanted /\ load'.before = load.before
        /\ UNCHANGED <<table, loading>>
    BY <1>4, SelectMoves DEF SameWork
  <2> HIDE DEF LoadType
  <2> QED BY <1>0, <2>1, <2>5, <2>6, <2>7 DEF TypeOK, LoadType
<1>5. CASE CountRows
  <2>1. Cardinality(Selected(table, load.tag, load.range)) \in Nat
    BY <1>0, SelectedFacts
  <2>2. Matching(table) = Selected(table, load.tag, load.range)
    BY DEF Matching, Selected
  <2>3. load' \in LoadType
    BY <1>0, <1>5, <2>1, <2>2 DEF CountRows, Stages
  <2>4. /\ load'.todo = load.todo /\ load'.wanted = load.wanted /\ load'.before = load.before
        /\ load'.items = load.items /\ UNCHANGED <<table, loading>>
    BY <1>5, CountMoves DEF SameWork
  <2> HIDE DEF LoadType
  <2> QED BY <1>0, <2>3, <2>4 DEF TypeOK, LoadType
<1>6. CASE NextPage
  <2>1. load' \in LoadType
    BY <1>0, <1>6, PageMoves DEF NextPage, Stages
  <2>2. /\ load'.todo = load.todo /\ load'.wanted = load.wanted /\ load'.before = load.before
        /\ load'.items = <<>> /\ UNCHANGED <<table, loading>> /\ Len(<<>>) <= PageSize
    BY <1>6, NextPageMoves, NoLoadType DEF SameWork
  <2> HIDE DEF LoadType
  <2>3. load.todo \subseteq load.wanted /\ load.before \subseteq table /\ loading \in BOOLEAN
    BY DEF TypeOK
  <2> QED BY <1>0, <2>1, <2>2, <2>3 DEF TypeOK, LoadType
<1>7. ASSUME NEW t \in Tag, NextTag(t) PROVE TypeOK'
  <2>1. load' \in LoadType
    BY <1>0, <1>7, PageMoves DEF NextTag, FirstPage, Stages
  <2>2. /\ load'.todo = load.todo \ {t} /\ load'.wanted = load.wanted
        /\ load'.before = load.before
        /\ load'.items = <<>> /\ UNCHANGED <<table, loading>> /\ Len(<<>>) <= PageSize
    BY <1>7, NextTagMoves, NoLoadType
  <2> HIDE DEF LoadType
  <2>3. load.todo \subseteq load.wanted /\ load.before \subseteq table /\ loading \in BOOLEAN
    BY DEF TypeOK
  <2> QED BY <1>0, <2>1, <2>2, <2>3 DEF TypeOK, LoadType
<1>8. CASE Deliver \/ LoadFails
  <2>1. load' = NoLoad /\ loading' = FALSE /\ table' = table
    BY <1>8 DEF Deliver, LoadFails, Ended
  <2> QED BY <1>0, <2>1, NoLoadType DEF TypeOK
<1> QED BY <1>1, <1>2, <1>3, <1>4, <1>5, <1>6, <1>7, <1>8 DEF Next, Step
------------------------------------------------------------------------------
(* Rows under inserts.                                                       *)

(* The rows later than m and at its time are some of the rows of its tag.    *)
LEMMA RowFacts ==
    ASSUME NEW S \in SUBSET Msg, IsFiniteSet(S), NEW r, NEW m \in Msg
    PROVE  /\ Cardinality(RowsAt(S, r, m)) \in Nat
           /\ Cardinality(RowsAfter(S, r, m)) \in Nat
           /\ Cardinality(RowsAfter(S, r, m)) + Cardinality(RowsAt(S, r, m))
                 <= Cardinality(Selected(S, TagOf[m], r))
<1> DEFINE M == Selected(S, TagOf[m], r)
           H == RowsAfter(S, r, m)
           E == RowsAt(S, r, m)
<1>1. /\ IsFiniteSet(M) /\ Cardinality(M) \in Nat /\ M \in SUBSET Msg
  BY SelectedFacts
<1>2. H \in SUBSET M /\ E \in SUBSET M /\ H \cup E \in SUBSET M
  BY DEF RowsAt, RowsAfter, AtTime, LaterThan
<1>3. H \cap E = {}
  BY <1>1, PositionsAssumption DEF RowsAt, RowsAfter, AtTime, LaterThan
<1> HIDE DEF M, H, E
<1>4. IsFiniteSet(H) /\ IsFiniteSet(E) /\ Cardinality(H \cup E) <= Cardinality(M)
  BY <1>1, <1>2, FS_Subset
<1>5. Cardinality(H) \in Nat /\ Cardinality(E) \in Nat
  BY <1>4, FS_CardinalityType
<1>6. Cardinality(H \cup E) = Cardinality(H) + Cardinality(E) - Cardinality(H \cap E)
  BY <1>4, FS_Union
<1>7. Cardinality(H \cap E) = 0
  BY <1>3, FS_EmptySet
<1>8. Cardinality(H) + Cardinality(E) <= Cardinality(M)
  BY <1>4, <1>5, <1>6, <1>7
<1> QED BY <1>5, <1>8 DEF M, H, E

(* More rows are never fewer.                                                *)
LEMMA RowsGrow ==
    ASSUME NEW S \in SUBSET Msg, NEW U \in SUBSET Msg, IsFiniteSet(U), S \subseteq U,
           NEW t, NEW r, NEW m \in Msg
    PROVE  /\ Cardinality(Selected(S, t, r)) <= Cardinality(Selected(U, t, r))
           /\ Cardinality(RowsAt(S, r, m)) <= Cardinality(RowsAt(U, r, m))
           /\ Cardinality(RowsAfter(S, r, m)) <= Cardinality(RowsAfter(U, r, m))
<1>1. /\ Selected(S, t, r) \in SUBSET Selected(U, t, r)
      /\ RowsAt(S, r, m) \in SUBSET RowsAt(U, r, m)
      /\ RowsAfter(S, r, m) \in SUBSET RowsAfter(U, r, m)
  BY DEF Selected, RowsAt, RowsAfter, AtTime, LaterThan
<1>2. Selected(U, t, r) \in SUBSET U /\ RowsAt(U, r, m) \in SUBSET U
      /\ RowsAfter(U, r, m) \in SUBSET U
  BY DEF Selected, RowsAt, RowsAfter, AtTime, LaterThan
<1>3. /\ IsFiniteSet(Selected(U, t, r)) /\ IsFiniteSet(RowsAt(U, r, m))
      /\ IsFiniteSet(RowsAfter(U, r, m))
  BY <1>2, FS_Subset
<1>4. Cardinality(Selected(S, t, r)) <= Cardinality(Selected(U, t, r))
  BY <1>1, <1>3, FS_Subset
<1>5. Cardinality(RowsAt(S, r, m)) <= Cardinality(RowsAt(U, r, m))
  BY <1>1, <1>3, FS_Subset
<1>6. Cardinality(RowsAfter(S, r, m)) <= Cardinality(RowsAfter(U, r, m))
  BY <1>1, <1>3, FS_Subset
<1> QED BY <1>4, <1>5, <1>6

(* At the end of the result nothing is left to be reached.                   *)
LEMMA AtTheEnd ==
    ASSUME NEW S \in SUBSET Msg, IsFiniteSet(S), NEW r, NEW m \in Msg,
           NEW b \in Nat, b <= Cardinality(RowsAt(S, r, m)),
           NEW c \in Nat, NEW off \in Nat, off >= Cardinality(Selected(S, TagOf[m], r)),
           Enough(c, b, off, Cardinality(RowsAfter(S, r, m)))
    PROVE  b <= c
<1>1. /\ Cardinality(RowsAt(S, r, m)) \in Nat
      /\ Cardinality(RowsAfter(S, r, m)) \in Nat
      /\ Cardinality(RowsAfter(S, r, m)) + Cardinality(RowsAt(S, r, m))
                 <= Cardinality(Selected(S, TagOf[m], r))
  BY RowFacts
<1>2. Cardinality(Selected(S, TagOf[m], r)) \in Nat
  BY SelectedFacts
<1> QED BY <1>1, <1>2 DEF Enough

------------------------------------------------------------------------------
(* Every step keeps the invariant.                                           *)

(* The pages stay within the result.                                         *)
LEMMA FitsStep ==
    ASSUME TypeOK, PageFits, [Next]_vars
    PROVE  PageFits'
<1>0. table \in SUBSET Msg /\ IsFiniteSet(table) /\ Reached \in Nat
      /\ load.todo \subseteq load.wanted
  BY Fields DEF PageFits
<1>1. CASE UNCHANGED vars
  BY <1>1 DEF vars, PageFits, Reached
<1>2. ASSUME NEW m \in Msg, Insert(m) PROVE PageFits'
  <2>1. load' = load /\ table' = table \cup {m} /\ Reached' = Reached
    BY <1>2 DEF Insert, Reached
  <2>2. IsFiniteSet(table \cup {m}) /\ table \cup {m} \in SUBSET Msg
    BY <1>0, FS_AddElement
  <2> DEFINE a == Cardinality(Selected(table, load.tag, load.range))
             b == Cardinality(Selected(table \cup {m}, load.tag, load.range))
  <2>3. a \in Nat /\ b \in Nat /\ a <= b
    BY <1>0, <2>2, SelectedFacts, RowsGrow
  <2>4. load.stage # "none" => Reached <= b
    <3>1. load.stage # "none" => Reached <= a
      BY DEF PageFits
    <3> HIDE DEF a, b
    <3> QED BY <1>0, <2>3, <3>1
  <2> QED BY <2>1, <2>2, <2>4 DEF PageFits
<1>3. ASSUME NEW S \in SUBSET Tag, NEW r \in Ranges, NEW t \in Tag, ClickLoad(S, r, t)
      PROVE  PageFits'
  <2>1. Cardinality(Selected(table, t, r)) \in Nat
    BY <1>0, SelectedFacts
  <2>2. /\ load'.stage = "rows" /\ table' = table /\ t \in S /\ load'.tag = t
        /\ load'.todo = S \ {t} /\ load'.wanted = S /\ load'.range = r
        /\ load'.items = <<>> /\ Reached' = 0
    BY <1>3, ClickMoves
  <2> QED BY <1>0, <2>1, <2>2 DEF PageFits
<1>4. CASE SelectRows
  <2> DEFINE M == Selected(table, load.tag, load.range)
  <2>1. PICK all \in Descending(M) : Reached' = Reached + Len(Page(all, Reached))
    BY <1>4, SelectMoves
  <2>2. Cardinality(M) \in Nat /\ all \in [1..Cardinality(M) -> M]
    BY <1>0, SelectedFacts DEF Descending
  <2>3. /\ load.stage = "rows" /\ load'.stage = "count" /\ SameWork /\ table' = table
    BY <1>4, SelectMoves
  <2>4. Reached <= Cardinality(M)
    BY <2>3 DEF PageFits
  <2> HIDE DEF M
  <2>5. Reached' <= Cardinality(M)
    BY <1>0, <2>1, <2>2, <2>4, PageFacts
  <2> QED BY <2>3, <2>5 DEF PageFits, SameWork, M
<1>5. CASE CountRows
  <2>1. /\ load.stage = "count" /\ load'.stage = "reply" /\ SameWork /\ table' = table
        /\ Reached' = Reached
    BY <1>5, CountMoves
  <2> QED BY <2>1 DEF PageFits, SameWork
<1>6. CASE NextPage
  <2>1. /\ load.stage = "reply" /\ load'.stage = "rows" /\ SameWork /\ table' = table
        /\ Reached' = Reached /\ load'.items = <<>>
    BY <1>6, NextPageMoves
  <2> QED BY <2>1 DEF PageFits, SameWork
<1>7. ASSUME NEW t \in Tag, NextTag(t) PROVE PageFits'
  <2>1. Cardinality(Selected(table, t, load.range)) \in Nat
    BY <1>0, SelectedFacts
  <2> QED BY <1>0, <1>7, <2>1, NextTagMoves DEF PageFits
<1>8. CASE Deliver \/ LoadFails
  <2>1. load' = NoLoad /\ table' = table
    BY <1>8 DEF Deliver, LoadFails, Ended
  <2> QED BY <1>0, <2>1, NoLoadType DEF PageFits
<1> QED BY <1>1, <1>2, <1>3, <1>4, <1>5, <1>6, <1>7, <1>8 DEF Next, Step

(* The rows of m's tag in a state, as the lemmas count them.                 *)
LEMMA CountsAre ==
    ASSUME TypeOK, PageFits, NEW m \in Msg
    PROVE  /\ Count(Points, m) \in Nat
           /\ Cardinality(RowsAt(load.before, load.range, m)) \in Nat
           /\ Cardinality(RowsAt(load.before, load.range, m))
                 <= Cardinality(RowsAt(table, load.range, m))
           /\ Cardinality(RowsAfter(table, load.range, m)) \in Nat
<1>1. /\ Points \in Seq(Msg) /\ load.before \in SUBSET Msg /\ load.before \subseteq table
      /\ table \in SUBSET Msg /\ IsFiniteSet(table)
  BY Fields DEF PageFits
<1>2. IsFiniteSet(load.before)
  BY <1>1, FS_Subset
<1>3. Count(Points, m) \in Nat
  BY <1>1, CountType
<1>4. Cardinality(RowsAt(load.before, load.range, m)) \in Nat
  BY <1>1, <1>2, RowFacts
<1>5. Cardinality(RowsAfter(table, load.range, m)) \in Nat
  BY <1>1, RowFacts
<1>6. Cardinality(RowsAt(load.before, load.range, m))
         <= Cardinality(RowsAt(table, load.range, m))
  BY <1>1, RowsGrow
<1> QED BY <1>3, <1>4, <1>5, <1>6

(* A query reads a page: for each row of the tag, the points that it adds.   *)
LEMMA SelectCovers ==
    ASSUME TypeOK, PageFits, NothingSkipped, SelectRows, NEW m \in Msg, TagOf[m] = load.tag
    PROVE  Enough(Count(Points', m), Cardinality(RowsAt(load.before, load.range, m)),
                  Reached', Cardinality(RowsAfter(table, load.range, m)))
<1> DEFINE M == Selected(table, load.tag, load.range)
           b == Cardinality(RowsAt(load.before, load.range, m))
           c == Count(Points, m)
           h == Cardinality(RowsAfter(table, load.range, m))
<1>1. PICK all \in Descending(M) :
         /\ Page(all, Reached) \in Seq(M)
         /\ Points' = Points \o Page(all, Reached)
         /\ Reached' = Reached + Len(Page(all, Reached))
  BY SelectMoves
<1>2. /\ load.stage = "rows" /\ Reached \in Nat /\ Points \in Seq(Msg)
      /\ table \in SUBSET Msg /\ IsFiniteSet(table)
  BY SelectMoves, Fields DEF PageFits
<1>3. M \in SUBSET Msg /\ IsFiniteSet(M) /\ \A n \in M : TagOf[n] = TagOf[m]
  <2>1. M \in SUBSET Msg /\ IsFiniteSet(M)
    BY <1>2, SelectedFacts
  <2>2. \A n \in M : TagOf[n] = TagOf[m]
    BY DEF Selected
  <2> QED BY <2>1, <2>2
<1>4. Page(all, Reached) \in Seq(Msg)
  BY <1>1, <1>3
<1>5. Reached <= Cardinality(M) /\ Enough(c, b, Reached, h)
  BY <1>2 DEF PageFits, NothingSkipped
<1>6. /\ RowsAt(table, load.range, m) = AtTime(M, TsOf[m])
      /\ RowsAfter(table, load.range, m) = LaterThan(M, TsOf[m])
  BY DEF RowsAt, RowsAfter
<1>7. b \in Nat /\ c \in Nat /\ b <= Cardinality(AtTime(M, TsOf[m]))
      /\ h = Cardinality(LaterThan(M, TsOf[m]))
  BY <1>6, CountsAre
<1>8. Count(Points', m) = c + Count(Page(all, Reached), m)
  BY <1>1, <1>2, <1>4, CountAdds
<1> HIDE DEF M, b, c, h
<1>9. Enough(c + Count(Page(all, Reached), m), b, Reached + Len(Page(all, Reached)), h)
  BY <1>2, <1>3, <1>5, <1>7, PageCovers
<1> QED BY <1>1, <1>8, <1>9 DEF b, h

(* Nothing is skipped: an insert pushes rows on, never back.                 *)
LEMMA SkippedStep ==
    ASSUME TypeOK, PageFits, NothingSkipped, [Next]_vars, TypeOK', PageFits'
    PROVE  NothingSkipped'
<1> SUFFICES ASSUME load'.stage # "none", NEW m \in Msg, TagOf[m] = load'.tag
             PROVE  Enough(Count(Points', m),
                           Cardinality(RowsAt(load'.before, load'.range, m)),
                           Reached', Cardinality(RowsAfter(table', load'.range, m)))
  BY DEF NothingSkipped
<1> DEFINE b == Cardinality(RowsAt(load.before, load.range, m))
           c == Count(Points, m)
           h == Cardinality(RowsAfter(table, load.range, m))
           c2 == Count(Points', m)
           h2 == Cardinality(RowsAfter(table', load'.range, m))
           b2 == Cardinality(RowsAt(load'.before, load'.range, m))
<1>0. b \in Nat /\ c \in Nat /\ h \in Nat /\ table \in SUBSET Msg /\ Reached \in Nat
  BY CountsAre, Fields
<1>b. c2 \in Nat /\ h2 \in Nat
  <2>1. Points' \in Seq(Msg) /\ table' \in SUBSET Msg /\ IsFiniteSet(table')
    <3>1. load'.allPoints \in Seq(Msg) /\ load'.items \in Seq(Msg) /\ table' \in SUBSET Msg
      BY DEF TypeOK
    <3> QED BY <3>1 DEF Points, PageFits
  <2> QED BY <2>1, CountType, RowFacts
<1>a. load.stage # "none" /\ TagOf[m] = load.tag => Enough(c, b, Reached, h)
  BY DEF NothingSkipped
<1>1. CASE UNCHANGED vars
  <2>1. load' = load /\ table' = table /\ Points' = Points /\ Reached' = Reached
    BY <1>1 DEF vars, Points, Reached
  <2> QED BY <1>a, <2>1
<1>2. ASSUME NEW n \in Msg, Insert(n)
      PROVE  Enough(c2, b2, Reached', h2)
  <2>1. /\ load' = load /\ table' = table \cup {n} /\ Points' = Points /\ Reached' = Reached
    BY <1>2 DEF Insert, Points, Reached
  <2>2. table' \in SUBSET Msg /\ IsFiniteSet(table') /\ table \subseteq table'
    BY <1>0, <2>1 DEF PageFits
  <2>3. h <= h2
    BY <1>0, <2>1, <2>2, RowsGrow
  <2>4. b2 = b /\ c2 = c /\ Enough(c, b, Reached, h)
    BY <1>a, <2>1
  <2> HIDE DEF b, c, h, b2, c2, h2
  <2> QED BY <1>0, <1>b, <2>1, <2>3, <2>4 DEF Enough
<1>3. ASSUME Reached' = 0 PROVE Enough(c2, b2, Reached', h2)
  <2> HIDE DEF b, c, h, b2, c2, h2
  <2> QED BY <1>b, <1>3 DEF Enough
<1>4. ASSUME NEW S \in SUBSET Tag, NEW r \in Ranges, NEW t \in Tag, ClickLoad(S, r, t)
      PROVE  Reached' = 0
  BY <1>4, ClickMoves
<1>5. CASE SelectRows
  <2>1. SameWork /\ table' = table
    BY <1>5, SelectMoves
  <2>2. Enough(c2, b, Reached', h)
    BY <1>5, <2>1, SelectCovers DEF SameWork
  <2> QED BY <2>1, <2>2 DEF SameWork
<1>6. CASE CountRows \/ NextPage
  <2>1. /\ load.stage # "none" /\ SameWork /\ table' = table
        /\ Points' = Points /\ Reached' = Reached
    BY <1>6, CountMoves, NextPageMoves
  <2> QED BY <1>a, <2>1 DEF SameWork
<1>7. ASSUME NEW t \in Tag, NextTag(t) PROVE Reached' = 0
  BY <1>7, NextTagMoves
<1>8. ~(Deliver \/ LoadFails)
  BY NoLoadType DEF Deliver, LoadFails, Ended
<1> HIDE DEF b, c, h, b2, c2, h2
<1>9. Enough(c2, b2, Reached', h2)
  BY <1>1, <1>2, <1>3, <1>4, <1>5, <1>6, <1>7, <1>8 DEF Next, Step, b2, c2, h2
<1> QED BY <1>9 DEF b2, c2, h2

(* A tag that has all its points keeps them.                                 *)
LEMMA HasAllStays ==
    ASSUME TypeOK, PageFits, NEW t, HasAll(t), NEW p \in Seq(Msg), Points' = Points \o p,
           load'.before = load.before, load'.range = load.range
    PROVE  HasAll(t)'
<1> SUFFICES ASSUME NEW m \in Msg, TagOf[m] = t
             PROVE  Cardinality(RowsAt(load.before, load.range, m)) <= Count(Points', m)
  BY DEF HasAll
<1> DEFINE b == Cardinality(RowsAt(load.before, load.range, m))
           c == Count(Points, m)
           d == Count(p, m)
<1>1. b \in Nat /\ c \in Nat /\ d \in Nat
  BY CountsAre, CountType
<1>2. b <= c
  BY DEF HasAll
<1>3. Count(Points', m) = c + d
  BY Fields, CountAdds
<1> HIDE DEF b, c, d
<1>4. b <= c + d
  BY <1>1, <1>2
<1> QED BY <1>3, <1>4 DEF b

(* The same without a page.                                                  *)
LEMMA HasAllSame ==
    ASSUME NEW t, HasAll(t), Points' = Points,
           load'.before = load.before, load'.range = load.range
    PROVE  HasAll(t)'
BY DEF HasAll

(* Where the pages of a tag end, the tag has all its points.                 *)
LEMMA EndStep ==
    ASSUME TypeOK, PageFits, NothingSkipped, EndIsComplete, [Next]_vars,
           TypeOK', PageFits', NothingSkipped'
    PROVE  EndIsComplete'
<1>1. CASE UNCHANGED vars \/ \E m \in Msg : Insert(m)
  <2>1. load' = load /\ Points' = Points /\ Reached' = Reached /\ DoneTags' = DoneTags
    BY <1>1 DEF vars, Insert, Points, Reached, DoneTags
  <2>2. \A t : HasAll(t) => HasAll(t)'
    BY <2>1, HasAllSame
  <2>3. load'.tag = load.tag /\ load'.stage = load.stage /\ load'.items = load.items
        /\ load'.total = load.total
    BY <2>1
  <2>4. load.stage # "none" => \A t \in DoneTags' : HasAll(t)'
    BY <2>1, <2>2 DEF EndIsComplete
  <2>5. HasAll(load.tag) => HasAll(load.tag)'
    BY <2>1 DEF HasAll
  <2> QED BY <2>1, <2>3, <2>4, <2>5 DEF EndIsComplete
<1>2. ASSUME NEW S \in SUBSET Tag, NEW r \in Ranges, NEW t \in Tag, ClickLoad(S, r, t)
      PROVE  EndIsComplete'
  <2>1. load'.stage = "rows" /\ DoneTags' = {}
    BY <1>2, ClickMoves DEF DoneTags
  <2> QED BY <2>1 DEF EndIsComplete
<1>3. CASE SelectRows
  <2> DEFINE M == Selected(table, load.tag, load.range)
  <2>1. PICK all \in Descending(M) :
           /\ load'.items = Page(all, Reached) /\ Page(all, Reached) \in Seq(M)
           /\ Points' = Points \o Page(all, Reached)
           /\ Reached' = Reached + Len(Page(all, Reached))
    BY <1>3, SelectMoves
  <2>2. /\ load.stage = "rows" /\ load'.stage = "count" /\ SameWork /\ table' = table
    BY <1>3, SelectMoves
  <2>3. /\ table \in SUBSET Msg /\ IsFiniteSet(table) /\ Reached \in Nat
        /\ Reached <= Cardinality(M)
    BY <2>2, Fields DEF PageFits
  <2>4. M \in SUBSET Msg /\ Cardinality(M) \in Nat
    BY <2>3, SelectedFacts
  <2>5. all \in [1..Cardinality(M) -> M]
    BY DEF Descending
  <2>6. Page(all, Reached) \in Seq(Msg)
    BY <2>1, <2>4
  <2>7. DoneTags' = DoneTags /\ \A t \in DoneTags : HasAll(t)
    BY <2>2 DEF EndIsComplete, DoneTags, SameWork
  <2>8. \A t \in DoneTags' : HasAll(t)'
    BY <2>1, <2>2, <2>6, <2>7, HasAllStays DEF SameWork
  <2>9. ASSUME IsShort(load'.items) PROVE HasAll(load.tag)'
    <3>1. Reached' = Cardinality(M) /\ Reached' \in Nat
      <4>1. Len(Page(all, Reached)) < PageSize
        BY <2>1, <2>9 DEF IsShort
      <4> HIDE DEF M
      <4>2. Reached + Len(Page(all, Reached)) = Cardinality(M)
        BY <2>3, <2>4, <2>5, <4>1, PageFacts
      <4> QED BY <2>1, <2>4, <4>2
    <3> SUFFICES ASSUME NEW m \in Msg, TagOf[m] = load.tag
                 PROVE  Cardinality(RowsAt(load.before, load.range, m)) <= Count(Points', m)
      BY <2>2 DEF HasAll, SameWork
    <3>2. Count(Points', m) \in Nat
      <4>1. Points' \in Seq(Msg)
        BY <2>1, <2>6, Fields
      <4> QED BY <4>1, CountType
    <3>3. Enough(Count(Points', m), Cardinality(RowsAt(load.before, load.range, m)),
                 Reached', Cardinality(RowsAfter(table, load.range, m)))
      BY <1>3, SelectCovers
    <3>4. /\ Cardinality(RowsAt(load.before, load.range, m)) \in Nat
          /\ Cardinality(RowsAt(load.before, load.range, m))
                <= Cardinality(RowsAt(table, load.range, m))
      BY CountsAre
    <3>5. Reached' >= Cardinality(Selected(table, TagOf[m], load.range))
      BY <2>4, <3>1
    <3> QED BY <2>3, <3>1, <3>2, <3>3, <3>4, <3>5, AtTheEnd
  <2> QED BY <2>2, <2>8, <2>9 DEF EndIsComplete, SameWork
<1>4. CASE CountRows
  <2>1. /\ load.stage = "count" /\ load'.stage = "reply" /\ SameWork /\ table' = table
        /\ load'.items = load.items /\ Points' = Points /\ Reached' = Reached
        /\ load'.total = Cardinality(Selected(table, load.tag, load.range))
    BY <1>4, CountMoves
  <2>2. DoneTags' = DoneTags /\ \A t \in DoneTags : HasAll(t)
    BY <2>1 DEF EndIsComplete, DoneTags, SameWork
  <2>3. \A t \in DoneTags' : HasAll(t)'
    BY <2>1, <2>2, HasAllSame DEF SameWork
  <2>4. HasAll(load.tag) => HasAll(load.tag)'
    BY <2>1 DEF HasAll, SameWork
  <2>5. IsShort(load'.items) => HasAll(load.tag)
    BY <2>1 DEF EndIsComplete
  <2>6. ASSUME Reached >= Cardinality(Selected(table, load.tag, load.range))
        PROVE  HasAll(load.tag)
    <3> SUFFICES ASSUME NEW m \in Msg, TagOf[m] = load.tag
                 PROVE  Cardinality(RowsAt(load.before, load.range, m)) <= Count(Points, m)
      BY DEF HasAll
    <3>1. table \in SUBSET Msg /\ IsFiniteSet(table) /\ Reached \in Nat
      BY Fields DEF PageFits
    <3>2. Enough(Count(Points, m), Cardinality(RowsAt(load.before, load.range, m)),
                 Reached, Cardinality(RowsAfter(table, load.range, m)))
      BY <2>1 DEF NothingSkipped
    <3>3. /\ Cardinality(RowsAt(load.before, load.range, m)) \in Nat
          /\ Cardinality(RowsAt(load.before, load.range, m))
                <= Cardinality(RowsAt(table, load.range, m))
          /\ Count(Points, m) \in Nat
      BY CountsAre
    <3>4. Reached >= Cardinality(Selected(table, TagOf[m], load.range))
      BY <2>6
    <3> QED BY <3>1, <3>2, <3>3, <3>4, AtTheEnd
  <2>7. load'.tag = load.tag
    BY <2>1 DEF SameWork
  <2> QED BY <2>1, <2>3, <2>4, <2>5, <2>6, <2>7 DEF EndIsComplete
<1>5. CASE NextPage
  <2>1. /\ load.stage = "reply" /\ load'.stage = "rows" /\ SameWork /\ Points' = Points
    BY <1>5, NextPageMoves
  <2>2. DoneTags' = DoneTags /\ \A t \in DoneTags : HasAll(t)
    BY <2>1 DEF EndIsComplete, DoneTags, SameWork
  <2>3. \A t \in DoneTags' : HasAll(t)'
    BY <2>1, <2>2, HasAllSame DEF SameWork
  <2> QED BY <2>1, <2>3 DEF EndIsComplete
<1>6. ASSUME NEW t \in Tag, NextTag(t) PROVE EndIsComplete'
  <2>1. /\ load.stage = "reply" /\ load'.stage = "rows" /\ Points' = Points
        /\ load'.before = load.before /\ load'.range = load.range
        /\ IsShort(load.items) \/ Reached >= load.total
        /\ load'.tag = t /\ load'.todo = load.todo \ {t} /\ load'.wanted = load.wanted
    BY <1>6, NextTagMoves
  <2>2. \A u \in DoneTags : HasAll(u)
    BY <2>1 DEF EndIsComplete
  <2>3. HasAll(load.tag)
    BY <2>1 DEF EndIsComplete
  <2>4. \A u \in DoneTags' : u \in DoneTags \/ u = load.tag
    BY <2>1 DEF DoneTags
  <2>5. \A u \in DoneTags' : HasAll(u)
    BY <2>2, <2>3, <2>4
  <2>6. \A u \in DoneTags' : HasAll(u)'
    BY <2>1, <2>5, HasAllSame
  <2> QED BY <2>1, <2>6 DEF EndIsComplete
<1>7. CASE Deliver \/ LoadFails
  <2>1. load'.stage = "none"
    BY <1>7, NoLoadType DEF Deliver, LoadFails, Ended
  <2> QED BY <2>1 DEF EndIsComplete
<1> QED BY <1>1, <1>2, <1>3, <1>4, <1>5, <1>6, <1>7 DEF Next, Step

(* The rows of a tag that is done join those of the others.                  *)
LEMMA DoneRowsAdd ==
    ASSUME NEW S \in SUBSET Msg, IsFiniteSet(S), NEW D, NEW t, t \notin D, NEW r
    PROVE  /\ Cardinality(RowsOf(S, D, r)) \in Nat
           /\ Cardinality(RowsOf(S, D \cup {t}, r))
                 = Cardinality(RowsOf(S, D, r)) + Cardinality(Selected(S, t, r))
<1> DEFINE A == RowsOf(S, D, r)
           B == Selected(S, t, r)
<1>1. A \in SUBSET S /\ B \in SUBSET S /\ RowsOf(S, D \cup {t}, r) = A \cup B
      /\ A \cap B = {}
  BY DEF Selected, RowsOf
<1>2. IsFiniteSet(A) /\ IsFiniteSet(B)
  BY <1>1, FS_Subset
<1>3. Cardinality(A) \in Nat /\ Cardinality(B) \in Nat
  BY <1>2, FS_CardinalityType
<1>4. Cardinality(A \cup B) = Cardinality(A) + Cardinality(B) - Cardinality(A \cap B)
  BY <1>2, FS_Union
<1>5. Cardinality(A \cap B) = 0
  BY <1>1, FS_EmptySet
<1> HIDE DEF A, B
<1>6. Cardinality(A \cup B) = Cardinality(A) + Cardinality(B)
  BY <1>3, <1>4, <1>5
<1> QED BY <1>1, <1>3, <1>6 DEF A, B

(* Only rows become points, and as many as there are.                        *)
LEMMA AddedStep ==
    ASSUME TypeOK, PageFits, NothingAdded, [Next]_vars
    PROVE  NothingAdded'
<1>0. /\ table \in SUBSET Msg /\ IsFiniteSet(table) /\ load.before \subseteq table
      /\ Reached \in Nat /\ Points \in Seq(Msg) /\ load.total \in Nat
      /\ load.todo \subseteq load.wanted
  BY Fields DEF PageFits
<1>1. CASE UNCHANGED vars
  <2>1. load' = load /\ table' = table /\ Points' = Points /\ Reached' = Reached
        /\ DoneRows' = DoneRows /\ Requested(table)' = Requested(table)
    BY <1>1 DEF vars, Points, Reached, DoneRows, DoneTags, Requested
  <2> QED BY <2>1 DEF NothingAdded
<1>2. ASSUME NEW m \in Msg, Insert(m) PROVE NothingAdded'
  <2>1. /\ load' = load /\ table' = table \cup {m} /\ m \notin table /\ Points' = Points
    BY <1>2 DEF Insert, Points
  <2>2. load'.before # table'
    BY <1>0, <2>1
  <2>3. Requested(table) \subseteq Requested(table)'
    BY <2>1 DEF Requested
  <2>4. load.stage # "none" => \A i \in DOMAIN Points : Points[i] \in Requested(table)
    BY DEF NothingAdded
  <2>5. load'.stage # "none" => \A i \in DOMAIN Points' : Points'[i] \in Requested(table)'
    BY <2>1, <2>3, <2>4
  <2> QED BY <2>2, <2>5 DEF NothingAdded
<1>3. ASSUME NEW S \in SUBSET Tag, NEW r \in Ranges, NEW t \in Tag, ClickLoad(S, r, t)
      PROVE  NothingAdded'
  <2>1. load'.stage = "rows" /\ DoneTags' = {} /\ Points' = <<>> /\ Reached' = 0
    BY <1>3, ClickMoves DEF DoneTags
  <2>2. Cardinality(DoneRows') = 0
    <3>1. DoneRows' = {}
      BY <2>1 DEF DoneRows, RowsOf
    <3> QED BY <3>1, FS_EmptySet
  <2>3. Len(<<>>) = 0 /\ DOMAIN <<>> = {}
    OBVIOUS
  <2> QED BY <2>1, <2>2, <2>3 DEF NothingAdded
<1>4. CASE SelectRows
  <2> DEFINE M == Selected(table, load.tag, load.range)
  <2>1. PICK all \in Descending(M) :
           /\ load'.items = Page(all, Reached) /\ Page(all, Reached) \in Seq(M)
           /\ Points' = Points \o Page(all, Reached)
           /\ Reached' = Reached + Len(Page(all, Reached))
    BY <1>4, SelectMoves
  <2>2. /\ load.stage = "rows" /\ load'.stage = "count" /\ SameWork /\ table' = table
    BY <1>4, SelectMoves
  <2>3. Reached <= Cardinality(M) /\ load.tag \in load.wanted
    BY <2>2 DEF PageFits
  <2>4. M \in SUBSET Msg /\ Cardinality(M) \in Nat
    BY <1>0, SelectedFacts
  <2>5. all \in [1..Cardinality(M) -> M]
    BY DEF Descending
  <2>6. M \subseteq Requested(table)
    BY <2>3 DEF Selected, Requested
  <2>7. /\ DoneRows' = DoneRows /\ Requested(table)' = Requested(table)
        /\ load'.before = load.before
        /\ Selected(table, load.tag, load.range)' = M
    BY <2>2 DEF SameWork, DoneRows, DoneTags, Requested
  <2>8. /\ \A i \in DOMAIN Points : Points[i] \in Requested(table)
        /\ load.before = table => Len(Points) = Cardinality(DoneRows) + Reached
    BY <2>2 DEF NothingAdded
  <2> HIDE DEF M
  <2>9. Points' \in Seq(Requested(table))
    <3>1. Points \in Seq(Requested(table))
      BY <1>0, <2>8
    <3>2. Page(all, Reached) \in Seq(Requested(table))
      BY <2>1, <2>6
    <3> QED BY <2>1, <3>1, <3>2
  <2>10. \A i \in DOMAIN Points' : Points'[i] \in Requested(table)
    BY <2>9
  <2>11. Len(Points') = Len(Points) + Len(Page(all, Reached))
    <3>1. Page(all, Reached) \in Seq(Msg)
      BY <2>1, <2>4
    <3> QED BY <1>0, <2>1, <3>1
  <2>12. load.before = table => Len(Points') = Cardinality(DoneRows) + Reached'
    <3>1. Len(Page(all, Reached)) \in Nat
      BY <2>1
    <3>2. Cardinality(DoneRows) \in Nat
      <4>1. DoneRows \in SUBSET table
        BY DEF DoneRows, RowsOf
      <4> QED BY <1>0, <4>1, FS_Subset, FS_CardinalityType
    <3> QED BY <1>0, <2>1, <2>8, <2>11, <3>1, <3>2
  <2>13. IsShort(load'.items) => Reached' = Cardinality(M)
    <3>1. IsShort(load'.items) => Len(Page(all, Reached)) < PageSize
      BY <2>1 DEF IsShort
    <3>2. Len(Page(all, Reached)) < PageSize =>
             Reached + Len(Page(all, Reached)) = Cardinality(M)
      BY <1>0, <2>3, <2>4, <2>5, PageFacts
    <3> QED BY <2>1, <3>1, <3>2
  <2> QED BY <2>2, <2>7, <2>10, <2>12, <2>13 DEF NothingAdded
<1>5. CASE CountRows
  <2>1. /\ load.stage = "count" /\ load'.stage = "reply" /\ SameWork /\ table' = table
        /\ load'.items = load.items /\ Points' = Points /\ Reached' = Reached
        /\ load'.total = Cardinality(Selected(table, load.tag, load.range))
    BY <1>5, CountMoves
  <2>2. /\ DoneRows' = DoneRows /\ Requested(table)' = Requested(table)
        /\ load'.before = load.before /\ load'.tag = load.tag /\ load'.range = load.range
    BY <2>1 DEF SameWork, DoneRows, DoneTags, Requested
  <2> QED BY <2>1, <2>2 DEF NothingAdded
<1>6. CASE NextPage
  <2>1. /\ load.stage = "reply" /\ load'.stage = "rows" /\ SameWork /\ table' = table
        /\ Points' = Points /\ Reached' = Reached
    BY <1>6, NextPageMoves
  <2>2. /\ DoneRows' = DoneRows /\ Requested(table)' = Requested(table)
        /\ load'.before = load.before
    BY <2>1 DEF SameWork, DoneRows, DoneTags, Requested
  <2> QED BY <2>1, <2>2 DEF NothingAdded
<1>7. ASSUME NEW t \in Tag, NextTag(t) PROVE NothingAdded'
  <2>1. /\ load.stage = "reply" /\ load'.stage = "rows" /\ Points' = Points /\ table' = table
        /\ load'.before = load.before /\ load'.range = load.range /\ Reached' = 0
        /\ IsShort(load.items) \/ Reached >= load.total
        /\ load'.tag = t /\ load'.todo = load.todo \ {t} /\ load'.wanted = load.wanted
    BY <1>7, NextTagMoves
  <2>2. Requested(table)' = Requested(table)
    BY <2>1 DEF Requested
  <2>3. load.tag \in load.wanted \ load.todo
    BY <2>1 DEF PageFits
  <2>4. DoneTags' = DoneTags \cup {load.tag} /\ load.tag \notin DoneTags
    BY <1>7, <2>1, <2>3, NextTagMoves DEF DoneTags
  <2> DEFINE M == Selected(table, load.tag, load.range)
  <2>5. Cardinality(DoneRows) \in Nat
        /\ Cardinality(DoneRows') = Cardinality(DoneRows) + Cardinality(M)
    <3>1. DoneRows' = RowsOf(table, DoneTags \cup {load.tag}, load.range)
      BY <2>1, <2>4 DEF DoneRows
    <3>2. Cardinality(RowsOf(table, DoneTags, load.range)) \in Nat
          /\ Cardinality(RowsOf(table, DoneTags \cup {load.tag}, load.range))
                = Cardinality(RowsOf(table, DoneTags, load.range)) + Cardinality(M)
      BY <1>0, <2>4, DoneRowsAdd
    <3> QED BY <3>1, <3>2 DEF DoneRows
  <2>6. load.before = table => Reached = Cardinality(M)
    <3>1. Cardinality(M) \in Nat /\ Reached <= Cardinality(M)
      BY <1>0, <2>1, SelectedFacts DEF PageFits
    <3>2. /\ load.before = table => load.total = Cardinality(M)
          /\ load.before = table /\ IsShort(load.items) => Reached = Cardinality(M)
      BY <2>1 DEF NothingAdded
    <3> HIDE DEF M
    <3> QED BY <1>0, <2>1, <3>1, <3>2
  <2>7. /\ \A i \in DOMAIN Points : Points[i] \in Requested(table)
        /\ load.before = table => Len(Points) = Cardinality(DoneRows) + Reached
    BY <2>1 DEF NothingAdded
  <2>8. load.before = table => Len(Points) = Cardinality(DoneRows') + 0
    <3>1. Cardinality(M) \in Nat
      BY <1>0, SelectedFacts
    <3> HIDE DEF M
    <3> QED BY <2>5, <2>6, <2>7, <3>1
  <2> QED BY <2>1, <2>2, <2>7, <2>8 DEF NothingAdded
<1>8. CASE Deliver \/ LoadFails
  <2>1. load'.stage = "none"
    BY <1>8, NoLoadType DEF Deliver, LoadFails, Ended
  <2> QED BY <2>1 DEF NothingAdded
<1> QED BY <1>1, <1>2, <1>3, <1>4, <1>5, <1>6, <1>7, <1>8 DEF Next, Step

------------------------------------------------------------------------------
(* The theorems.                                                             *)

(* All parts hold at the start, where nothing is loaded.                     *)
LEMMA InvInit == ASSUME Init PROVE IInv
<1>1. table = {} /\ load = NoLoad /\ loading = FALSE
  BY DEF Init
<1>2. TypeOK
  BY <1>1, NoLoadType DEF TypeOK, LoadType
<1>3. PageFits
  BY <1>1, NoLoadType, FS_EmptySet DEF PageFits
<1>4. NothingSkipped /\ EndIsComplete /\ NothingAdded
  BY <1>1, NoLoadType DEF NothingSkipped, EndIsComplete, NothingAdded
<1> QED BY <1>2, <1>3, <1>4 DEF IInv

(* The invariant of a load.                                                  *)
LEMMA InvTheorem == Spec => []IInv
<1>1. Init => IInv
  BY InvInit
<1>2. ASSUME IInv, [Next]_vars PROVE IInv'
  <2>1. TypeOK /\ PageFits /\ NothingSkipped /\ EndIsComplete /\ NothingAdded
    BY <1>2 DEF IInv
  <2>2. TypeOK' /\ PageFits'
    BY <1>2, <2>1, TypeStep, FitsStep
  <2>3. NothingSkipped'
    BY <1>2, <2>1, <2>2, SkippedStep
  <2>4. EndIsComplete' /\ NothingAdded'
    BY <1>2, <2>1, <2>2, <2>3, EndStep, AddedStep
  <2> QED BY <2>2, <2>3, <2>4 DEF IInv
<1> QED BY <1>1, <1>2, PTL DEF Spec

(* Types: no request asks for more than a page or from a negative offset.    *)
THEOREM HistoryTypeCorrect == Spec => []TypeOK
<1>1. IInv => TypeOK
  BY DEF IInv
<1> QED BY <1>1, InvTheorem, PTL

(* What handleLoad gives to the player is complete: for every tag and        *)
(* timestamp as many points as rows matched when Load was clicked, however   *)
(* many rows are inserted meanwhile and however ties are ordered.            *)
THEOREM CompleteTheorem == Spec => LoadIsComplete
<1>1. ASSUME IInv, Deliver PROVE IsComplete
  <2>1. TypeOK /\ EndIsComplete
    BY <1>1 DEF IInv
  <2>2. load.stage = "reply" /\ load.todo = {} /\ ~MorePages
    BY <1>1 DEF Deliver
  <2>3. IsShort(load.items) \/ Reached >= load.total
    BY <2>1, <2>2, PageMoves, Fields DEF MorePages
  <2>4. \A t \in load.wanted : HasAll(t)
    BY <2>1, <2>2, <2>3 DEF EndIsComplete, DoneTags
  <2>5. WithPage.allPoints = Points
    BY <2>1, PageMoves
  <2>6. SUFFICES ASSUME NEW m \in Requested(load.before)
                 PROVE  Cardinality({n \in Requested(load.before) : Alike(m, n)})
                           <= Cardinality({i \in DOMAIN Points : Alike(m, Points[i])})
    BY <2>5 DEF IsComplete
  <2>7. m \in Msg /\ TagOf[m] \in load.wanted
    BY <2>1, Fields DEF Requested
  <2>8. Cardinality(RowsAt(load.before, load.range, m)) <= Count(Points, m)
    BY <2>4, <2>7 DEF HasAll
  <2>9. {n \in Requested(load.before) : Alike(m, n)} = RowsAt(load.before, load.range, m)
    BY <2>7 DEF Requested, RowsAt, AtTime, Selected, Alike
  <2> QED BY <2>8, <2>9 DEF Count, Likes
<1>2. IInv => (Deliver => IsComplete)
  BY <1>1
<1> QED BY <1>2, InvTheorem, PTL DEF LoadIsComplete

(* It holds rows of the request only, and each of them once when nothing was *)
(* inserted meanwhile.                                                       *)
THEOREM ExactTheorem == Spec => LoadIsExact
<1>1. ASSUME IInv, Deliver PROVE IsExact
  <2>1. TypeOK /\ PageFits /\ NothingAdded
    BY <1>1 DEF IInv
  <2>2. load.stage = "reply" /\ load.todo = {} /\ ~MorePages
    BY <1>1 DEF Deliver
  <2>3. IsShort(load.items) \/ Reached >= load.total
    BY <2>1, <2>2, PageMoves, Fields DEF MorePages
  <2>4. WithPage.allPoints = Points
    BY <2>1, PageMoves
  <2>5. \A i \in DOMAIN Points : Points[i] \in Requested(table)
    BY <2>1, <2>2 DEF NothingAdded
  <2>6. ASSUME load.before = table PROVE Len(Points) = Cardinality(Requested(table))
    <3> DEFINE M == Selected(table, load.tag, load.range)
    <3>1. /\ table \in SUBSET Msg /\ IsFiniteSet(table) /\ Reached \in Nat
          /\ Reached <= Cardinality(M) /\ load.tag \in load.wanted
      BY <2>1, <2>2, Fields DEF PageFits
    <3>2. Cardinality(M) \in Nat
      BY <3>1, SelectedFacts
    <3>3. /\ Len(Points) = Cardinality(DoneRows) + Reached
          /\ IsShort(load.items) => Reached = Cardinality(M)
          /\ load.total = Cardinality(M)
      BY <2>1, <2>2, <2>6 DEF NothingAdded
    <3>4. load.wanted = DoneTags \cup {load.tag} /\ load.tag \notin DoneTags
      BY <2>2, <3>1 DEF DoneTags
    <3>5. Cardinality(DoneRows) \in Nat
          /\ Cardinality(Requested(table)) = Cardinality(DoneRows) + Cardinality(M)
      BY <3>1, <3>4, DoneRowsAdd DEF DoneRows, Requested, RowsOf
    <3> HIDE DEF M
    <3>6. Reached = Cardinality(M)
      BY <2>3, <3>1, <3>2, <3>3
    <3> QED BY <3>3, <3>5, <3>6
  <2> QED BY <2>4, <2>5, <2>6 DEF IsExact
<1>2. IInv => (Deliver => IsExact)
  BY <1>1
<1> QED BY <1>2, InvTheorem, PTL DEF LoadIsExact

(* The rows of the request that is running, in the table as it is now.       *)
RowsNow == Cardinality(Selected(table, load.tag, load.range))

(* A total that was counted never exceeds the rows there are, and the offset *)
(* of a further page stays below them.                                       *)
PageIsDue ==
    /\ load.stage = "reply" => load.total <= RowsNow
    /\ load.stage = "rows" /\ load.offset > 0 => load.offset < RowsNow

(* Inserts only add to the rows that a page was asked for.                   *)
LEMMA DueStep ==
    ASSUME TypeOK, PageFits, PageIsDue, [Next]_vars
    PROVE  PageIsDue'
<1>0. /\ table \in SUBSET Msg /\ IsFiniteSet(table) /\ RowsNow \in Nat
      /\ load.total \in Nat /\ load.offset \in Nat /\ Reached \in Nat
  BY Fields, SelectedFacts DEF PageFits, RowsNow
<1>1. CASE UNCHANGED vars
  BY <1>1 DEF vars, PageIsDue, RowsNow
<1>2. ASSUME NEW m \in Msg, Insert(m) PROVE PageIsDue'
  <2>1. load' = load /\ table' = table \cup {m}
    BY <1>2 DEF Insert
  <2>2. IsFiniteSet(table \cup {m}) /\ table \cup {m} \in SUBSET Msg
    BY <1>0, FS_AddElement
  <2>3. RowsNow' \in Nat /\ RowsNow <= RowsNow'
    BY <1>0, <2>1, <2>2, SelectedFacts, RowsGrow DEF RowsNow
  <2> QED BY <1>0, <2>1, <2>3 DEF PageIsDue
<1>3. ASSUME NEW S \in SUBSET Tag, NEW r \in Ranges, NEW t \in Tag, ClickLoad(S, r, t)
      PROVE  PageIsDue'
  <2>1. load'.stage = "rows" /\ load'.offset = 0
    BY <1>3, ClickMoves
  <2> QED BY <2>1 DEF PageIsDue
<1>4. CASE SelectRows
  BY <1>4, SelectMoves DEF PageIsDue
<1>5. CASE CountRows
  <2>1. load'.stage = "reply" /\ SameWork /\ table' = table /\ load'.total = RowsNow
    BY <1>5, CountMoves DEF RowsNow
  <2>2. RowsNow' = RowsNow
    BY <2>1 DEF RowsNow, SameWork
  <2> QED BY <1>0, <2>1, <2>2 DEF PageIsDue
<1>6. CASE NextPage
  <2>1. /\ load.stage = "reply" /\ load'.stage = "rows" /\ SameWork /\ table' = table
        /\ load'.offset = Reached
    BY <1>6, NextPageMoves
  <2>2. Reached < load.total
    BY <1>6, PageMoves DEF NextPage, MorePages
  <2>3. RowsNow' = RowsNow
    BY <2>1 DEF RowsNow, SameWork
  <2> QED BY <1>0, <2>1, <2>2, <2>3 DEF PageIsDue
<1>7. ASSUME NEW t \in Tag, NextTag(t) PROVE PageIsDue'
  BY <1>7, NextTagMoves DEF PageIsDue
<1>8. CASE Deliver \/ LoadFails
  <2>1. load'.stage = "none"
    BY <1>8, NoLoadType DEF Deliver, LoadFails, Ended
  <2> QED BY <2>1 DEF PageIsDue
<1> QED BY <1>1, <1>2, <1>3, <1>4, <1>5, <1>6, <1>7, <1>8 DEF Next, Step

(* A request after the first of a tag always has a row left to read, in a    *)
(* table of any size that grows between all the statements: the total that   *)
(* lets the loop go on was counted of rows that do not go away.              *)
THEOREM PagesDueTheorem == Spec => []PagesAreDue
<1>1. Init => PageIsDue
  BY NoLoadType DEF Init, PageIsDue
<1>2. IInv /\ PageIsDue /\ [Next]_vars => PageIsDue'
  BY DueStep DEF IInv
<1>3. PageIsDue => PagesAreDue
  <2>1. Matching(table) = Selected(table, load.tag, load.range)
    BY DEF Matching, Selected
  <2> QED BY <2>1 DEF PageIsDue, PagesAreDue, RowsNow
<1> QED BY <1>1, <1>2, <1>3, InvTheorem, PTL DEF Spec
==============================================================================
