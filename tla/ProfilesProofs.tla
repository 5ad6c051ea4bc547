--------------------------- MODULE ProfilesProofs ---------------------------
(***************************************************************************)
(* What holds of Profiles for any links, subscriptions, threads, requests  *)
(* and faults: the core follows the state, fixed routes have their server, *)
(* results name their server, and the list implements ProfileStore.        *)
(***************************************************************************)
EXTENDS Profiles, SequenceTheorems, FiniteSetTheorems, TLAPS

-----------------------------------------------------------------------------
(* Lists in which every link occurs once.                                  *)

Distinct(list) == \A i, j \in 1..Len(list) : list[i].raw = list[j].raw => i = j
Lists == {list \in Seq(Profiles) : Distinct(list)}

(* What is in a list.                                                      *)
LEMMA ListElements ==
  ASSUME NEW list \in Seq(Profiles)
  PROVE  /\ DOMAIN list = 1..Len(list) /\ Len(list) \in Nat
         /\ \A i \in 1..Len(list) :
              list[i] \in Profiles /\ list[i].raw \in Links /\ list[i].group \in Groups
         /\ RawsOf(list) = {list[i].raw : i \in 1..Len(list)} /\ RawsOf(list) \subseteq Links
         /\ ToSet(list) = {list[i] : i \in 1..Len(list)} /\ ToSet(list) \subseteq Profiles
<1>1. DOMAIN list = 1..Len(list) /\ Len(list) \in Nat /\ \A i \in 1..Len(list) : list[i] \in Profiles
  BY LenProperties, ElementOfSeq
<1> QED
  BY <1>1 DEF RawsOf, ToSet, Profiles

(* The numbers up to n are n.                                              *)
LEMMA UpTo ==
  ASSUME NEW n \in Nat
  PROVE  IsFiniteSet(1..n) /\ Cardinality(1..n) = n
<1>1. 1 \in Int /\ n \in Int /\ (1 > n => n = 0) /\ n - 1 + 1 = n
  OBVIOUS
<1>2. IsFiniteSet(1..n) /\ Cardinality(1..n) = (IF 1 > n THEN 0 ELSE n - 1 + 1)
  BY <1>1, FS_Interval, Zenon
<1> QED
  BY <1>1, <1>2, Zenon

(* A list has as many links as positions exactly if it is distinct.        *)
LEMMA DistinctCounts ==
  ASSUME NEW list \in Seq(Profiles)
  PROVE  /\ IsFiniteSet(RawsOf(list))
         /\ Distinct(list) <=> Cardinality(RawsOf(list)) = Len(list)
<1> DEFINE n == Len(list)
           R == RawsOf(list)
           raw == [i \in 1..n |-> list[i].raw]
<1>1. n \in Nat /\ R = {list[i].raw : i \in 1..n}
  BY ListElements
<1>2. IsFiniteSet(1..n) /\ Cardinality(1..n) = n
  BY <1>1, UpTo
<1>3. Distinct(list) <=> raw \in Injection(1..n, R)
  BY <1>1 DEF Distinct, Injection, IsInjective
<1>4. raw \in Surjection(1..n, R)
  BY <1>1 DEF Surjection
<1> HIDE DEF n, R, raw
<1>5. IsFiniteSet(R) /\ (Cardinality(R) = Cardinality(1..n) <=> raw \in Injection(1..n, R))
  BY <1>2, <1>4, FS_Surjection
<1> QED
  BY <1>2, <1>3, <1>5 DEF n, R

(* It is no longer than there are links.                                   *)
LEMMA ListBound ==
  ASSUME NEW list \in Lists
  PROVE  Len(list) <= Cardinality(Links)
<1>1. list \in Seq(Profiles) /\ Distinct(list)
  BY DEF Lists
<1>2. RawsOf(list) \subseteq Links
  BY <1>1, ListElements
<1>3. Cardinality(RawsOf(list)) = Len(list)
  BY <1>1, DistinctCounts
<1>4. Cardinality(RawsOf(list)) <= Cardinality(Links)
  BY <1>2, FS_Subset, ProfilesAssumption
<1> QED
  BY <1>3, <1>4

(* A link is found where it is, and only then.                             *)
LEMMA PositionFound ==
  ASSUME NEW list \in Seq(Profiles), NEW raw
  PROVE  /\ PositionOf(list, raw) \in 0..Len(list)
         /\ PositionOf(list, raw) # 0 <=> raw \in RawsOf(list)
         /\ PositionOf(list, raw) # 0 => list[PositionOf(list, raw)].raw = raw
<1>1. DOMAIN list = 1..Len(list) /\ Len(list) \in Nat
  BY ListElements
<1>2. CASE raw \in RawsOf(list)
  <2> DEFINE i == CHOOSE k \in DOMAIN list : list[k].raw = raw
  <2>1. i \in DOMAIN list /\ list[i].raw = raw
    BY <1>2 DEF RawsOf
  <2>2. PositionOf(list, raw) = i
    BY <1>2 DEF PositionOf
  <2> HIDE DEF i
  <2> QED
    BY <1>1, <1>2, <2>1, <2>2
<1>3. CASE raw \notin RawsOf(list)
  BY <1>1, <1>3 DEF PositionOf
<1> QED
  BY <1>2, <1>3

-----------------------------------------------------------------------------
(* Kept: a part of a list in its order.                                    *)

(* Each number up to the size of a set of positions is the rank of one     *)
(* of them, and only of one.                                               *)
LEMMA RankOrder ==
  ASSUME NEW n \in Nat, NEW I \in SUBSET (1..n), NEW i \in I, NEW j \in I, i < j
  PROVE  Rank(I, i) < Rank(I, j)
<1> DEFINE A == {k \in I : k <= i}
           B == {k \in I : k <= j}
<1>1. IsFiniteSet(I)
  BY UpTo, FS_Subset
<1>2. A \subseteq B /\ B \subseteq I /\ j \in B /\ j \notin A
  <2>1. i \in Nat /\ j \in Nat /\ \A k \in I : k \in Nat
    OBVIOUS
  <2>2. ASSUME NEW k \in A PROVE k \in B
    <3>1. k \in I /\ k <= i /\ k \in Nat
      BY <2>1
    <3>2. k <= j
      BY <2>1, <3>1
    <3> QED
      BY <3>1, <3>2
  <2>3. j \in B /\ j \notin A
    BY <2>1
  <2> QED
    BY <2>2, <2>3
<1>3. Rank(I, i) = Cardinality(A) /\ Rank(I, j) = Cardinality(B)
  BY DEF Rank
<1> HIDE DEF A, B
<1>4. IsFiniteSet(B)
  BY <1>1, <1>2, FS_Subset
<1>5. /\ IsFiniteSet(A) /\ Cardinality(A) <= Cardinality(B)
      /\ Cardinality(B) = Cardinality(A) => B = A
  BY <1>2, <1>4, FS_Subset
<1>6. Cardinality(A) \in Nat /\ Cardinality(B) \in Nat
  BY <1>4, <1>5, FS_CardinalityType
<1> QED
  BY <1>2, <1>3, <1>5, <1>6

(* The rank of a position is at most their number ...                      *)
LEMMA RankRange ==
  ASSUME NEW n \in Nat, NEW I \in SUBSET (1..n), NEW i \in I
  PROVE  Rank(I, i) \in 1..Cardinality(I) /\ Cardinality(I) \in Nat
<1> DEFINE A == {k \in I : k <= i}
<1>1. IsFiniteSet(I)
  BY UpTo, FS_Subset
<1>2. A \subseteq I /\ i \in A /\ Rank(I, i) = Cardinality(A)
  BY DEF Rank
<1> HIDE DEF A
<1>3. IsFiniteSet(A) /\ Cardinality(A) <= Cardinality(I)
  BY <1>1, <1>2, FS_Subset
<1>4. Cardinality(A) \in Nat /\ Cardinality(I) \in Nat
  BY <1>1, <1>3, FS_CardinalityType
<1>5. Cardinality(A) # 0
  BY <1>2, <1>3, FS_EmptySet
<1> QED
  BY <1>2, <1>3, <1>4, <1>5

(* ... and each such number is the rank of exactly one of them.            *)
LEMMA NthFound ==
  ASSUME NEW n \in Nat, NEW I \in SUBSET (1..n)
  PROVE  /\ Cardinality(I) \in Nat
         /\ \A k \in 1..Cardinality(I) : Nth(I, k) \in I /\ Rank(I, Nth(I, k)) = k
         /\ \A i \in I : Rank(I, i) \in 1..Cardinality(I) /\ Nth(I, Rank(I, i)) = i
<1> DEFINE c == Cardinality(I)
           rank == [i \in I |-> Rank(I, i)]
<1>1. IsFiniteSet(I)
  BY UpTo, FS_Subset
<1>2. c \in Nat
  BY <1>1, FS_CardinalityType
<1>3. \A i \in I : Rank(I, i) \in 1..c
  BY RankRange
<1>4. ASSUME NEW i \in I, NEW j \in I, Rank(I, i) = Rank(I, j)
      PROVE  i = j
  <2>1. Rank(I, i) \in Nat
    BY <1>2, <1>3
  <2>2. i \in Nat /\ j \in Nat
    OBVIOUS
  <2>3. ASSUME i < j PROVE FALSE
    <3>1. Rank(I, i) < Rank(I, j)
      BY <2>3, RankOrder
    <3> QED
      BY <1>4, <2>1, <3>1
  <2>4. ASSUME j < i PROVE FALSE
    <3>1. Rank(I, j) < Rank(I, i)
      BY <2>4, RankOrder
    <3> QED
      BY <1>4, <2>1, <3>1
  <2> QED
    BY <2>2, <2>3, <2>4
<1>5. rank \in Injection(I, 1..c)
  BY <1>3, <1>4 DEF Injection, IsInjective
<1>6. IsFiniteSet(1..c) /\ Cardinality(1..c) = c
  BY <1>2, UpTo
<1> HIDE DEF rank
<1>7. rank \in Surjection(I, 1..c)
  BY <1>5, <1>6, FS_Injection
<1>8. ASSUME NEW k \in 1..c
      PROVE  \E i \in I : Rank(I, i) = k
  BY <1>7 DEF Surjection, rank
<1>9. ASSUME NEW k \in 1..c
      PROVE  Nth(I, k) \in I /\ Rank(I, Nth(I, k)) = k
  BY <1>8, <1>9 DEF Nth
<1>10. ASSUME NEW i \in I
       PROVE  Rank(I, i) \in 1..c /\ Nth(I, Rank(I, i)) = i
  BY <1>3, <1>4, <1>9
<1> QED
  BY <1>2, <1>9, <1>10

(* Kept has the elements of the positions kept, and no others.             *)
LEMMA KeptElements ==
  ASSUME NEW S, NEW s \in Seq(S), NEW I \in SUBSET (1..Len(s))
  PROVE  /\ Kept(s, I) \in Seq(S) /\ Len(Kept(s, I)) = Cardinality(I) /\ Cardinality(I) \in Nat
         /\ \A k \in 1..Cardinality(I) : Kept(s, I)[k] = s[Nth(I, k)]
         /\ \A x : (\E k \in 1..Cardinality(I) : Kept(s, I)[k] = x) <=> (\E i \in I : s[i] = x)
<1> DEFINE c == Cardinality(I)
<1>1. Len(s) \in Nat /\ \A i \in 1..Len(s) : s[i] \in S
  BY LenProperties, ElementOfSeq
<1>2. /\ c \in Nat /\ \A k \in 1..c : Nth(I, k) \in I
      /\ \A i \in I : Rank(I, i) \in 1..c /\ Nth(I, Rank(I, i)) = i
  BY <1>1, NthFound
<1>3. Kept(s, I) = [k \in 1..c |-> s[Nth(I, k)]]
  BY DEF Kept
<1> HIDE DEF c
<1>4. Kept(s, I) \in [1..c -> S]
  BY <1>1, <1>2, <1>3
<1>5. Kept(s, I) \in Seq(S) /\ Len(Kept(s, I)) = c
  BY <1>2, <1>4
<1> QED
  BY <1>2, <1>3, <1>5 DEF c

(* Links that occur once in a list occur once in a part of it.             *)
LEMMA KeptList ==
  ASSUME NEW list \in Lists, NEW I \in SUBSET (1..Len(list))
  PROVE  /\ Kept(list, I) \in Lists
         /\ RawsOf(Kept(list, I)) = {list[i].raw : i \in I}
<1> DEFINE kept == Kept(list, I)
<1>1. list \in Seq(Profiles) /\ Distinct(list) /\ Len(list) \in Nat
  BY ListElements DEF Lists
<1>2. /\ kept \in Seq(Profiles) /\ Len(kept) = Cardinality(I) /\ Cardinality(I) \in Nat
      /\ \A k \in 1..Cardinality(I) : kept[k] = list[Nth(I, k)]
      /\ \A x : (\E k \in 1..Cardinality(I) : kept[k] = x) <=> (\E i \in I : list[i] = x)
  BY <1>1, KeptElements
<1>3. \A k \in 1..Cardinality(I) : Nth(I, k) \in I /\ Rank(I, Nth(I, k)) = k
  BY <1>1, NthFound
<1> HIDE DEF kept
<1>4. ASSUME NEW i \in 1..Len(kept), NEW j \in 1..Len(kept), kept[i].raw = kept[j].raw
      PROVE  i = j
  <2>1. i \in 1..Cardinality(I) /\ j \in 1..Cardinality(I)
    BY <1>2
  <2>2. /\ list[Nth(I, i)].raw = list[Nth(I, j)].raw
        /\ Nth(I, i) \in 1..Len(list) /\ Nth(I, j) \in 1..Len(list)
    BY <1>2, <1>3, <1>4, <2>1
  <2>3. Nth(I, i) = Nth(I, j)
    BY <1>1, <2>2 DEF Distinct
  <2> QED
    BY <1>3, <2>1, <2>3
<1>5. RawsOf(kept) = {kept[k].raw : k \in 1..Cardinality(I)}
  BY <1>2, ListElements
<1>6. \A x : x \in RawsOf(kept) <=> \E i \in I : x = list[i].raw
  <2>1. ASSUME NEW k \in 1..Cardinality(I)
        PROVE  Nth(I, k) \in I /\ kept[k].raw = list[Nth(I, k)].raw
    BY <1>2, <1>3
  <2>2. ASSUME NEW i \in I
        PROVE  \E k \in 1..Cardinality(I) : kept[k].raw = list[i].raw
    BY <1>2
  <2>3. ASSUME NEW x, x \in RawsOf(kept)
        PROVE  \E i \in I : x = list[i].raw
    <3>1. PICK k \in 1..Cardinality(I) : x = kept[k].raw
      BY <1>5, <2>3
    <3> QED
      BY <2>1, <3>1
  <2>4. ASSUME NEW i \in I
        PROVE  list[i].raw \in RawsOf(kept)
    BY <1>5, <2>2
  <2> QED
    BY <2>3, <2>4
<1> QED
  BY <1>2, <1>4, <1>6 DEF Lists, Distinct, kept

-----------------------------------------------------------------------------
(* The edits of a list.                                                    *)

(* Two lists with no link in common make a list of both.                   *)
LEMMA ConcatList ==
  ASSUME NEW s \in Lists, NEW t \in Lists, RawsOf(s) \cap RawsOf(t) = {}
  PROVE  /\ s \o t \in Lists /\ RawsOf(s \o t) = RawsOf(s) \cup RawsOf(t)
         /\ Len(s \o t) = Len(s) + Len(t) /\ \A i \in 1..Len(s) : (s \o t)[i] = s[i]
<1>1. /\ s \in Seq(Profiles) /\ t \in Seq(Profiles) /\ Len(s) \in Nat /\ Len(t) \in Nat
      /\ RawsOf(s) = {s[i].raw : i \in 1..Len(s)} /\ RawsOf(t) = {t[i].raw : i \in 1..Len(t)}
  BY ListElements DEF Lists
<1>2. Distinct(s) /\ Distinct(t)
  BY DEF Lists
<1> DEFINE u == s \o t
<1>3. /\ u \in Seq(Profiles) /\ Len(u) = Len(s) + Len(t)
      /\ \A k \in 1 .. Len(s) + Len(t) : u[k] = IF k <= Len(s) THEN s[k] ELSE t[k - Len(s)]
  BY <1>1, ConcatProperties
<1> HIDE DEF u
<1>4. \A k \in 1..Len(s) : u[k] = s[k]
  BY <1>1, <1>3
<1>5. \A k \in 1..Len(u) : k > Len(s) => k - Len(s) \in 1..Len(t) /\ u[k] = t[k - Len(s)]
  BY <1>1, <1>3
<1>6. ASSUME NEW k \in 1..Len(t)
      PROVE  Len(s) + k \in 1..Len(u) /\ u[Len(s) + k] = t[k]
  <2>1. /\ Len(s) + k \in 1..Len(u) /\ Len(s) + k > Len(s) /\ (Len(s) + k) - Len(s) = k
    BY <1>1, <1>3
  <2> QED
    BY <1>5, <2>1
<1>7. ASSUME NEW i \in 1..Len(u), NEW j \in 1..Len(u), i <= Len(s), j > Len(s)
      PROVE  u[i].raw # u[j].raw
  <2>1. u[i].raw \in RawsOf(s)
    BY <1>1, <1>4, <1>7
  <2>2. u[j].raw \in RawsOf(t)
    BY <1>1, <1>5, <1>7
  <2> QED
    BY <2>1, <2>2
<1>8. ASSUME NEW i \in 1..Len(u), NEW j \in 1..Len(u), u[i].raw = u[j].raw
      PROVE  i = j
  <2>1. CASE i <= Len(s) /\ j <= Len(s)
    <3>1. i \in 1..Len(s) /\ j \in 1..Len(s)
      BY <1>1, <2>1
    <3>2. s[i].raw = s[j].raw
      BY <1>4, <1>8, <3>1
    <3> QED
      BY <1>2, <3>1, <3>2 DEF Distinct
  <2>2. CASE i > Len(s) /\ j > Len(s)
    <3>1. /\ i - Len(s) \in 1..Len(t) /\ j - Len(s) \in 1..Len(t)
          /\ t[i - Len(s)].raw = t[j - Len(s)].raw
      BY <1>5, <1>8, <2>2
    <3>2. i - Len(s) = j - Len(s)
      BY <1>2, <3>1 DEF Distinct
    <3> QED
      BY <1>1, <1>3, <3>2
  <2> QED
    BY <1>1, <1>3, <1>7, <1>8, <2>1, <2>2
<1>9. RawsOf(u) = {u[k].raw : k \in 1..Len(u)}
  BY <1>3, ListElements
<1>10. RawsOf(u) \subseteq RawsOf(s) \cup RawsOf(t)
  <2>1. ASSUME NEW k \in 1..Len(u)
        PROVE  u[k].raw \in RawsOf(s) \cup RawsOf(t)
    <3>1. CASE k <= Len(s)
      BY <1>1, <1>4, <3>1
    <3>2. CASE k > Len(s)
      BY <1>1, <1>5, <3>2
    <3> QED
      BY <1>1, <1>3, <3>1, <3>2
  <2> QED
    BY <1>9, <2>1
<1>11. RawsOf(s) \subseteq RawsOf(u)
  <2>1. ASSUME NEW k \in 1..Len(s)
        PROVE  k \in 1..Len(u) /\ s[k].raw = u[k].raw
    BY <1>1, <1>3, <1>4
  <2> QED
    BY <1>1, <1>9, <2>1
<1>12. RawsOf(t) \subseteq RawsOf(u)
  BY <1>1, <1>6, <1>9
<1> QED
  BY <1>3, <1>4, <1>8, <1>10, <1>11, <1>12 DEF Lists, Distinct, u

(* The first of several positions.                                         *)
LEMMA FirstPosition ==
  ASSUME NEW n \in Nat, NEW I \in SUBSET (1..n), I # {}
  PROVE  \E m \in I : \A k \in I : ~(k < m)
<1>1. PICK i \in I : TRUE
  OBVIOUS
<1>2. Cardinality(I) \in Nat /\ Rank(I, i) \in 1..Cardinality(I)
  BY RankRange
<1>3. 1 \in 1..Cardinality(I)
  BY <1>2
<1> DEFINE m == Nth(I, 1)
<1>4. m \in I /\ Rank(I, m) = 1
  BY <1>3, NthFound
<1> HIDE DEF m
<1>5. ASSUME NEW k \in I, k < m
      PROVE  FALSE
  <2>1. Rank(I, k) < Rank(I, m)
    BY <1>4, <1>5, RankOrder
  <2>2. Rank(I, k) \in 1..Cardinality(I)
    BY RankRange
  <2> QED
    BY <1>2, <1>4, <2>1, <2>2
<1> QED
  BY <1>4, <1>5

(* Every link not in the list is appended, once.                           *)
LEMMA AppendedList ==
  ASSUME NEW list \in Lists, NEW links \in Seq(Links), NEW group \in Groups
  PROVE  LET new == Appended(list, links, group)
         IN  /\ new \in Lists /\ RawsOf(new) = RawsOf(list) \cup ToSet(links)
             /\ Len(new) \in Nat /\ Len(list) <= Len(new)
             /\ \A i \in 1..Len(list) : new[i] = list[i]
<1> DEFINE U == Unknown(list, links)
           fresh == Kept(links, U)
           t == [i \in DOMAIN fresh |-> [raw |-> fresh[i], group |-> group]]
<1>1. /\ DOMAIN links = 1..Len(links) /\ Len(links) \in Nat
      /\ ToSet(links) = {links[i] : i \in 1..Len(links)}
  BY LenProperties DEF ToSet
<1>2. /\ U \subseteq 1..Len(links)
      /\ \A i \in 1..Len(links) : i \in U <=> links[i] \notin RawsOf(list)
                                              /\ \A j \in 1..(i - 1) : links[i] # links[j]
  BY <1>1 DEF Unknown
<1> HIDE DEF U
<1>3. /\ fresh \in Seq(Links) /\ Len(fresh) = Cardinality(U) /\ Cardinality(U) \in Nat
      /\ \A k \in 1..Cardinality(U) : fresh[k] = links[Nth(U, k)]
      /\ \A x : (\E k \in 1..Cardinality(U) : fresh[k] = x) <=> (\E i \in U : links[i] = x)
  BY <1>2, KeptElements
<1>4. \A k \in 1..Cardinality(U) : Nth(U, k) \in U /\ Rank(U, Nth(U, k)) = k
  BY <1>1, <1>2, NthFound
<1> HIDE DEF fresh
<1>5. DOMAIN fresh = 1..Len(fresh) /\ \A k \in 1..Len(fresh) : fresh[k] \in Links
  BY <1>3, LenProperties, ElementOfSeq
<1>6. /\ t \in Seq(Profiles) /\ Len(t) = Len(fresh)
      /\ \A k \in 1..Len(fresh) : t[k].raw = fresh[k]
  <2>1. t \in [1..Len(fresh) -> Profiles]
    BY <1>5 DEF Profiles
  <2> QED
    BY <1>3, <1>5, <2>1
<1> HIDE DEF t
<1>7. ASSUME NEW i \in U, NEW j \in U, links[i] = links[j]
      PROVE  i = j
  <2>1. i \in 1..Len(links) /\ j \in 1..Len(links)
    BY <1>2
  <2>2. ~(j < i)
    <3>1. j < i => j \in 1..(i - 1)
      BY <1>1, <2>1
    <3> QED
      BY <1>2, <1>7, <3>1
  <2>3. ~(i < j)
    <3>1. i < j => i \in 1..(j - 1)
      BY <1>1, <2>1
    <3> QED
      BY <1>2, <1>7, <3>1
  <2> QED
    BY <1>1, <2>1, <2>2, <2>3
<1>8. ASSUME NEW i \in 1..Len(t), NEW j \in 1..Len(t), t[i].raw = t[j].raw
      PROVE  i = j
  <2>1. i \in 1..Cardinality(U) /\ j \in 1..Cardinality(U)
    BY <1>3, <1>6
  <2>2. links[Nth(U, i)] = links[Nth(U, j)]
    BY <1>3, <1>6, <1>8, <2>1
  <2>3. Nth(U, i) = Nth(U, j)
    BY <1>4, <1>7, <2>1, <2>2
  <2> QED
    BY <1>4, <2>1, <2>3
<1>9. t \in Lists
  BY <1>6, <1>8 DEF Lists, Distinct
<1>10. \A x : x \in RawsOf(t) <=> \E i \in U : links[i] = x
  <2>1. RawsOf(t) = {t[k].raw : k \in 1..Len(t)}
    BY <1>6, ListElements
  <2>2. \A x : x \in RawsOf(t) <=> \E k \in 1..Cardinality(U) : fresh[k] = x
    BY <1>3, <1>6, <2>1
  <2> QED
    BY <1>3, <2>2
<1>11. RawsOf(list) \cap RawsOf(t) = {}
  BY <1>2, <1>10
<1>12. /\ list \o t \in Lists /\ RawsOf(list \o t) = RawsOf(list) \cup RawsOf(t)
       /\ Len(list \o t) = Len(list) + Len(t) /\ \A i \in 1..Len(list) : (list \o t)[i] = list[i]
  BY <1>9, <1>11, ConcatList
<1>13. RawsOf(t) \subseteq ToSet(links)
  BY <1>1, <1>2, <1>10
<1>14. ASSUME NEW x \in ToSet(links), x \notin RawsOf(list)
       PROVE  x \in RawsOf(t)
  <2> DEFINE I == {i \in 1..Len(links) : links[i] = x}
  <2>1. I # {} /\ I \in SUBSET (1..Len(links))
    BY <1>1
  <2>2. \E m \in I : \A k \in I : ~(k < m)
    <3> HIDE DEF I
    <3> QED
      BY <1>1, <2>1, FirstPosition
  <2>3. PICK m \in I : \A k \in I : ~(k < m)
    BY <2>2
  <2>4. m \in 1..Len(links) /\ links[m] = x
    OBVIOUS
  <2>5. \A j \in 1..(m - 1) : links[m] # links[j]
    <3> SUFFICES ASSUME NEW j \in 1..(m - 1), links[j] = x PROVE FALSE
      BY <2>4
    <3>1. j \in 1..Len(links) /\ j < m
      BY <1>1, <2>4
    <3> QED
      BY <2>3, <3>1
  <2>6. m \in U
    BY <1>2, <1>14, <2>4, <2>5
  <2> QED
    BY <1>10, <2>4, <2>6
<1>15. Appended(list, links, group) = list \o t
  BY DEF Appended, AppendedAll, fresh, t, U
<1>16. Len(list) \in Nat /\ Len(t) \in Nat
  BY <1>9, ListElements DEF Lists
<1> QED
  BY <1>12, <1>13, <1>14, <1>15, <1>16

(* Adopting profiles into a subscription changes no link.                  *)
LEMMA AdoptedList ==
  ASSUME NEW list \in Lists, NEW links, NEW u \in Groups
  PROVE  LET new == Adopted(list, links, u)
         IN  /\ new \in Lists /\ RawsOf(new) = RawsOf(list) /\ Len(new) = Len(list)
             /\ \A i \in 1..Len(list) : new[i].raw = list[i].raw
<1> DEFINE new == Adopted(list, links, u)
<1>1. /\ list \in Seq(Profiles) /\ DOMAIN list = 1..Len(list) /\ Len(list) \in Nat
      /\ \A i \in 1..Len(list) : list[i] \in Profiles
      /\ RawsOf(list) = {list[i].raw : i \in 1..Len(list)}
  BY ListElements DEF Lists
<1>2. DOMAIN new = 1..Len(list) /\ \A i \in 1..Len(list) : new[i] \in Profiles /\ new[i].raw = list[i].raw
  BY <1>1 DEF Adopted, Profiles
<1>3. new = [i \in 1..Len(list) |-> new[i]]
  BY <1>1 DEF Adopted
<1> HIDE DEF new
<1>4. new \in Seq(Profiles) /\ Len(new) = Len(list)
  <2>1. new \in [1..Len(list) -> Profiles]
    BY <1>2, <1>3
  <2> QED
    BY <1>1, <2>1
<1>5. RawsOf(new) = {new[i].raw : i \in 1..Len(new)}
  BY <1>4, ListElements
<1>6. Distinct(list)
  BY DEF Lists
<1> QED
  BY <1>1, <1>2, <1>4, <1>5, <1>6 DEF Lists, Distinct, new

(* The order by results within the groups' places loses no profile.        *)
LEMMA PromotedList ==
  ASSUME NEW list \in Lists, NEW good
  PROVE  /\ Promoted(list, good) \in Lists /\ Len(Promoted(list, good)) = Len(list)
         /\ ToSet(Promoted(list, good)) = ToSet(list)
         /\ RawsOf(Promoted(list, good)) = RawsOf(list)
<1> DEFINE n == Len(list)
           new == Promoted(list, good)
           mates(i) == Mates(list, i)
           first(i) == {j \in mates(i) : ServerOf[list[j].raw] \in good}
           from == [i \in 1..n |-> PromotedFrom(list, good, i)]
<1>1. /\ list \in Seq(Profiles) /\ Distinct(list) /\ DOMAIN list = 1..n /\ n \in Nat
      /\ \A i \in 1..n : list[i] \in Profiles
      /\ ToSet(list) = {list[i] : i \in 1..n} /\ RawsOf(list) = {list[i].raw : i \in 1..n}
  BY ListElements DEF Lists
<1>2. ASSUME NEW i \in 1..n
      PROVE  /\ i \in mates(i) /\ mates(i) \in SUBSET (1..n)
             /\ \A j \in mates(i) : mates(j) = mates(i)
  BY <1>1 DEF Mates
<1>3. \A i \in 1..n : first(i) \in SUBSET mates(i)
  OBVIOUS
<1>4. ASSUME NEW i \in 1..n, NEW j \in 1..n, mates(i) = mates(j)
      PROVE  first(i) = first(j)
  BY <1>4
<1>5. ASSUME NEW i \in 1..n
      PROVE  PromotedFrom(list, good, i) =
               IF Rank(mates(i), i) <= Cardinality(first(i)) THEN Nth(first(i), Rank(mates(i), i))
               ELSE Nth(mates(i) \ first(i), Rank(mates(i), i) - Cardinality(first(i)))
  BY DEF PromotedFrom
<1> HIDE DEF mates, first
<1>6. ASSUME NEW i \in 1..n
      PROVE  /\ Cardinality(first(i)) \in Nat /\ Rank(mates(i), i) \in Nat
             /\ Rank(mates(i), i) >= 1
             /\ Rank(mates(i), i) > Cardinality(first(i)) =>
                  /\ Rank(mates(i), i) - Cardinality(first(i)) \in 1..Cardinality(mates(i) \ first(i))
             /\ \A j \in mates(i) : Rank(mates(i), i) = Rank(mates(i), j) => i = j
  <2> DEFINE I == mates(i)
             F == first(i)
             B == I \ F
             r == Rank(I, i)
  <2>1. I \in SUBSET (1..n) /\ F \in SUBSET I /\ i \in I
    BY <1>2, <1>3
  <2>2. /\ F \in SUBSET (1..n) /\ B \in SUBSET (1..n) /\ IsFiniteSet(I)
    BY <1>1, <2>1, UpTo, FS_Subset
  <2>3. r \in 1..Cardinality(I) /\ Cardinality(I) \in Nat
    BY <1>1, <2>1, RankRange
  <2>4. Cardinality(F) \in Nat /\ Cardinality(B) \in Nat /\ IsFiniteSet(F) /\ IsFiniteSet(B)
    BY <1>1, <2>2, NthFound, UpTo, FS_Subset
  <2>5. Cardinality(I) = Cardinality(F) + Cardinality(B)
    <3>1. I = F \cup B /\ F \cap B = {}
      BY <2>1
    <3> HIDE DEF B
    <3>2. Cardinality(F \cap B) = 0
      BY <3>1, FS_EmptySet
    <3>3. Cardinality(F \cup B) = Cardinality(F) + Cardinality(B) - Cardinality(F \cap B)
      BY <2>4, FS_Union
    <3> QED
      BY <2>4, <3>1, <3>2, <3>3
  <2>6. \A j \in I : Rank(I, i) = Rank(I, j) => i = j
    <3> HIDE DEF I, r
    <3>1. \A j \in I : Nth(I, Rank(I, j)) = j
      BY <1>1, <2>1, NthFound
    <3> QED
      BY <2>1, <3>1
  <2> HIDE DEF I, F, B, r
  <2>7. Cardinality(F) \in Nat /\ r \in Nat /\ r >= 1
        /\ (r > Cardinality(F) => r - Cardinality(F) \in 1..Cardinality(B))
    BY <2>3, <2>4, <2>5
  <2> QED
    BY <2>6, <2>7 DEF I, F, B, r
<1>7. ASSUME NEW i \in 1..n
      PROVE  /\ from[i] \in mates(i)
             /\ from[i] \in first(i) =>
                  /\ Rank(mates(i), i) <= Cardinality(first(i))
                  /\ Rank(first(i), from[i]) = Rank(mates(i), i)
             /\ from[i] \notin first(i) =>
                  Rank(mates(i) \ first(i), from[i]) = Rank(mates(i), i) - Cardinality(first(i))
  <2> DEFINE r == Rank(mates(i), i)
             c == Cardinality(first(i))
  <2>1. /\ first(i) \in SUBSET (1..n) /\ mates(i) \ first(i) \in SUBSET (1..n)
        /\ first(i) \in SUBSET mates(i)
    BY <1>2, <1>3
  <2>2. c \in Nat /\ r \in Nat /\ r >= 1
        /\ (r > c => r - c \in 1..Cardinality(mates(i) \ first(i)))
    BY <1>6
  <2>3. from[i] = IF r <= c THEN Nth(first(i), r) ELSE Nth(mates(i) \ first(i), r - c)
    BY <1>5
  <2>4. r <= c => Nth(first(i), r) \in first(i) /\ Rank(first(i), Nth(first(i), r)) = r
    <3>1. r <= c => r \in 1..c
      BY <2>2
    <3> QED
      BY <1>1, <2>1, <3>1, NthFound
  <2>5. r > c => /\ Nth(mates(i) \ first(i), r - c) \in mates(i) \ first(i)
                 /\ Rank(mates(i) \ first(i), Nth(mates(i) \ first(i), r - c)) = r - c
    BY <1>1, <2>1, <2>2, NthFound
  <2> HIDE DEF from, r, c
  <2>6. CASE r <= c
    <3>1. from[i] \in first(i) /\ Rank(first(i), from[i]) = r
      BY <2>3, <2>4, <2>6
    <3> QED
      BY <2>1, <2>6, <3>1 DEF r, c
  <2>7. CASE r > c
    <3>1. from[i] \in mates(i) \ first(i) /\ Rank(mates(i) \ first(i), from[i]) = r - c
      BY <2>2, <2>3, <2>5, <2>7
    <3> QED
      BY <3>1 DEF r, c
  <2> QED
    BY <2>2, <2>6, <2>7
<1>8. new = [i \in 1..n |-> list[from[i]]]
  BY <1>1 DEF Promoted
<1> HIDE DEF from
<1>9. ASSUME NEW i \in 1..n, NEW j \in 1..n, from[i] = from[j]
      PROVE  i = j
  <2>1. mates(i) = mates(j) /\ i \in mates(i) /\ j \in mates(i)
    BY <1>2, <1>7, <1>9
  <2>2. first(i) = first(j)
    BY <1>4, <2>1 DEF first
  <2>3. Rank(mates(i), i) = Rank(mates(i), j)
    <3>1. CASE from[i] \in first(i)
      BY <1>7, <1>9, <2>1, <2>2, <3>1
    <3>2. CASE from[i] \notin first(i)
      <4>1. Rank(mates(i), i) - Cardinality(first(i)) = Rank(mates(i), j) - Cardinality(first(i))
        BY <1>7, <1>9, <2>1, <2>2, <3>2
      <4> QED
        <5>1. Rank(mates(j), j) \in Nat /\ Rank(mates(i), i) \in Nat /\ Cardinality(first(i)) \in Nat
          BY <1>6
        <5> QED
          BY <2>1, <4>1, <5>1
    <3> QED
      BY <3>1, <3>2
  <2> QED
    BY <1>6, <2>1, <2>3
<1>10. from \in [1..n -> 1..n]
  <2>1. \A i \in 1..n : from[i] \in 1..n
    BY <1>2, <1>7
  <2> QED
    BY <2>1 DEF from
<1>11. IsFiniteSet(1..n) /\ Cardinality(1..n) = n
  BY <1>1, UpTo
<1>12. from \in Injection(1..n, 1..n)
  BY <1>9, <1>10 DEF Injection, IsInjective
<1>13. from \in Surjection(1..n, 1..n)
  BY <1>11, <1>12, FS_Injection
<1>14. \A k \in 1..n : \E i \in 1..n : from[i] = k
  BY <1>13 DEF Surjection
<1>15. new \in Seq(Profiles) /\ Len(new) = n
  <2>1. new \in [1..n -> Profiles]
    BY <1>1, <1>8, <1>10
  <2> QED
    BY <1>1, <2>1
<1>16. /\ ToSet(new) = {new[i] : i \in 1..n} /\ RawsOf(new) = {new[i].raw : i \in 1..n}
  BY <1>15, ListElements
<1>17. \A i \in 1..n : new[i] = list[from[i]] /\ from[i] \in 1..n
  BY <1>8, <1>10
<1> HIDE DEF new
<1>18. ToSet(new) \subseteq ToSet(list) /\ RawsOf(new) \subseteq RawsOf(list)
  BY <1>1, <1>16, <1>17
<1>19. ToSet(list) \subseteq ToSet(new) /\ RawsOf(list) \subseteq RawsOf(new)
  <2>1. ASSUME NEW k \in 1..n
        PROVE  list[k] \in ToSet(new) /\ list[k].raw \in RawsOf(new)
    <3>1. PICK i \in 1..n : from[i] = k
      BY <1>14
    <3> QED
      BY <1>16, <1>17, <3>1
  <2> QED
    BY <1>1, <2>1
<1>20. Distinct(new)
  BY <1>1, <1>9, <1>15, <1>17 DEF Distinct
<1> QED
  BY <1>15, <1>18, <1>19, <1>20 DEF Lists, new

(* Without one position, the later profiles move up.                       *)
LEMMA RemoveAtProperties ==
  ASSUME NEW S, NEW s \in Seq(S), NEW i \in 1..Len(s)
  PROVE  /\ RemoveAt(s, i) \in Seq(S) /\ Len(RemoveAt(s, i)) = Len(s) - 1
         /\ \A k \in 1..(Len(s) - 1) : RemoveAt(s, i)[k] = IF k < i THEN s[k] ELSE s[k + 1]
<1> DEFINE a == SubSeq(s, 1, i - 1)
           b == SubSeq(s, i + 1, Len(s))
<1>1. Len(s) \in Nat /\ \A k \in 1..Len(s) : s[k] \in S
  BY ElementOfSeq, LenProperties
<1>2. a \in Seq(S) /\ Len(a) = i - 1 /\ \A k \in 1..(i - 1) : a[k] = s[k]
  <2>1. /\ a \in Seq(S)
        /\ Len(a) = IF 1 <= i - 1 THEN (i - 1) - 1 + 1 ELSE 0
        /\ \A k \in 1 .. (i - 1) - 1 + 1 : a[k] = s[1 + k - 1]
    <3>1. 1 \in Int /\ i - 1 \in Int /\ \A k \in 1..(i - 1) : s[k] \in S
      BY <1>1
    <3> HIDE DEF a
    <3> QED
      BY <3>1, SubSeqProperties DEF a
  <2> HIDE DEF a
  <2> QED
    BY <2>1
<1>3. b \in Seq(S) /\ Len(b) = Len(s) - i /\ \A k \in 1..(Len(s) - i) : b[k] = s[k + i]
  <2>1. /\ b \in Seq(S)
        /\ Len(b) = IF i + 1 <= Len(s) THEN Len(s) - (i + 1) + 1 ELSE 0
        /\ \A k \in 1 .. Len(s) - (i + 1) + 1 : b[k] = s[(i + 1) + k - 1]
    <3>1. i + 1 \in Int /\ Len(s) \in Int /\ \A k \in (i + 1)..Len(s) : s[k] \in S
      BY <1>1
    <3> QED
      BY <3>1, SubSeqProperties
  <2> HIDE DEF b
  <2>2. \A k \in 1..(Len(s) - i) : (i + 1) + k - 1 = k + i /\ k \in 1 .. Len(s) - (i + 1) + 1
    BY <1>1
  <2> QED
    BY <1>1, <2>1, <2>2
<1> HIDE DEF a, b
<1>4. /\ a \o b \in Seq(S) /\ Len(a \o b) = Len(a) + Len(b)
      /\ \A k \in 1 .. Len(a) + Len(b) : (a \o b)[k] = IF k <= Len(a) THEN a[k] ELSE b[k - Len(a)]
  BY <1>2, <1>3, ConcatProperties
<1>5. RemoveAt(s, i) = a \o b
  BY DEF RemoveAt, a, b
<1>6. ASSUME NEW k \in 1..(Len(s) - 1)
      PROVE  (a \o b)[k] = IF k < i THEN s[k] ELSE s[k + 1]
  <2>1. CASE k < i
    BY <1>1, <1>2, <1>3, <1>4, <2>1
  <2>2. CASE k >= i
    <3>1. k - (i - 1) \in 1..(Len(s) - i) /\ (k - (i - 1)) + i = k + 1
      BY <1>1, <2>2
    <3>2. b[k - (i - 1)] = s[k + 1]
      BY <1>3, <3>1
    <3> QED
      BY <1>1, <1>2, <1>3, <1>4, <2>2, <3>2
  <2>3. k < i \/ k >= i
    BY <1>1
  <2> QED
    BY <2>1, <2>2, <2>3, Zenon
<1> QED
  BY <1>1, <1>2, <1>3, <1>4, <1>5, <1>6

(* A list without one of its profiles.                                     *)
LEMMA RemovedList ==
  ASSUME NEW list \in Lists, NEW i \in 1..Len(list)
  PROVE  LET new == RemoveAt(list, i)
         IN  /\ new \in Lists /\ Len(new) = Len(list) - 1
             /\ RawsOf(new) = RawsOf(list) \ {list[i].raw}
             /\ \A k \in 1..Len(new) : new[k] = IF k < i THEN list[k] ELSE list[k + 1]
<1> DEFINE new == RemoveAt(list, i)
<1>1. /\ list \in Seq(Profiles) /\ Distinct(list) /\ Len(list) \in Nat
      /\ RawsOf(list) = {list[k].raw : k \in 1..Len(list)}
  BY ListElements DEF Lists
<1>2. /\ new \in Seq(Profiles) /\ Len(new) = Len(list) - 1
      /\ \A k \in 1..(Len(list) - 1) : new[k] = IF k < i THEN list[k] ELSE list[k + 1]
  BY <1>1, RemoveAtProperties
<1> HIDE DEF new
<1>3. RawsOf(new) = {new[k].raw : k \in 1..Len(new)}
  BY <1>2, ListElements
<1>4. Distinct(new)
  <2>1. ASSUME NEW a \in 1..Len(new)
        PROVE  \E k \in 1..Len(list) : new[a] = list[k] /\ k = IF a < i THEN a ELSE a + 1
    BY <1>1, <1>2
  <2>2. ASSUME NEW a \in 1..Len(new), NEW b \in 1..Len(new), new[a].raw = new[b].raw
        PROVE  a = b
    <3>1. PICK k \in 1..Len(list) : new[a] = list[k] /\ k = IF a < i THEN a ELSE a + 1
      BY <2>1
    <3>2. PICK l \in 1..Len(list) : new[b] = list[l] /\ l = IF b < i THEN b ELSE b + 1
      BY <2>1
    <3>3. k = l
      BY <1>1, <2>2, <3>1, <3>2 DEF Distinct
    <3>4. a \in Nat /\ b \in Nat /\ i \in Nat
      BY <1>1, <1>2
    <3> QED
      BY <3>1, <3>2, <3>3, <3>4
  <2> QED
    BY <2>2 DEF Distinct
<1>5. ASSUME NEW k \in 1..Len(new)
      PROVE  new[k].raw \in RawsOf(list) /\ new[k].raw # list[i].raw
  <2>1. CASE k < i
    BY <1>1, <1>2, <2>1 DEF Distinct
  <2>2. CASE k >= i
    <3>1. k + 1 \in 1..Len(list) /\ k + 1 # i /\ new[k] = list[k + 1]
      BY <1>1, <1>2, <2>2
    <3> QED
      BY <1>1, <3>1 DEF Distinct
  <2> QED
    BY <1>1, <1>2, <2>1, <2>2
<1>6. ASSUME NEW k \in 1..Len(list), list[k].raw # list[i].raw
      PROVE  list[k].raw \in RawsOf(new)
  <2>1. CASE k < i
    <3>1. k \in 1..Len(new) /\ new[k] = list[k]
      BY <1>1, <1>2, <2>1
    <3> QED
      BY <1>3, <3>1
  <2>2. CASE k > i
    <3>1. k - 1 \in 1..Len(new) /\ ~(k - 1 < i) /\ (k - 1) + 1 = k
      BY <1>1, <1>2, <2>2
    <3>2. new[k - 1] = list[k]
      BY <1>1, <1>2, <3>1
    <3> QED
      BY <1>3, <3>1, <3>2
  <2> QED
    BY <1>1, <1>6, <2>1, <2>2
<1>7. RawsOf(new) = RawsOf(list) \ {list[i].raw}
  BY <1>1, <1>3, <1>5, <1>6
<1> QED
  BY <1>1, <1>2, <1>4, <1>7 DEF Lists, new

(* A new link at the end ...                                               *)
LEMMA GrownList ==
  ASSUME NEW list \in Lists, NEW p \in Profiles, p.raw \notin RawsOf(list)
  PROVE  LET new == Append(list, p)
         IN  /\ new \in Lists /\ Len(new) = Len(list) + 1
             /\ RawsOf(new) = RawsOf(list) \cup {p.raw}
             /\ \A k \in 1..Len(list) : new[k] = list[k]
<1> DEFINE new == Append(list, p)
<1>1. /\ list \in Seq(Profiles) /\ Distinct(list) /\ Len(list) \in Nat
      /\ RawsOf(list) = {list[k].raw : k \in 1..Len(list)}
  BY ListElements DEF Lists
<1>2. /\ new \in Seq(Profiles) /\ Len(new) = Len(list) + 1 /\ new[Len(list) + 1] = p
      /\ \A k \in 1..Len(list) : new[k] = list[k]
  BY <1>1, AppendProperties
<1> HIDE DEF new
<1>3. \A k \in 1..Len(list) : list[k].raw # p.raw
  BY <1>1
<1>4. Distinct(new)
  BY <1>1, <1>2, <1>3 DEF Distinct
<1>5. RawsOf(new) = {new[k].raw : k \in 1..Len(new)}
  BY <1>2, ListElements
<1>6. 1..Len(new) = (1..Len(list)) \cup {Len(list) + 1}
  BY <1>1, <1>2
<1>7. RawsOf(new) = RawsOf(list) \cup {p.raw}
  BY <1>1, <1>2, <1>5, <1>6
<1> QED
  BY <1>2, <1>4, <1>7 DEF Lists, new

(* ... and in place of another.                                            *)
LEMMA ExchangedList ==
  ASSUME NEW list \in Lists, NEW i \in 1..Len(list), NEW raw \in Links, raw \notin RawsOf(list)
  PROVE  LET new == [list EXCEPT ![i].raw = raw]
         IN  /\ new \in Lists /\ Len(new) = Len(list)
             /\ RawsOf(new) = (RawsOf(list) \ {list[i].raw}) \cup {raw}
             /\ \A k \in 1..Len(list) :
                  new[k] = IF k = i THEN [list[i] EXCEPT !.raw = raw] ELSE list[k]
<1> DEFINE p == [list[i] EXCEPT !.raw = raw]
           new == [list EXCEPT ![i] = p]
<1>1. /\ list \in Seq(Profiles) /\ Distinct(list) /\ Len(list) \in Nat
      /\ RawsOf(list) = {list[k].raw : k \in 1..Len(list)} /\ list[i] \in Profiles
  BY ListElements DEF Lists
<1>2. p \in Profiles /\ p.raw = raw
  BY <1>1 DEF Profiles
<1>3. [list EXCEPT ![i].raw = raw] = new
  OBVIOUS
<1> HIDE DEF p
<1>4. /\ new \in Seq(Profiles) /\ Len(new) = Len(list)
      /\ \A k \in 1..Len(list) : new[k] = IF k = i THEN p ELSE list[k]
  BY <1>1, <1>2, ExceptSeq
<1> HIDE DEF new
<1>5. \A k \in 1..Len(list) : list[k].raw # raw
  BY <1>1
<1>6. Distinct(new)
  BY <1>1, <1>2, <1>4, <1>5 DEF Distinct
<1>7. RawsOf(new) = {new[k].raw : k \in 1..Len(new)}
  BY <1>4, ListElements
<1>8. \A k \in 1..Len(list) : k # i => list[k].raw # list[i].raw
  BY <1>1 DEF Distinct
<1>9. RawsOf(new) = (RawsOf(list) \ {list[i].raw}) \cup {raw}
  <2>1. ASSUME NEW k \in 1..Len(list)
        PROVE  new[k].raw = IF k = i THEN raw ELSE list[k].raw
    BY <1>2, <1>4
  <2> QED
    BY <1>1, <1>4, <1>7, <1>8, <2>1
<1> QED
  BY <1>3, <1>4, <1>6, <1>9 DEF Lists, p

-----------------------------------------------------------------------------
(* The inductive invariant.                                                *)

(* A state the daemon can run on.                                          *)
States ==
  {m \in Persisted : /\ m.list \in Lists /\ m.active \in 0..Len(m.list)
                     /\ m.pinned \subseteq Present(m)}

(* Between two states the active profile stays or goes.                    *)
Follows(m, n) ==
  /\ n.active # 0 => m.active # 0 /\ Active(n) = Active(m)
  /\ n.active = 0 => m.active = 0 \/ Active(m) \notin RawsOf(n.list)

(* The fixed routes of a state with other Dead Servers.                    *)
ActiveServers(m) == {ServerOf[l] : l \in {Active(m)} \ {NoLink}}
Routes(m, dead) == InForce(m) \ (dead \cup ActiveServers(m))

Ops == {"idle", "refresh", "activating", "move", "promote", "status"}
Threads ==
  [op: Ops, next: {"idle", "promote"}, sources: SUBSET Sources, before: SUBSET Servers,
   good: SUBSET Servers, gone: SUBSET Servers, results: SUBSET Results, due: SUBSET Results]
Cores == [up: BOOLEAN, serves: Links \cup {NoLink}, fixed: SUBSET Servers, stale: BOOLEAN]

UndoTyped == undo \in Seq(States) /\ Len(undo) <= MaxUndo
CoreTyped == core \in Cores /\ (~core.up => core = Down)
MachineTyped == mem \in States /\ disk \in States /\ UndoTyped /\ CoreTyped
ThreadsTyped ==
  /\ thread \in [Clients -> Threads]
  /\ bench \subseteq Results /\ measured \subseteq Links /\ shown \subseteq Results

Activating(c) == thread[c].op = "activating"
OneActivates == \A c, d \in Clients : Activating(c) /\ Activating(d) => c = d

(* While a change of Dead Servers is being activated the core routes by    *)
(* the membership before it.                                               *)
CoreRuns ==
  core.up /\ mem.active # 0 =>
    /\ core.serves = Active(mem)
    /\ ~core.stale =>
         /\ ApplyFree => core.fixed = Routes(mem, mem.dead)
         /\ \A c \in Clients : Activating(c) => core.fixed = Routes(mem, thread[c].before)

ProfilesInv == MachineTyped /\ ThreadsTyped /\ OneActivates /\ CoreRuns

-----------------------------------------------------------------------------
(* States and what moves between them.                                     *)

(* What the fields of a state are ...                                      *)
LEMMA StateFields ==
  ASSUME NEW m \in States
  PROVE  /\ m \in Persisted /\ m.list \in Lists /\ m.list \in Seq(Profiles)
         /\ DOMAIN m.list = 1..Len(m.list) /\ Len(m.list) \in Nat
         /\ m.active \in 0..Len(m.list) /\ m.active \in Nat
         /\ m.dead \subseteq Servers /\ m.pinned \subseteq Servers /\ m.subs \subseteq Sources
         /\ m.pinned \subseteq Present(m)
<1>1. m \in Persisted /\ m.list \in Lists /\ m.active \in 0..Len(m.list) /\ m.pinned \subseteq Present(m)
  BY DEF States
<1>2. m.list \in Seq(Profiles) /\ m.dead \subseteq Servers /\ m.pinned \subseteq Servers /\ m.subs \subseteq Sources
      /\ m.active \in Nat
  BY <1>1 DEF Persisted
<1>3. DOMAIN m.list = 1..Len(m.list) /\ Len(m.list) \in Nat
  BY <1>2, ListElements
<1> QED
  BY <1>1, <1>2, <1>3

(* A record with the fields of a state.                                    *)
Shaped(n) ==
  n = [list |-> n.list, active |-> n.active, dead |-> n.dead, pinned |-> n.pinned,
       subs |-> n.subs]

(* ... and that such fields make one.                                      *)
LEMMA StateMade ==
  ASSUME NEW n,
         n = [list |-> n.list, active |-> n.active, dead |-> n.dead, pinned |-> n.pinned,
              subs |-> n.subs],
         n.list \in Lists, n.active \in 0..Len(n.list), n.dead \subseteq Servers,
         n.subs \subseteq Sources, n.pinned \subseteq {ServerOf[l] : l \in RawsOf(n.list)}
  PROVE  n \in States
<1>1. n.list \in Seq(Profiles) /\ Len(n.list) \in Nat /\ RawsOf(n.list) \subseteq Links
  BY ListElements DEF Lists
<1>2. n.pinned \subseteq Servers /\ n.active \in Nat
  BY <1>1 DEF Servers
<1>3. n \in Persisted
  BY <1>1, <1>2 DEF Persisted
<1> QED
  BY <1>3 DEF States, Present

(* The active link is a link of the list.                                  *)
LEMMA ActiveFacts ==
  ASSUME NEW m \in States
  PROVE  /\ m.active = 0 <=> Active(m) = NoLink
         /\ m.active # 0 => /\ Active(m) \in RawsOf(m.list) /\ Active(m) \in Links
                            /\ Active(m) = m.list[m.active].raw
         /\ RawsOf(m.list) = {m.list[i].raw : i \in 1..Len(m.list)}
         /\ \A i \in 1..Len(m.list) : ServerAt(m, i) \in Present(m)
         /\ Present(m) = {ServerAt(m, i) : i \in 1..Len(m.list)} /\ Present(m) \subseteq Servers
<1>1. m.list \in Seq(Profiles) /\ m.active \in 0..Len(m.list) /\ Len(m.list) \in Nat
  BY StateFields
<1>2. /\ \A i \in 1..Len(m.list) : m.list[i].raw \in Links
      /\ RawsOf(m.list) = {m.list[i].raw : i \in 1..Len(m.list)} /\ RawsOf(m.list) \subseteq Links
  BY <1>1, ListElements
<1>3. m.active # 0 => m.active \in 1..Len(m.list)
  BY <1>1
<1> QED
  BY <1>2, <1>3, ProfilesAssumption DEF Active, Present, ServerAt, Servers

(* An edit of one of a state's fields.                                     *)
LEMMA EditedFields ==
  ASSUME NEW m \in States
  PROVE  /\ Shaped(m)
         /\ \A list : LET n == [m EXCEPT !.list = list]
                      IN  /\ Shaped(n) /\ n.list = list /\ n.active = m.active
                          /\ n.dead = m.dead /\ n.pinned = m.pinned /\ n.subs = m.subs
         /\ \A dead : LET n == [m EXCEPT !.dead = dead]
                      IN  /\ Shaped(n) /\ n.list = m.list /\ n.active = m.active
                          /\ n.dead = dead /\ n.pinned = m.pinned /\ n.subs = m.subs
         /\ \A pinned : LET n == [m EXCEPT !.pinned = pinned]
                        IN  /\ Shaped(n) /\ n.list = m.list /\ n.active = m.active
                            /\ n.dead = m.dead /\ n.pinned = pinned /\ n.subs = m.subs
         /\ \A subs : LET n == [m EXCEPT !.subs = subs]
                      IN  /\ Shaped(n) /\ n.list = m.list /\ n.active = m.active
                          /\ n.dead = m.dead /\ n.pinned = m.pinned /\ n.subs = subs
         /\ \A active : LET n == [m EXCEPT !.active = active]
                        IN  /\ Shaped(n) /\ n.list = m.list /\ n.active = active
                            /\ n.dead = m.dead /\ n.pinned = m.pinned /\ n.subs = m.subs
<1>1. m = [list |-> m.list, active |-> m.active, dead |-> m.dead, pinned |-> m.pinned, subs |-> m.subs]
  BY StateFields DEF Persisted
<1>2. ASSUME NEW list
      PROVE  LET n == [m EXCEPT !.list = list]
             IN  /\ Shaped(n) /\ n.list = list /\ n.active = m.active
                 /\ n.dead = m.dead /\ n.pinned = m.pinned /\ n.subs = m.subs
  <2> DEFINE n == [m EXCEPT !.list = list]
  <2>1. n = [list |-> list, active |-> m.active, dead |-> m.dead, pinned |-> m.pinned, subs |-> m.subs]
    BY <1>1
  <2> HIDE DEF n
  <2>2. Shaped(n) /\ n.list = list /\ n.active = m.active /\ n.dead = m.dead /\ n.pinned = m.pinned /\ n.subs = m.subs
    BY <2>1 DEF Shaped
  <2> QED
    BY <2>2 DEF n
<1>3. ASSUME NEW dead
      PROVE  LET n == [m EXCEPT !.dead = dead]
             IN  /\ Shaped(n) /\ n.list = m.list /\ n.active = m.active
                 /\ n.dead = dead /\ n.pinned = m.pinned /\ n.subs = m.subs
  <2> DEFINE n == [m EXCEPT !.dead = dead]
  <2>1. n = [list |-> m.list, active |-> m.active, dead |-> dead, pinned |-> m.pinned, subs |-> m.subs]
    BY <1>1
  <2> HIDE DEF n
  <2>2. Shaped(n) /\ n.list = m.list /\ n.active = m.active /\ n.dead = dead /\ n.pinned = m.pinned /\ n.subs = m.subs
    BY <2>1 DEF Shaped
  <2> QED
    BY <2>2 DEF n
<1>4. ASSUME NEW pinned
      PROVE  LET n == [m EXCEPT !.pinned = pinned]
             IN  /\ Shaped(n) /\ n.list = m.list /\ n.active = m.active
                 /\ n.dead = m.dead /\ n.pinned = pinned /\ n.subs = m.subs
  <2> DEFINE n == [m EXCEPT !.pinned = pinned]
  <2>1. n = [list |-> m.list, active |-> m.active, dead |-> m.dead, pinned |-> pinned, subs |-> m.subs]
    BY <1>1
  <2> HIDE DEF n
  <2>2. Shaped(n) /\ n.list = m.list /\ n.active = m.active /\ n.dead = m.dead /\ n.pinned = pinned /\ n.subs = m.subs
    BY <2>1 DEF Shaped
  <2> QED
    BY <2>2 DEF n
<1>5. ASSUME NEW subs
      PROVE  LET n == [m EXCEPT !.subs = subs]
             IN  /\ Shaped(n) /\ n.list = m.list /\ n.active = m.active
                 /\ n.dead = m.dead /\ n.pinned = m.pinned /\ n.subs = subs
  <2> DEFINE n == [m EXCEPT !.subs = subs]
  <2>1. n = [list |-> m.list, active |-> m.active, dead |-> m.dead, pinned |-> m.pinned, subs |-> subs]
    BY <1>1
  <2> HIDE DEF n
  <2>2. Shaped(n) /\ n.list = m.list /\ n.active = m.active /\ n.dead = m.dead /\ n.pinned = m.pinned /\ n.subs = subs
    BY <2>1 DEF Shaped
  <2> QED
    BY <2>2 DEF n
<1>6. ASSUME NEW active
      PROVE  LET n == [m EXCEPT !.active = active]
             IN  /\ Shaped(n) /\ n.list = m.list /\ n.active = active
                 /\ n.dead = m.dead /\ n.pinned = m.pinned /\ n.subs = m.subs
  <2> DEFINE n == [m EXCEPT !.active = active]
  <2>1. n = [list |-> m.list, active |-> active, dead |-> m.dead, pinned |-> m.pinned, subs |-> m.subs]
    BY <1>1
  <2> HIDE DEF n
  <2>2. Shaped(n) /\ n.list = m.list /\ n.active = active /\ n.dead = m.dead /\ n.pinned = m.pinned /\ n.subs = m.subs
    BY <2>1 DEF Shaped
  <2> QED
    BY <2>2 DEF n
<1>7. Shaped(m)
  BY <1>1 DEF Shaped
<1> QED
  BY <1>2, <1>3, <1>4, <1>5, <1>6, <1>7, Zenon

(* Fields that are not the list say nothing of the store.                  *)
LEMMA OtherFields ==
  ASSUME NEW m \in States, NEW n, Shaped(n), n.list = m.list, n.active = m.active,
         n.pinned = m.pinned, n.dead \subseteq Servers, n.subs \subseteq Sources
  PROVE  /\ n \in States /\ Active(n) = Active(m) /\ Follows(m, n) /\ StoreOf(n) = StoreOf(m)
         /\ Present(n) = Present(m)
<1>1. m.list \in Lists /\ m.active \in 0..Len(m.list) /\ m.pinned \subseteq Present(m)
  BY StateFields
<1>2. n \in States
  BY <1>1, StateMade DEF Present, Shaped
<1> QED
  BY <1>2 DEF Active, Follows, StoreOf, Present

(* New ids, the active profile found by its link.                          *)
LEMMA ReindexedState ==
  ASSUME NEW m \in States, NEW list \in Lists,
         m.pinned \subseteq {ServerOf[l] : l \in RawsOf(list)}
  PROVE  LET n == Reindexed(m, list)
         IN  /\ n \in States /\ Follows(m, n)
             /\ n.list = list /\ n.dead = m.dead /\ n.pinned = m.pinned /\ n.subs = m.subs
<1> DEFINE n == Reindexed(m, list)
           i == PositionOf(list, Active(m))
<1>1. /\ m = [list |-> m.list, active |-> m.active, dead |-> m.dead, pinned |-> m.pinned, subs |-> m.subs]
      /\ m.dead \subseteq Servers /\ m.subs \subseteq Sources /\ list \in Seq(Profiles)
  BY StateFields DEF Persisted, Lists
<1>2. /\ i \in 0..Len(list) /\ (i # 0 <=> Active(m) \in RawsOf(list))
      /\ (i # 0 => list[i].raw = Active(m))
  BY <1>1, PositionFound
<1> HIDE DEF i
<1>3. n = [list |-> list, active |-> i, dead |-> m.dead, pinned |-> m.pinned, subs |-> m.subs]
  <2>1. n = [m EXCEPT !.list = list, !.active = i]
    BY DEF Reindexed, i
  <2> HIDE DEF n
  <2> QED
    BY <1>1, <2>1
<1> HIDE DEF n
<1>4. n \in States
  BY <1>1, <1>2, <1>3, StateMade
<1>5. /\ n.list = list /\ n.active = i /\ n.dead = m.dead /\ n.pinned = m.pinned /\ n.subs = m.subs
  BY <1>3
<1>6. i # 0 => Active(n) = Active(m)
  BY <1>2, <1>5 DEF Active
<1>7. i # 0 => m.active # 0
  <2>1. RawsOf(list) \subseteq Links /\ NoLink \notin Links
    BY <1>1, ListElements, ProfilesAssumption
  <2> QED
    BY <1>2, <2>1, ActiveFacts
<1>8. Follows(m, n)
  BY <1>2, <1>5, <1>6, <1>7 DEF Follows
<1> QED
  BY <1>4, <1>5, <1>8 DEF n

(* The stores of the states are well formed.                               *)
LEMMA StoreWellFormed ==
  ASSUME NEW m \in States
  PROVE  /\ StoreOf(m) \in Store!Stores /\ Store!WellFormed(StoreOf(m))
         /\ Store!RawsIn(StoreOf(m)) = RawsOf(m.list)
         /\ StoreOf(m).active = Active(m) /\ StoreOf(m).profiles \subseteq Store!Profiles
<1>1. m.list \in Lists /\ m.list \in Seq(Profiles)
  BY StateFields
<1>2. /\ ToSet(m.list) = {m.list[i] : i \in 1..Len(m.list)} /\ ToSet(m.list) \subseteq Profiles
      /\ RawsOf(m.list) = {m.list[i].raw : i \in 1..Len(m.list)}
  BY <1>1, ListElements
<1>3. Store!RawsIn(StoreOf(m)) = RawsOf(m.list)
  BY <1>2 DEF Store!RawsIn, StoreOf
<1>4. Distinct(m.list)
  BY <1>1 DEF Lists
<1>5. Active(m) \in RawsOf(m.list) \cup {NoLink} /\ Active(m) \in Links \cup {NoLink}
  BY ActiveFacts
<1>6. Store!WellFormed(StoreOf(m))
  <2>1. StoreOf(m).profiles = ToSet(m.list) /\ StoreOf(m).active = Active(m)
    BY DEF StoreOf
  <2>2. /\ \A p, q \in StoreOf(m).profiles : p.raw = q.raw => p = q
        /\ StoreOf(m).active \in Store!RawsIn(StoreOf(m)) \cup {NoLink}
    BY <1>2, <1>3, <1>4, <1>5, <2>1 DEF Distinct
  <2> QED
    BY <2>2 DEF Store!WellFormed
<1>7. StoreOf(m) \in Store!Stores
  BY <1>2, <1>5 DEF Store!Stores, Store!Profiles, StoreOf, Profiles
<1> QED
  BY <1>2, <1>3, <1>6, <1>7 DEF StoreOf, Store!Profiles, Profiles

(* The undo stack keeps the last snapshots.                                *)
LEMMA PushedFacts ==
  ASSUME NEW stack \in Seq(States), Len(stack) <= MaxUndo, NEW m \in States
  PROVE  LET new == Pushed(stack, m)
         IN  /\ new \in Seq(States) /\ Len(new) <= MaxUndo
             /\ \A k \in DOMAIN new : new[k] = m \/ \E j \in DOMAIN stack : new[k] = stack[j]
<1> DEFINE all == Append(stack, m)
           new == Pushed(stack, m)
<1>1. Len(stack) \in Nat /\ DOMAIN stack = 1..Len(stack) /\ MaxUndo \in Nat /\ MaxUndo # 0
  BY LenProperties, ProfilesAssumption
<1>2. /\ all \in Seq(States) /\ Len(all) = Len(stack) + 1 /\ all[Len(stack) + 1] = m
      /\ \A k \in 1..Len(stack) : all[k] = stack[k]
  BY <1>1, AppendProperties
<1>3. new = IF Len(all) > MaxUndo THEN Tail(all) ELSE all
  BY DEF Pushed
<1> HIDE DEF all, new
<1>4. \A k \in 1..Len(all) : all[k] = m \/ \E j \in 1..Len(stack) : all[k] = stack[j]
  BY <1>1, <1>2
<1>5. CASE Len(all) > MaxUndo
  <2>1. /\ Tail(all) \in Seq(States) /\ Len(Tail(all)) = Len(all) - 1
        /\ \A k \in 1..Len(all) - 1 : Tail(all)[k] = all[k + 1]
    <3>1. all # <<>>
      BY <1>1, <1>2
    <3> QED
      BY <1>2, <3>1, HeadTailProperties
  <2>2. DOMAIN Tail(all) = 1..(Len(all) - 1)
    BY <2>1, LenProperties
  <2>3. \A k \in 1..(Len(all) - 1) : k + 1 \in 1..Len(all)
    BY <1>1, <1>2
  <2>4. Len(Tail(all)) <= MaxUndo
    BY <1>1, <1>2, <2>1
  <2>5. new = Tail(all)
    BY <1>3, <1>5
  <2>6. \A k \in 1..(Len(all) - 1) : new[k] = m \/ \E j \in 1..Len(stack) : new[k] = stack[j]
    BY <1>4, <2>1, <2>3, <2>5
  <2>7. DOMAIN new = 1..(Len(all) - 1) /\ DOMAIN stack = 1..Len(stack)
    BY <1>1, <2>2, <2>5, LenProperties
  <2> QED
    BY <2>1, <2>4, <2>5, <2>6, <2>7 DEF new
<1>6. CASE ~(Len(all) > MaxUndo)
  <2>1. DOMAIN all = 1..Len(all) /\ Len(all) <= MaxUndo
    BY <1>1, <1>2, <1>6, LenProperties
  <2> QED
    BY <1>1, <1>2, <1>3, <1>4, <1>6, <2>1 DEF new
<1> QED
  BY <1>5, <1>6

(* A list that grows at its end, with other subscriptions.                 *)
LEMMA GrownState ==
  ASSUME NEW m \in States, NEW n, Shaped(n), n.list \in Lists, n.subs \subseteq Sources,
         n.active = m.active, n.dead = m.dead, n.pinned = m.pinned,
         Len(m.list) <= Len(n.list), \A i \in 1..Len(m.list) : n.list[i].raw = m.list[i].raw
  PROVE  n \in States /\ Follows(m, n)
<1>1. /\ m.dead \subseteq Servers /\ m.active \in 0..Len(m.list) /\ m.pinned \subseteq Present(m)
      /\ Len(m.list) \in Nat /\ Len(n.list) \in Nat /\ n.list \in Seq(Profiles)
  BY StateFields, ListElements DEF Lists
<1>2. RawsOf(m.list) \subseteq RawsOf(n.list)
  <2>1. RawsOf(m.list) = {m.list[i].raw : i \in 1..Len(m.list)}
    BY ActiveFacts
  <2>2. RawsOf(n.list) = {n.list[i].raw : i \in 1..Len(n.list)}
    BY <1>1, ListElements
  <2> QED
    BY <1>1, <2>1, <2>2
<1>3. n.pinned \subseteq {ServerOf[l] : l \in RawsOf(n.list)}
  BY <1>1, <1>2 DEF Present
<1>4. n \in States
  <2>1. n.active \in 0..Len(n.list) /\ n.dead \subseteq Servers
    BY <1>1
  <2> QED
    BY <1>3, <2>1, StateMade DEF Shaped
<1>5. Active(n) = Active(m)
  BY <1>1 DEF Active
<1> QED
  BY <1>4, <1>5 DEF Follows

(* Deletion of one profile.                                                *)
LEMMA DeletedState ==
  ASSUME NEW m \in States, NEW i \in 1..Len(m.list), NonePinned(m, {i})
  PROVE  LET n == WithoutProfile(m, i)
         IN  n \in States /\ Follows(m, n) /\ n.pinned = m.pinned /\ n.dead = m.dead
<1> DEFINE list == RemoveAt(m.list, i)
           active == IF m.active = i THEN 0 ELSE IF i < m.active THEN m.active - 1 ELSE m.active
           n == WithoutProfile(m, i)
<1>1. /\ m = [list |-> m.list, active |-> m.active, dead |-> m.dead, pinned |-> m.pinned, subs |-> m.subs]
      /\ m.dead \subseteq Servers /\ m.subs \subseteq Sources /\ m.active \in 0..Len(m.list)
      /\ Len(m.list) \in Nat /\ m.list \in Lists /\ Distinct(m.list)
  BY StateFields DEF Persisted, Lists
<1>2. /\ list \in Lists /\ Len(list) = Len(m.list) - 1
      /\ RawsOf(list) = RawsOf(m.list) \ {m.list[i].raw}
      /\ \A k \in 1..Len(list) : list[k] = IF k < i THEN m.list[k] ELSE m.list[k + 1]
  BY <1>1, RemovedList
<1>3. n = [list |-> list, active |-> active, dead |-> m.dead, pinned |-> m.pinned, subs |-> m.subs]
  <2>1. n = [m EXCEPT !.list = list, !.active = active]
    BY DEF WithoutProfile
  <2> HIDE DEF list, active, n
  <2> QED
    BY <1>1, <2>1
<1> HIDE DEF n, list
<1>4. m.pinned \subseteq {ServerOf[l] : l \in RawsOf(list)}
  <2> SUFFICES ASSUME NEW s \in m.pinned
               PROVE  \E l \in RawsOf(list) : s = ServerOf[l]
    OBVIOUS
  <2>1. PICK j \in 1..Len(m.list) : s = ServerAt(m, j)
    BY StateFields, ActiveFacts
  <2>2. j # i
    BY <2>1 DEF NonePinned
  <2>3. m.list[j].raw \in RawsOf(list)
    <3>1. m.list[j].raw # m.list[i].raw
      BY <1>1, <2>2 DEF Distinct
    <3>2. m.list[j].raw \in RawsOf(m.list)
      BY ActiveFacts
    <3> QED
      BY <1>2, <3>1, <3>2
  <2> QED
    BY <2>1, <2>3 DEF ServerAt
<1>5. active \in 0..Len(list)
  BY <1>1, <1>2
<1>6. n \in States
  BY <1>1, <1>2, <1>3, <1>4, <1>5, StateMade
<1>7. n.list = list /\ n.active = active /\ n.pinned = m.pinned /\ n.dead = m.dead
  BY <1>3
<1>8. Follows(m, n)
  <2>1. CASE m.active = i
    <3>1. n.active = 0 /\ m.active # 0 /\ Active(m) = m.list[i].raw
      BY <1>7, <2>1, ActiveFacts
    <3> QED
      BY <1>2, <1>7, <3>1 DEF Follows
  <2>2. CASE m.active # i /\ m.active # 0
    <3>1. active \in 1..Len(list) /\ list[active] = m.list[m.active]
      <4>1. CASE i < m.active
        <5>1. active = m.active - 1 /\ ~(m.active - 1 < i) /\ (m.active - 1) + 1 = m.active
          BY <1>1, <2>2, <4>1
        <5>2. m.active - 1 \in 1..Len(list)
          BY <1>1, <1>2, <2>2, <4>1
        <5> HIDE DEF active
        <5> QED
          BY <1>2, <5>1, <5>2
      <4>2. CASE m.active < i
        <5>1. active = m.active /\ m.active \in 1..Len(list)
          BY <1>1, <1>2, <2>2, <4>2
        <5> HIDE DEF active
        <5> QED
          BY <1>2, <4>2, <5>1
      <4> QED
        BY <1>1, <2>2, <4>1, <4>2
    <3> HIDE DEF active
    <3>2. n.active # 0 /\ Active(n) = n.list[n.active].raw
      BY <1>6, <1>7, <3>1, ActiveFacts
    <3>3. Active(n) = Active(m)
      BY <1>7, <2>2, <3>1, <3>2, ActiveFacts
    <3> QED
      BY <2>2, <3>2, <3>3 DEF Follows
  <2>3. CASE m.active = 0
    BY <1>7, <2>3 DEF Follows
  <2> QED
    BY <2>1, <2>2, <2>3
<1> QED
  BY <1>6, <1>7, <1>8 DEF n

-----------------------------------------------------------------------------
(* The kinds of step: what moves the list, and what keeps the core with it.*)

StoreStep == Store!Next \/ UNCHANGED Store!vars
MachineStep == MachineTyped' /\ CoreRuns' /\ StoreStep

(* A change that is saved or not, with or without a snapshot.              *)
LEMMA ChangeStep ==
  ASSUME MachineTyped, CoreTyped', mem' \in States, Follows(mem, mem'),
         disk' \in States, StoreOf(disk') \in {StoreOf(disk), StoreOf(mem')},
         undo' \in {undo, Pushed(undo, mem)},
         core'.serves \in {core.serves, Active(mem'), NoLink}
  PROVE  MachineTyped' /\ StoreStep
<1>1. mem \in States /\ UndoTyped
  BY DEF MachineTyped
<1>2. /\ UndoTyped'
      /\ \A k \in DOMAIN undo' : undo'[k] = mem \/ \E j \in DOMAIN undo : undo'[k] = undo[j]
  <2>1. CASE undo' = undo
    BY <1>1, <2>1 DEF UndoTyped
  <2>2. CASE undo' = Pushed(undo, mem)
    BY <1>1, <2>2, PushedFacts DEF UndoTyped
  <2> QED
    BY <2>1, <2>2
<1>3. Store!Changed(StoreOf(mem'))
  <2>1. /\ StoreOf(mem').profiles \subseteq Store!Profiles /\ Store!WellFormed(StoreOf(mem'))
        /\ StoreOf(mem').active = Active(mem') /\ StoreOf(mem).active = Active(mem)
        /\ Store!RawsIn(StoreOf(mem')) = RawsOf(mem'.list)
    BY <1>1, StoreWellFormed
  <2>2. /\ mem.active = 0 <=> Active(mem) = NoLink
        /\ mem'.active = 0 <=> Active(mem') = NoLink
    BY <1>1, ActiveFacts
  <2> QED
    BY <2>1, <2>2 DEF Store!Changed, Follows
<1>4. \A k \in DOMAIN undo' :
        StoreOf(undo'[k]) \in {StoreOf(undo[j]) : j \in DOMAIN undo} \cup {StoreOf(mem)}
  BY <1>2
<1>5. Store!Change
  <2>1. Store!Saving
    BY DEF Store!Saving
  <2>2. Store!Keeping
    BY <1>4 DEF Store!Keeping
  <2>3. StoreOf(mem').active = Active(mem')
    BY DEF StoreOf
  <2> QED
    BY <1>3, <2>1, <2>2, <2>3 DEF Store!Change
<1> QED
  BY <1>2, <1>5 DEF MachineTyped, StoreStep, Store!Next

(* What Commit leaves in memory and in state.json.                         *)
LEMMA CommitFacts ==
  ASSUME MachineTyped, NEW m, Commit(m), m \in States
  PROVE  /\ mem' = m /\ mem' \in States /\ disk' \in States
         /\ StoreOf(disk') \in {StoreOf(disk), StoreOf(mem')}
BY DEF Commit, MachineTyped

(* What is loaded is a core, and it runs by the state it was loaded with.  *)
LEMMA LoadedFacts ==
  ASSUME NEW m \in States
  PROVE  /\ Loaded(m) \in Cores /\ Loaded(m).up /\ Loaded(m).serves = Active(m)
         /\ Loaded(m).fixed = Routes(m, m.dead)
         /\ Down \in Cores /\ ~Down.up /\ Down.serves = NoLink
<1>1. Active(m) \in Links \cup {NoLink} /\ m.pinned \subseteq Servers
  BY ActiveFacts, StateFields
<1>2. FixedRoutes(m) = Routes(m, m.dead)
  BY DEF FixedRoutes, Routes, ActiveServers
<1> QED
  BY <1>1, <1>2 DEF Loaded, Down, Cores, Routes, InForce

(* A stopped core serves nothing and owes nothing.                         *)
LEMMA StoppedCore ==
  ASSUME core' = Down, mem \in States
  PROVE  CoreTyped' /\ CoreRuns' /\ core'.serves = NoLink
BY LoadedFacts DEF CoreTyped, CoreRuns

(* A core loaded with the state of the moment follows it.                  *)
LEMMA LoadedCore ==
  ASSUME core' = Loaded(mem'), mem' \in States, ApplyFree'
  PROVE  CoreTyped' /\ CoreRuns' /\ core'.serves = Active(mem')
<1>1. \A c \in Clients : ~Activating(c)'
  BY DEF ApplyFree, Activating
<1> QED
  BY <1>1, LoadedFacts DEF CoreTyped, CoreRuns

(* So does one that is given a new configuration, if it was up.            *)
LEMMA RegeneratedCore ==
  ASSUME mem \in States, core' = Regenerated(mem'), mem' \in States, ApplyFree'
  PROVE  CoreTyped' /\ CoreRuns' /\ core'.serves \in {Active(mem'), NoLink}
<1>1. CASE core.up
  BY <1>1, LoadedCore DEF Regenerated
<1>2. CASE ~core.up
  BY <1>2, StoppedCore DEF Regenerated
<1> QED
  BY <1>1, <1>2

(* Routes were saved that the core was not given.                          *)
LEMMA StaleCore ==
  ASSUME MachineTyped, CoreRuns, core' = [core EXCEPT !.stale = core.up],
         mem' \in States, Follows(mem, mem')
  PROVE  CoreTyped' /\ CoreRuns' /\ core'.serves = core.serves
<1>1. core \in Cores /\ (~core.up => core = Down)
  BY DEF MachineTyped, CoreTyped
<1>2. core = [up |-> core.up, serves |-> core.serves, fixed |-> core.fixed, stale |-> core.stale]
  BY <1>1 DEF Cores
<1>3. core' = [up |-> core.up, serves |-> core.serves, fixed |-> core.fixed, stale |-> core.up]
  BY <1>2
<1>4. /\ core'.up = core.up /\ core'.serves = core.serves /\ core'.stale = core.up
      /\ core' \in Cores
  BY <1>1, <1>3 DEF Cores
<1>5. ASSUME ~core.up PROVE core' = Down
  <2>1. core = Down
    BY <1>1, <1>5
  <2>2. core' = [up |-> Down.up, serves |-> Down.serves, fixed |-> Down.fixed, stale |-> Down.up]
    BY <1>3, <2>1
  <2> QED
    BY <2>2 DEF Down
<1>6. mem'.active # 0 => mem.active # 0 /\ Active(mem') = Active(mem)
  BY DEF Follows
<1> QED
  BY <1>4, <1>5, <1>6 DEF CoreTyped, CoreRuns

(* Who activates, and from what, is the same after the step: no thread     *)
(* moves, or one that neither activated nor does so now.                   *)
SameActivation ==
  \A d \in Clients :
    (Activating(d)' <=> Activating(d)) /\ (Activating(d) => thread'[d].before = thread[d].before)
OnlyMoves(c) == \A d \in Clients : d # c => thread'[d] = thread[d]

(* One thread that neither activates nor begins to changes nothing.        *)
LEMMA QuietThread ==
  ASSUME NEW c \in Clients, OnlyMoves(c), ~Activating(c), thread'[c].op # "activating"
  PROVE  SameActivation
BY DEF SameActivation, OnlyMoves, Activating

(* The core is left alone: the profile it serves stays or goes, and no     *)
(* pinned server dies or comes back.                                       *)
LEMMA KeptCore ==
  ASSUME MachineTyped, CoreRuns, core' = core, thread' = thread \/ SameActivation,
         mem' \in States, Follows(mem, mem'), mem'.pinned = mem.pinned,
         InForce(mem) \cap mem'.dead = InForce(mem) \cap mem.dead
  PROVE  CoreTyped' /\ CoreRuns' /\ core'.serves = core.serves
<1>1. CoreTyped'
  BY DEF MachineTyped, CoreTyped
<1>2. ASSUME core'.up, mem'.active # 0
      PROVE  /\ core.up /\ mem.active # 0 /\ Active(mem') = Active(mem)
             /\ \A dead : Routes(mem', dead) = Routes(mem, dead)
             /\ Routes(mem', mem'.dead) = Routes(mem, mem.dead)
  <2>1. core.up /\ mem.active # 0 /\ Active(mem') = Active(mem)
    BY <1>2 DEF Follows
  <2>2. ActiveServers(mem') = ActiveServers(mem)
    BY <2>1 DEF ActiveServers
  <2> QED
    BY <2>1, <2>2 DEF Routes, InForce
<1>3. /\ ApplyFree' <=> ApplyFree
      /\ \A c \in Clients : /\ Activating(c)' <=> Activating(c)
                            /\ Activating(c) => thread'[c].before = thread[c].before
  <2>1. SameActivation
    BY DEF SameActivation, Activating
  <2> QED
    BY <2>1 DEF ApplyFree, Activating, SameActivation
<1>4. CoreRuns'
  <2>1. ASSUME core'.up, mem'.active # 0
        PROVE  /\ core'.serves = Active(mem')
               /\ ~core'.stale => /\ ApplyFree' => core'.fixed = Routes(mem', mem'.dead)
                                  /\ \A c \in Clients : Activating(c)' =>
                                      core'.fixed = Routes(mem', thread'[c].before)
    <3>1. /\ core.up /\ mem.active # 0 /\ Active(mem') = Active(mem)
          /\ Routes(mem', mem'.dead) = Routes(mem, mem.dead)
      BY <1>2, <2>1
    <3>2. ASSUME NEW c \in Clients PROVE Routes(mem', thread'[c].before) = Routes(mem, thread'[c].before)
      BY <1>2, <2>1
    <3>3. /\ core.serves = Active(mem)
          /\ ~core.stale => /\ ApplyFree => core.fixed = Routes(mem, mem.dead)
                            /\ \A c \in Clients : Activating(c) => core.fixed = Routes(mem, thread[c].before)
      BY <3>1 DEF CoreRuns
    <3>4. ASSUME ~core.stale, NEW c \in Clients, Activating(c)'
          PROVE  core'.fixed = Routes(mem', thread'[c].before)
      <4>1. Activating(c) /\ thread'[c].before = thread[c].before
        BY <1>3, <3>4
      <4> QED
        BY <3>2, <3>3, <3>4, <4>1
    <3> QED
      BY <1>3, <3>1, <3>3, <3>4
  <2> QED
    BY <2>1 DEF CoreRuns
<1> QED
  BY <1>1, <1>4

(* What follows the state in memory is a change of the store.              *)
LEMMA ChangedStore ==
  ASSUME mem \in States, NEW m \in States, Follows(mem, m)
  PROVE  Store!Changed(StoreOf(m))
<1>1. /\ StoreOf(m).profiles \subseteq Store!Profiles /\ Store!WellFormed(StoreOf(m))
      /\ StoreOf(m).active = Active(m) /\ StoreOf(mem).active = Active(mem)
      /\ Store!RawsIn(StoreOf(m)) = RawsOf(m.list)
  BY StoreWellFormed
<1>2. /\ mem.active = 0 <=> Active(mem) = NoLink
      /\ m.active = 0 <=> Active(m) = NoLink
  BY ActiveFacts
<1> QED
  BY <1>1, <1>2 DEF Store!Changed, Follows

(* A change with the core left alone, ...                                  *)
LEMMA KeptStep ==
  ASSUME ProfilesInv, NEW m \in States, Follows(mem, m), Commit(m),
         m.pinned = mem.pinned, mem.pinned \cap m.dead = mem.pinned \cap mem.dead,
         core' = core, thread' = thread \/ SameActivation, undo' \in {undo, Pushed(undo, mem)}
  PROVE  MachineStep
<1>1. MachineTyped /\ CoreRuns
  BY DEF ProfilesInv
<1>2. /\ mem' = m /\ mem' \in States /\ disk' \in States
      /\ StoreOf(disk') \in {StoreOf(disk), StoreOf(mem')}
  BY <1>1, CommitFacts
<1>3. CoreTyped' /\ CoreRuns' /\ core'.serves = core.serves
  BY <1>1, <1>2, KeptCore DEF InForce
<1>4. MachineTyped' /\ StoreStep
  BY <1>1, <1>2, <1>3, ChangeStep
<1> QED
  BY <1>3, <1>4 DEF MachineStep

(* ... and one that stops it.                                              *)
LEMMA StoppedStep ==
  ASSUME ProfilesInv, NEW m \in States, Follows(mem, m), Commit(m),
         core' = Down, undo' \in {undo, Pushed(undo, mem)}
  PROVE  MachineStep
<1>1. MachineTyped /\ mem \in States
  BY DEF ProfilesInv, MachineTyped
<1>2. /\ mem' = m /\ mem' \in States /\ disk' \in States
      /\ StoreOf(disk') \in {StoreOf(disk), StoreOf(mem')}
  BY <1>1, CommitFacts
<1>3. CoreTyped' /\ CoreRuns' /\ core'.serves = NoLink
  BY <1>1, StoppedCore
<1>4. MachineTyped' /\ StoreStep
  BY <1>1, <1>2, <1>3, ChangeStep
<1> QED
  BY <1>3, <1>4 DEF MachineStep

(* A save that fails may leave what it tried to save.                      *)
LEMMA RefusedStep ==
  ASSUME ProfilesInv, NEW m \in States, Follows(mem, m), disk' \in {disk, m},
         mem' = mem, undo' = undo, core' = core
  PROVE  MachineTyped' /\ StoreStep
<1>1. MachineTyped /\ mem \in States
  BY DEF ProfilesInv, MachineTyped
<1>2. MachineTyped'
  BY <1>1 DEF MachineTyped, UndoTyped, CoreTyped
<1>3. CASE disk' = disk
  BY <1>2, <1>3 DEF StoreStep, Store!vars, StoreOf, Active
<1>4. CASE disk' = m
  <2>1. Store!Changed(StoreOf(disk'))
    BY <1>1, <1>4, ChangedStore
  <2> QED
    BY <1>2, <2>1 DEF StoreStep, Store!Next, Store!Refuse
<1> QED
  BY <1>2, <1>3, <1>4

(* The core alone is left, or stopped by a change it does not take.        *)
LEMMA SameCore ==
  ASSUME MachineTyped, CoreRuns, core' = core, thread' = thread \/ SameActivation, mem' = mem
  PROVE  CoreTyped' /\ CoreRuns'
<1>1. mem' \in States /\ Follows(mem, mem')
  BY DEF MachineTyped, Follows
<1> QED
  BY <1>1, KeptCore

(* A core that does not take a change runs on as before or stops.          *)
LEMMA FailedApply ==
  ASSUME ProfilesInv, mem' = mem, disk' = disk, undo' = undo, core' \in {core, Down},
         thread' = thread \/ SameActivation
  PROVE  MachineStep
<1>1. MachineTyped /\ mem \in States /\ disk \in States /\ UndoTyped /\ CoreRuns
  BY DEF ProfilesInv, MachineTyped
<1>2. CASE core' = core
  <2>1. MachineTyped'
    BY <1>1, <1>2 DEF MachineTyped, UndoTyped, CoreTyped
  <2>2. CoreRuns'
    BY <1>1, <1>2, SameCore
  <2>3. UNCHANGED Store!vars
    BY <1>2 DEF Store!vars, StoreOf, Active
  <2> QED
    BY <2>1, <2>2, <2>3 DEF MachineStep, StoreStep
<1>3. CASE core' = Down
  <2>1. CoreTyped' /\ CoreRuns' /\ core'.serves = NoLink
    BY <1>1, <1>3, StoppedCore
  <2>2. MachineTyped'
    BY <1>1, <2>1 DEF MachineTyped, UndoTyped
  <2>3. Store!Serve
    BY <2>1 DEF Store!Serve, Store!Saving, StoreOf, Active
  <2> QED
    BY <2>1, <2>2, <2>3 DEF MachineStep, StoreStep, Store!Next
<1> QED
  BY <1>2, <1>3

-----------------------------------------------------------------------------
(* The handlers that take only the state lock.                             *)

(* handle_profile_add: a new link at the end moves no other profile.       *)
LEMMA AddProfileStep ==
  ASSUME ProfilesInv, NEW l \in Links, NEW g \in Groups, AddProfile(l, g)
  PROVE  MachineStep
<1> DEFINE p == [raw |-> l, group |-> g]
           list == Append(mem.list, p)
           n == [mem EXCEPT !.list = list]
<1>1. mem \in States /\ mem.list \in Lists /\ mem.subs \subseteq Sources /\ Len(mem.list) \in Nat
  BY StateFields DEF ProfilesInv, MachineTyped
<1>2. /\ l \notin RawsOf(mem.list) /\ Commit(n)
      /\ thread' = thread /\ undo' = undo /\ core' = core
  BY DEF AddProfile, Quiet
<1>3. p \in Profiles /\ p.raw = l
  BY DEF Profiles
<1> HIDE DEF p
<1>4. /\ list \in Lists /\ Len(list) = Len(mem.list) + 1
      /\ \A k \in 1..Len(mem.list) : list[k] = mem.list[k]
  BY <1>1, <1>2, <1>3, GrownList
<1> HIDE DEF list
<1>5. /\ Shaped(n) /\ n.list = list /\ n.active = mem.active
      /\ n.dead = mem.dead /\ n.pinned = mem.pinned /\ n.subs = mem.subs
  BY <1>1, EditedFields
<1> HIDE DEF n
<1>6. n \in States /\ Follows(mem, n)
  <2>1. Len(mem.list) <= Len(list) /\ \A k \in 1..Len(mem.list) : list[k].raw = mem.list[k].raw
    BY <1>1, <1>4
  <2> QED
    BY <1>1, <1>4, <1>5, <2>1, GrownState
<1> QED
  BY <1>2, <1>5, <1>6, KeptStep

(* handle_import: known links keep their place, new ones go to the end.    *)
LEMMA ImportSubscriptionStep ==
  ASSUME ProfilesInv, NEW u \in Sources, ImportSubscription(u)
  PROVE  MachineStep
<1>1. mem \in States /\ mem.list \in Lists /\ mem.subs \subseteq Sources /\ Len(mem.list) \in Nat
  BY StateFields DEF ProfilesInv, MachineTyped
<1>2. PICK links \in Delivered[u] \cup {<<>>}, adopt \in BOOLEAN :
        LET known == IF adopt THEN Adopted(mem.list, links, u) ELSE mem.list
        IN  Commit([mem EXCEPT !.list = Appended(known, links, u), !.subs = @ \cup {u}])
  BY DEF ImportSubscription
<1> DEFINE known == IF adopt THEN Adopted(mem.list, links, u) ELSE mem.list
           list == Appended(known, links, u)
           n == [mem EXCEPT !.list = list, !.subs = mem.subs \cup {u}]
<1>3. Commit(n) /\ thread' = thread /\ undo' = undo /\ core' = core
  BY <1>2 DEF ImportSubscription, Quiet
<1>4. links \in Seq(Links) /\ u \in Groups
  BY ProfilesAssumption, EmptySeq DEF Groups
<1>5. /\ known \in Lists /\ Len(known) = Len(mem.list)
      /\ \A k \in 1..Len(mem.list) : known[k].raw = mem.list[k].raw
  BY <1>1, <1>4, AdoptedList
<1> HIDE DEF known
<1>6. list \in Lists /\ Len(known) <= Len(list) /\ \A k \in 1..Len(known) : list[k] = known[k]
  BY <1>4, <1>5, AppendedList
<1> HIDE DEF list
<1>7. /\ Shaped(n) /\ n.list = list /\ n.active = mem.active
      /\ n.dead = mem.dead /\ n.pinned = mem.pinned /\ n.subs = mem.subs \cup {u}
  <2>1. mem = [list |-> mem.list, active |-> mem.active, dead |-> mem.dead, pinned |-> mem.pinned,
               subs |-> mem.subs]
    BY <1>1, EditedFields DEF Shaped
  <2>2. n = [mem EXCEPT !.list = list, !.subs = mem.subs \cup {u}]
    OBVIOUS
  <2> HIDE DEF n
  <2>3. n = [list |-> list, active |-> mem.active, dead |-> mem.dead, pinned |-> mem.pinned,
             subs |-> mem.subs \cup {u}]
    BY <2>1, <2>2
  <2> QED
    BY <2>3 DEF Shaped
<1> HIDE DEF n
<1>8. n \in States /\ Follows(mem, n)
  <2>1. /\ Len(mem.list) <= Len(list) /\ mem.subs \cup {u} \subseteq Sources
        /\ \A k \in 1..Len(mem.list) : list[k].raw = mem.list[k].raw
    BY <1>1, <1>5, <1>6
  <2> QED
    BY <1>1, <1>6, <1>7, <2>1, GrownState
<1> QED
  BY <1>3, <1>7, <1>8, KeptStep

(* handle_profile_delete: the active id shifts with its profile, and the   *)
(* core stops if that is the one deleted.                                  *)
LEMMA DeleteProfileStep ==
  ASSUME ProfilesInv, NEW i \in DOMAIN mem.list, DeleteProfile(i)
  PROVE  MachineStep
<1> DEFINE n == WithoutProfile(mem, i)
<1>1. mem \in States /\ i \in 1..Len(mem.list)
  BY StateFields DEF ProfilesInv, MachineTyped
<1>2. /\ NonePinned(mem, {i}) /\ Commit(n) /\ undo' = Pushed(undo, mem)
      /\ core' = (IF mem.active = i THEN Down ELSE core) /\ thread' = thread
  BY DEF DeleteProfile, Quiet
<1> HIDE DEF n
<1>3. n \in States /\ Follows(mem, n) /\ n.pinned = mem.pinned /\ n.dead = mem.dead
  BY <1>1, <1>2, DeletedState DEF n
<1>4. CASE mem.active = i
  BY <1>2, <1>3, <1>4, StoppedStep
<1>5. CASE mem.active # i
  BY <1>2, <1>3, <1>5, KeptStep
<1> QED
  BY <1>4, <1>5

(* Entries purged from Dead Servers are of servers that are gone, so no    *)
(* fixed route comes back to life.                                         *)
LEMMA PurgeGoneStep ==
  ASSUME ProfilesInv, PurgeGone
  PROVE  MachineStep
<1>1. /\ mem \in States /\ mem.dead \subseteq Servers /\ mem.subs \subseteq Sources
      /\ mem.pinned \subseteq Present(mem)
  BY StateFields DEF ProfilesInv, MachineTyped
<1>2. PICK old \in SUBSET (mem.dead \ Present(mem)) : Commit([mem EXCEPT !.dead = mem.dead \ old])
  BY DEF PurgeGone
<1> DEFINE n == [mem EXCEPT !.dead = mem.dead \ old]
<1>3. Commit(n) /\ thread' = thread /\ undo' = undo /\ core' = core
  BY <1>2 DEF PurgeGone, Quiet
<1>4. /\ Shaped(n) /\ n.list = mem.list /\ n.active = mem.active
      /\ n.dead = mem.dead \ old /\ n.pinned = mem.pinned /\ n.subs = mem.subs
  BY <1>1, EditedFields
<1> HIDE DEF n
<1>5. n \in States /\ Follows(mem, n)
  <2>1. mem.dead \ old \subseteq Servers
    BY <1>1
  <2> QED
    BY <1>1, <1>4, <2>1, OtherFields
<1>6. mem.pinned \cap n.dead = mem.pinned \cap mem.dead
  BY <1>1, <1>4
<1> QED
  BY <1>3, <1>4, <1>5, <1>6, KeptStep

(* handle_undo_restore: an earlier state comes back, and the core stops.   *)
LEMMA UndoRestoreStep ==
  ASSUME ProfilesInv, NEW k \in DOMAIN undo, UndoRestore(k)
  PROVE  MachineStep
<1>1. /\ MachineTyped /\ mem \in States /\ undo \in Seq(States)
      /\ Len(undo) <= MaxUndo /\ MaxUndo \in Nat
  BY ProfilesAssumption DEF ProfilesInv, MachineTyped, UndoTyped
<1>2. /\ undo' = RemoveAt(undo, k) /\ Quiet
      /\ \/ Commit(undo[k]) /\ core' = Down
         \/ mem' = mem /\ disk' = disk /\ core' = core
  BY DEF UndoRestore
<1>3. /\ DOMAIN undo = 1..Len(undo) /\ Len(undo) \in Nat /\ k \in 1..Len(undo)
      /\ undo[k] \in States
  BY <1>1, LenProperties, ElementOfSeq
<1>4. /\ undo' \in Seq(States) /\ Len(undo') = Len(undo) - 1
      /\ \A j \in 1..(Len(undo) - 1) : undo'[j] = IF j < k THEN undo[j] ELSE undo[j + 1]
  BY <1>1, <1>2, <1>3, RemoveAtProperties
<1>5. DOMAIN undo' = 1..(Len(undo) - 1)
  BY <1>4, LenProperties
<1>6. \A j \in DOMAIN undo' : \E i \in DOMAIN undo : undo'[j] = undo[i]
  BY <1>3, <1>4, <1>5
<1>7. UndoTyped'
  BY <1>1, <1>3, <1>4 DEF UndoTyped
<1>8. {StoreOf(undo'[j]) : j \in DOMAIN undo'} \subseteq {StoreOf(undo[j]) : j \in DOMAIN undo}
  BY <1>6
<1>9. CASE Commit(undo[k]) /\ core' = Down
  <2>1. /\ mem' = undo[k] /\ mem' \in States /\ disk' \in States
        /\ StoreOf(disk') \in {StoreOf(disk), StoreOf(mem')}
    BY <1>1, <1>3, <1>9, CommitFacts
  <2>2. CoreTyped' /\ CoreRuns' /\ core'.serves = NoLink
    BY <1>1, <1>9, StoppedCore
  <2>3. StoreOf(mem') \in {StoreOf(undo[j]) : j \in DOMAIN undo}
    BY <2>1
  <2>4. Store!Undo
    BY <1>8, <2>1, <2>2, <2>3 DEF Store!Undo, Store!Saving
  <2> QED
    BY <1>7, <2>1, <2>2, <2>4 DEF MachineStep, MachineTyped, StoreStep, Store!Next
<1>10. CASE mem' = mem /\ disk' = disk /\ core' = core
  <2>1. CoreRuns' /\ CoreTyped'
    BY <1>1, <1>2, <1>10, SameCore DEF Quiet, ProfilesInv
  <2>2. /\ StoreOf(mem) \in Store!Stores /\ Store!WellFormed(StoreOf(mem))
        /\ StoreOf(mem).active = Active(mem)
    BY <1>1, StoreWellFormed
  <2>3. Store!Change
    BY <1>8, <1>10, <2>2
       DEF Store!Change, Store!Changed, Store!Saving, Store!Keeping, Store!Stores, Store!WellFormed,
           Store!RawsIn, StoreOf
  <2> QED
    BY <1>1, <1>7, <1>10, <2>1, <2>3 DEF MachineStep, MachineTyped, StoreStep, Store!Next
<1> QED
  BY <1>2, <1>9, <1>10

-----------------------------------------------------------------------------
(* The handlers under the apply lock.                                      *)

(* Selection: the core serves what is chosen, or the choice is not made.   *)
LEMMA SelectProfileStep ==
  ASSUME ProfilesInv, NEW i \in DOMAIN mem.list, SelectProfile(i)
  PROVE  MachineStep
<1> DEFINE m == [mem EXCEPT !.active = i]
           l == mem.list[i].raw
<1>1. /\ MachineTyped /\ mem \in States /\ UndoTyped /\ i \in 1..Len(mem.list)
      /\ mem.list \in Lists /\ mem.pinned \subseteq Present(mem) /\ Len(mem.list) \in Nat
      /\ mem.dead \subseteq Servers /\ mem.subs \subseteq Sources
  BY StateFields DEF ProfilesInv, MachineTyped
<1>2. ApplyFree /\ Apply(m, Loaded(m)) /\ thread' = thread /\ undo' = undo
  BY DEF SelectProfile, Quiet
<1>3. /\ Shaped(m) /\ m.list = mem.list /\ m.active = i
      /\ m.dead = mem.dead /\ m.pinned = mem.pinned /\ m.subs = mem.subs
  BY <1>1, EditedFields
<1> HIDE DEF m
<1>4. m \in States
  <2>1. i \in 0..Len(mem.list)
    BY <1>1
  <2> QED
    BY <1>1, <1>3, <2>1, StateMade DEF Shaped, Present
<1>5. Active(m) = l /\ l \in RawsOf(mem.list) /\ l \in Links
  <2>1. i # 0
    BY <1>1
  <2> QED
    BY <1>3, <1>4, <2>1, ActiveFacts
<1> HIDE DEF l
<1>6. CASE mem' = m /\ disk' = m /\ core' = Loaded(m)
  <2>1. ApplyFree'
    BY <1>2 DEF ApplyFree
  <2>2. CoreTyped' /\ CoreRuns' /\ core'.serves = l
    BY <1>4, <1>5, <1>6, <2>1, LoadedCore
  <2>3. MachineTyped'
    BY <1>1, <1>2, <1>4, <1>6, <2>2 DEF MachineTyped, UndoTyped
  <2>4. Store!Choose(l)
    <3>1. l \in Store!RawsIn(StoreOf(mem))
      BY <1>1, <1>5, StoreWellFormed
    <3>2. StoreOf(mem') = [StoreOf(mem) EXCEPT !.active = l]
      BY <1>3, <1>5, <1>6 DEF StoreOf
    <3>3. {StoreOf(undo[k]) : k \in DOMAIN undo}' = {StoreOf(undo[k]) : k \in DOMAIN undo}
      BY <1>2 DEF StoreOf, Active
    <3> QED
      BY <1>6, <2>2, <3>1, <3>2, <3>3 DEF Store!Choose, Store!Saving
  <2> QED
    BY <1>5, <2>2, <2>3, <2>4 DEF MachineStep, StoreStep, Store!Next
<1>7. CASE core' \in {core, Down} /\ mem' = mem /\ disk' = disk
  BY <1>2, <1>7, FailedApply
<1> QED
  BY <1>2, <1>6, <1>7 DEF Apply

(* Other fixed routes say nothing of the store.                            *)
LEMMA RoutedState ==
  ASSUME mem \in States, NEW pinned, pinned \subseteq Present(mem)
  PROVE  LET m == [mem EXCEPT !.pinned = pinned]
         IN  m \in States /\ Follows(mem, m) /\ m.pinned = pinned
<1> DEFINE m == [mem EXCEPT !.pinned = pinned]
<1>1. /\ mem.list \in Lists /\ mem.active \in 0..Len(mem.list)
      /\ mem.dead \subseteq Servers /\ mem.subs \subseteq Sources
  BY StateFields
<1>2. /\ Shaped(m) /\ m.list = mem.list /\ m.active = mem.active
      /\ m.dead = mem.dead /\ m.pinned = pinned /\ m.subs = mem.subs
  BY EditedFields
<1> HIDE DEF m
<1>3. m \in States
  BY <1>1, <1>2, StateMade DEF Shaped, Present
<1>4. Follows(mem, m)
  BY <1>2 DEF Follows, Active
<1> QED
  BY <1>2, <1>3, <1>4 DEF m

(* Routes saved without being applied leave the core behind, and it says   *)
(* so.                                                                     *)
LEMMA SaveRoutesStep ==
  ASSUME ProfilesInv, NEW pinned \in SUBSET Servers, SaveRoutes(pinned)
  PROVE  MachineStep
<1> DEFINE m == [mem EXCEPT !.pinned = pinned]
<1>1. MachineTyped /\ mem \in States /\ CoreRuns
  BY DEF ProfilesInv, MachineTyped
<1>2. /\ pinned # mem.pinned /\ pinned \subseteq Present(mem)
      /\ Transact(m, Pushed(undo, mem)) /\ thread' = thread
      /\ core' = IF mem' = mem THEN core ELSE [core EXCEPT !.stale = core.up]
  BY DEF SaveRoutes, Quiet
<1>3. m \in States /\ Follows(mem, m) /\ m.pinned = pinned
  BY <1>1, <1>2, RoutedState
<1> HIDE DEF m
<1>4. CASE mem' = m /\ undo' = Pushed(undo, mem) /\ disk' = m
  <2>1. core' = [core EXCEPT !.stale = core.up]
    BY <1>2, <1>3, <1>4
  <2>2. CoreTyped' /\ CoreRuns' /\ core'.serves = core.serves
    BY <1>1, <1>3, <1>4, <2>1, StaleCore
  <2>3. MachineTyped' /\ StoreStep
    BY <1>1, <1>3, <1>4, <2>2, ChangeStep
  <2> QED
    BY <2>2, <2>3 DEF MachineStep
<1>5. CASE disk' \in {disk, m} /\ mem' = mem /\ undo' = undo
  <2>1. core' = core
    BY <1>2, <1>5
  <2>2. CoreRuns'
    BY <1>1, <1>2, <1>5, <2>1, SameCore
  <2>3. MachineTyped' /\ StoreStep
    BY <1>3, <1>5, <2>1, RefusedStep
  <2> QED
    BY <2>2, <2>3 DEF MachineStep
<1> QED
  BY <1>2, <1>4, <1>5 DEF Transact

(* Routes the core takes are in force; releases it does not take are       *)
(* saved.                                                                  *)
LEMMA ChangeRoutesStep ==
  ASSUME ProfilesInv, NEW pinned \in SUBSET Servers, ChangeRoutes(pinned)
  PROVE  MachineStep
<1> DEFINE m == [mem EXCEPT !.pinned = pinned]
           taken == Apply(m, Regenerated(m)) /\ undo' = IF mem' = mem THEN undo ELSE Pushed(undo, mem)
           pending == /\ mem' = m /\ disk' = m /\ undo' = Pushed(undo, mem)
                      /\ core' \in {[core EXCEPT !.stale = core.up], Down}
<1>1. MachineTyped /\ mem \in States /\ CoreRuns
  BY DEF ProfilesInv, MachineTyped
<1>2. ApplyFree /\ thread' = thread /\ (taken \/ pending)
  BY DEF ChangeRoutes, Quiet
<1>3. pinned \subseteq Present(mem)
  BY DEF ChangeRoutes
<1>4. m \in States /\ Follows(mem, m)
  BY <1>1, <1>3, RoutedState
<1>5. ApplyFree'
  BY <1>2 DEF ApplyFree
<1> HIDE DEF m
<1>6. CASE taken
  <2>1. undo' \in {undo, Pushed(undo, mem)}
    BY <1>6
  <2>2. CASE mem' = m /\ disk' = m /\ core' = Regenerated(m)
    <3>1. CoreTyped' /\ CoreRuns' /\ core'.serves \in {Active(mem'), NoLink}
      BY <1>1, <1>4, <1>5, <2>2, RegeneratedCore
    <3>2. MachineTyped' /\ StoreStep
      BY <1>1, <1>4, <2>1, <2>2, <3>1, ChangeStep
    <3> QED
      BY <3>1, <3>2 DEF MachineStep
  <2>3. CASE core' \in {core, Down} /\ mem' = mem /\ disk' = disk
    <3>1. undo' = undo
      BY <1>6, <2>3
    <3> QED
      BY <1>2, <2>3, <3>1, FailedApply
  <2> QED
    BY <1>6, <2>2, <2>3 DEF Apply
<1>7. CASE pending
  <2>1. CoreTyped' /\ CoreRuns' /\ core'.serves \in {core.serves, NoLink}
    <3>1. CASE core' = [core EXCEPT !.stale = core.up]
      BY <1>1, <1>4, <1>7, <3>1, StaleCore
    <3>2. CASE core' = Down
      BY <1>1, <3>2, StoppedCore
    <3> QED
      BY <1>7, <3>1, <3>2
  <2>2. MachineTyped' /\ StoreStep
    BY <1>1, <1>4, <1>7, <2>1, ChangeStep
  <2> QED
    BY <2>1, <2>2 DEF MachineStep
<1> QED
  BY <1>2, <1>6, <1>7

(* Moving a server along in a set: other servers stay in or out.           *)
LEMMA MovedFacts ==
  ASSUME NEW set, NEW old, NEW new
  PROVE  /\ Moved(set, old, new) \subseteq set \cup {new}
         /\ old \notin set => Moved(set, old, new) = set
         /\ \A s : s # new /\ s # old => (s \in Moved(set, old, new) <=> s \in set)
         /\ old \in Moved(set, old, new) => old = new
BY DEF Moved

(* The state after an edit: one link is exchanged.                         *)
LEMMA EditedState ==
  ASSUME mem \in States, NEW i \in 1..Len(mem.list), NEW raw \in Links,
         raw # mem.list[i].raw, MayEdit(i, raw)
  PROVE  LET m == Edited(mem, i, raw)
             old == mem.list[i].raw
         IN  /\ m \in States /\ raw \notin RawsOf(mem.list)
             /\ m.active = mem.active /\ Len(m.list) = Len(mem.list)
             /\ \A k \in 1..Len(mem.list) :
                  m.list[k] = IF k = i THEN [mem.list[i] EXCEPT !.raw = raw] ELSE mem.list[k]
             /\ ServerAt(mem, i) \notin mem.pinned =>
                  m.pinned = mem.pinned /\ mem.pinned \cap m.dead = mem.pinned \cap mem.dead
<1> DEFINE m == Edited(mem, i, raw)
           list == [mem.list EXCEPT ![i].raw = raw]
           old == ServerAt(mem, i)
           new == ServerOf[raw]
           dead == Moved(mem.dead, old, new)
           pinned == Moved(mem.pinned, old, new)
<1>1. /\ mem.list \in Lists /\ Distinct(mem.list) /\ DOMAIN mem.list = 1..Len(mem.list)
      /\ mem.active \in 0..Len(mem.list) /\ mem.pinned \subseteq Present(mem)
      /\ mem.dead \subseteq Servers /\ mem.subs \subseteq Sources /\ Len(mem.list) \in Nat
  BY StateFields DEF Lists
<1>2. /\ RawsOf(mem.list) = {mem.list[k].raw : k \in 1..Len(mem.list)}
      /\ Present(mem) = {ServerAt(mem, k) : k \in 1..Len(mem.list)}
  BY ActiveFacts
<1>3. \A k \in 1..Len(mem.list) : k # i => ServerAt(mem, k) # new /\ mem.list[k].raw # raw
  BY <1>1 DEF MayEdit, ServerAt
<1>4. raw \notin RawsOf(mem.list)
  BY <1>2, <1>3
<1>5. /\ list \in Lists /\ Len(list) = Len(mem.list)
      /\ RawsOf(list) = (RawsOf(mem.list) \ {mem.list[i].raw}) \cup {raw}
      /\ \A k \in 1..Len(mem.list) :
           list[k] = IF k = i THEN [mem.list[i] EXCEPT !.raw = raw] ELSE mem.list[k]
  BY <1>1, <1>4, ExchangedList
<1>6. m = [mem EXCEPT !.list = list, !.dead = dead, !.pinned = pinned]
  BY DEF Edited
<1>7. new \in Servers
  BY DEF Servers
<1> HIDE DEF m, list, new, old, dead, pinned
<1>8. mem = [list |-> mem.list, active |-> mem.active, dead |-> mem.dead, pinned |-> mem.pinned,
             subs |-> mem.subs]
  BY EditedFields DEF Shaped
<1>9. m = [list |-> list, active |-> mem.active, dead |-> dead, pinned |-> pinned, subs |-> mem.subs]
  BY <1>6, <1>8
<1>10. /\ Shaped(m) /\ m.list = list /\ m.active = mem.active /\ m.dead = dead
       /\ m.pinned = pinned /\ m.subs = mem.subs
  BY <1>9 DEF Shaped
<1>11. dead \subseteq Servers
  BY <1>1, <1>7, MovedFacts DEF dead
<1>12. pinned \subseteq {ServerOf[l] : l \in RawsOf(list)}
  <2> SUFFICES ASSUME NEW s \in pinned
               PROVE  \E l \in RawsOf(list) : s = ServerOf[l]
    OBVIOUS
  <2>1. CASE s = new
    BY <1>5, <2>1 DEF new
  <2>2. CASE s # new
    <3>1. s # old /\ s \in mem.pinned
      BY <2>2, MovedFacts DEF pinned
    <3>2. PICK k \in 1..Len(mem.list) : s = ServerAt(mem, k)
      BY <1>1, <1>2, <3>1
    <3>3. k # i
      BY <3>1, <3>2 DEF old
    <3>4. mem.list[k].raw \in RawsOf(list)
      <4>1. mem.list[k].raw # mem.list[i].raw
        BY <1>1, <3>3 DEF Distinct
      <4> QED
        BY <1>2, <1>5, <4>1
    <3> QED
      BY <3>2, <3>4 DEF ServerAt
  <2> QED
    BY <2>1, <2>2
<1>13. m \in States
  BY <1>1, <1>5, <1>10, <1>11, <1>12, StateMade DEF Shaped
<1>14. ASSUME old \notin mem.pinned
       PROVE  pinned = mem.pinned /\ mem.pinned \cap dead = mem.pinned \cap mem.dead
  <2>1. pinned = mem.pinned
    BY <1>14, MovedFacts DEF pinned
  <2>2. new \notin mem.pinned
    <3> SUFFICES ASSUME new \in mem.pinned PROVE FALSE
      OBVIOUS
    <3>1. PICK k \in 1..Len(mem.list) : new = ServerAt(mem, k)
      BY <1>1, <1>2
    <3>2. k = i
      BY <1>3, <3>1
    <3> QED
      BY <1>14, <3>1, <3>2 DEF old
  <2>3. \A s \in mem.pinned : s \in dead <=> s \in mem.dead
    <3>1. \A s \in mem.pinned : s # new /\ s # old
      BY <1>14, <2>2
    <3> QED
      BY <3>1, MovedFacts DEF dead
  <2> QED
    BY <2>1, <2>3
<1>15. ServerAt(mem, i) = old
  BY DEF old
<1> QED
  BY <1>4, <1>5, <1>10, <1>13, <1>14, <1>15 DEF m

(* As the store sees it.                                                   *)
LEMMA EditExchanges ==
  ASSUME mem \in States, NEW m \in States, NEW i \in 1..Len(mem.list), NEW raw \in Links,
         raw \notin RawsOf(mem.list), m.active = mem.active, Len(m.list) = Len(mem.list),
         \A k \in 1..Len(mem.list) :
           m.list[k] = IF k = i THEN [mem.list[i] EXCEPT !.raw = raw] ELSE mem.list[k]
  PROVE  /\ \E p \in StoreOf(mem).profiles :
              /\ p.raw = mem.list[i].raw
              /\ StoreOf(m) =
                   [profiles |-> (StoreOf(mem).profiles \ {p}) \cup {[p EXCEPT !.raw = raw]},
                    active |-> IF StoreOf(mem).active = mem.list[i].raw THEN raw ELSE StoreOf(mem).active]
         /\ mem.list[i].raw \in Links
         /\ Active(mem) = mem.list[i].raw <=> mem.active = i
         /\ mem.active = i => Active(m) = raw
         /\ mem.active # i => Active(m) = Active(mem)
<1> DEFINE p == mem.list[i]
           q == [p EXCEPT !.raw = raw]
<1>1. /\ mem.list \in Seq(Profiles) /\ m.list \in Seq(Profiles) /\ Distinct(mem.list)
      /\ Len(mem.list) \in Nat /\ mem.active \in 0..Len(mem.list)
  BY StateFields DEF Lists
<1>2. /\ ToSet(mem.list) = {mem.list[k] : k \in 1..Len(mem.list)}
      /\ ToSet(m.list) = {m.list[k] : k \in 1..Len(mem.list)}
      /\ \A k \in 1..Len(mem.list) : mem.list[k] \in Profiles /\ mem.list[k].raw \in Links
  BY <1>1, ListElements
<1>3. p \in Profiles /\ q.raw = raw /\ p.raw = mem.list[i].raw /\ m.list[i] = q
  BY <1>2 DEF Profiles
<1>4. \A k \in 1..Len(mem.list) : k # i => m.list[k] = mem.list[k] /\ mem.list[k] # p
  BY <1>1 DEF Distinct
<1>5. p \in ToSet(mem.list)
  BY <1>2
<1> HIDE DEF p, q
<1>6. ToSet(m.list) = (ToSet(mem.list) \ {p}) \cup {q}
  <2>1. ToSet(m.list) \subseteq (ToSet(mem.list) \ {p}) \cup {q}
    BY <1>2, <1>3, <1>4
  <2>2. q \in ToSet(m.list)
    BY <1>2, <1>3
  <2>3. ASSUME NEW k \in 1..Len(mem.list), mem.list[k] # p
        PROVE  mem.list[k] \in ToSet(m.list)
    BY <1>2, <1>4, <2>3 DEF p
  <2> QED
    BY <1>2, <2>1, <2>2, <2>3
<1>7. Active(mem) = mem.list[i].raw <=> mem.active = i
  <2>1. mem.list[i].raw # NoLink
    BY <1>2, ProfilesAssumption
  <2>2. i # 0
    BY <1>1
  <2>3. CASE mem.active = 0
    BY <2>1, <2>2, <2>3, ActiveFacts
  <2>4. CASE mem.active # 0
    <3>1. mem.active \in 1..Len(mem.list) /\ Active(mem) = mem.list[mem.active].raw
      BY <1>1, <2>4, ActiveFacts
    <3> QED
      BY <1>1, <3>1 DEF Distinct
  <2> QED
    BY <2>3, <2>4
<1>8. mem.active = i => Active(m) = raw
  <2>1. mem.active = i => m.active = i /\ i # 0
    BY <1>1
  <2> QED
    BY <1>3, <2>1, ActiveFacts
<1>9. mem.active # i => Active(m) = Active(mem)
  <2>1. CASE mem.active = 0
    BY <2>1 DEF Active
  <2>2. CASE mem.active # 0
    <3>1. mem.active \in 1..Len(mem.list)
      BY <1>1, <2>2
    <3> QED
      BY <1>4, <2>2, <3>1 DEF Active
  <2> QED
    BY <2>1, <2>2
<1>10. StoreOf(m) = [profiles |-> (StoreOf(mem).profiles \ {p}) \cup {q},
                     active |-> IF StoreOf(mem).active = mem.list[i].raw THEN raw
                                ELSE StoreOf(mem).active]
  <2>1. StoreOf(m) = [profiles |-> ToSet(m.list), active |-> Active(m)]
    BY DEF StoreOf
  <2>2. StoreOf(mem).profiles = ToSet(mem.list) /\ StoreOf(mem).active = Active(mem)
    BY DEF StoreOf
  <2>3. Active(m) = IF Active(mem) = mem.list[i].raw THEN raw ELSE Active(mem)
    BY <1>7, <1>8, <1>9
  <2> QED
    BY <1>6, <2>1, <2>2, <2>3
<1>11. p \in StoreOf(mem).profiles
  BY <1>5 DEF StoreOf
<1> QED
  BY <1>2, <1>3, <1>7, <1>8, <1>9, <1>10, <1>11 DEF p, q

(* handle_profile_update: a core that serves or routes to the edited       *)
(* profile is given the new link, any other is not concerned.              *)
LEMMA EditProfileStep ==
  ASSUME ProfilesInv, NEW i \in DOMAIN mem.list, NEW raw \in Links, EditProfile(i, raw)
  PROVE  MachineStep
<1> DEFINE m == Edited(mem, i, raw)
           old == mem.list[i].raw
           concerned == mem.active # 0 /\ (mem.active = i \/ ServerAt(mem, i) \in mem.pinned)
           started == IF concerned THEN Regenerated(m) ELSE core
<1>1. MachineTyped /\ mem \in States /\ UndoTyped /\ CoreTyped /\ CoreRuns /\ i \in 1..Len(mem.list)
  BY StateFields DEF ProfilesInv, MachineTyped
<1>2. /\ ApplyFree /\ raw # old /\ MayEdit(i, raw) /\ Apply(m, started)
      /\ thread' = thread /\ undo' = undo
  BY DEF EditProfile, Quiet
<1>3. /\ m \in States /\ raw \notin RawsOf(mem.list)
      /\ m.active = mem.active /\ Len(m.list) = Len(mem.list)
      /\ \A k \in 1..Len(mem.list) :
           m.list[k] = IF k = i THEN [mem.list[i] EXCEPT !.raw = raw] ELSE mem.list[k]
      /\ ServerAt(mem, i) \notin mem.pinned =>
           m.pinned = mem.pinned /\ mem.pinned \cap m.dead = mem.pinned \cap mem.dead
  BY <1>1, <1>2, EditedState
<1> HIDE DEF m
<1>4. /\ \E p \in StoreOf(mem).profiles :
           /\ p.raw = old
           /\ StoreOf(m) =
                [profiles |-> (StoreOf(mem).profiles \ {p}) \cup {[p EXCEPT !.raw = raw]},
                 active |-> IF StoreOf(mem).active = old THEN raw ELSE StoreOf(mem).active]
      /\ old \in Links /\ (Active(mem) = old <=> mem.active = i)
      /\ (mem.active = i => Active(m) = raw) /\ (mem.active # i => Active(m) = Active(mem))
  BY <1>1, <1>3, EditExchanges
<1> HIDE DEF old
<1>5. ApplyFree'
  BY <1>2 DEF ApplyFree
<1>6. CASE mem' = m /\ disk' = m /\ core' = started
  <2>1. /\ CoreTyped' /\ CoreRuns' /\ core'.serves \in {core.serves, Active(m)}
        /\ Active(mem) = old /\ core.serves = old => core'.serves = raw
    <3>1. CASE concerned
      <4>1. CoreTyped' /\ CoreRuns' /\ core'.serves \in {Active(mem'), NoLink}
        BY <1>1, <1>3, <1>5, <1>6, <3>1, RegeneratedCore
      <4>2. CASE core.up
        <5>1. core' = Loaded(m)
          BY <1>6, <3>1, <4>2 DEF Regenerated
        <5>2. core'.serves = Active(m)
          BY <1>3, <5>1, LoadedFacts
        <5> QED
          BY <1>4, <4>1, <5>2
      <4>3. CASE ~core.up
        <5>1. core' = core /\ core = Down
          BY <1>1, <1>6, <3>1, <4>3 DEF Regenerated, CoreTyped
        <5>2. core.serves # old
          BY <1>1, <1>4, <5>1, LoadedFacts, ProfilesAssumption
        <5> QED
          BY <4>1, <5>1, <5>2
      <4> QED
        BY <4>2, <4>3
    <3>2. CASE ~concerned
      <4>1. core' = core
        BY <1>6, <3>2
      <4>2. CASE mem.active = 0
        <5>1. CoreTyped' /\ CoreRuns'
          BY <1>1, <1>3, <1>6, <4>1, <4>2 DEF CoreTyped, CoreRuns
        <5>2. Active(mem) # old
          BY <1>1, <1>4, <4>2, ActiveFacts, ProfilesAssumption
        <5> QED
          BY <4>1, <5>1, <5>2
      <4>3. CASE mem.active # 0
        <5>1. mem.active # i /\ ServerAt(mem, i) \notin mem.pinned
          BY <3>2, <4>3
        <5>2. Follows(mem, m)
          BY <1>3, <1>4, <4>3, <5>1 DEF Follows
        <5>3. CoreTyped' /\ CoreRuns' /\ core'.serves = core.serves
          BY <1>1, <1>2, <1>3, <1>6, <4>1, <5>1, <5>2, KeptCore DEF InForce
        <5> QED
          BY <1>4, <5>1, <5>3
      <4> QED
        BY <4>2, <4>3
    <3> QED
      BY <3>1, <3>2
  <2>2. MachineTyped'
    BY <1>1, <1>2, <1>3, <1>6, <2>1 DEF MachineTyped, UndoTyped
  <2>3. Store!Exchange(old, raw)
    <3>1. Store!RawsIn(StoreOf(mem)) = RawsOf(mem.list)
      BY <1>1, StoreWellFormed
    <3>2. {StoreOf(undo[k]) : k \in DOMAIN undo}' = {StoreOf(undo[k]) : k \in DOMAIN undo}
      BY <1>2 DEF StoreOf, Active
    <3>3. StoreOf(mem).active = Active(mem) /\ StoreOf(mem').active = Active(m)
      BY <1>6 DEF StoreOf
    <3> QED
      BY <1>3, <1>4, <1>6, <2>1, <3>1, <3>2, <3>3 DEF Store!Exchange, Store!Saving
  <2> QED
    BY <1>4, <2>1, <2>2, <2>3 DEF MachineStep, StoreStep, Store!Next
<1>7. CASE core' \in {core, Down} /\ mem' = mem /\ disk' = disk
  BY <1>2, <1>7, FailedApply
<1> QED
  BY <1>2, <1>6, <1>7 DEF Apply

(* What is left when some positions are removed or given new profiles.     *)
LEMMA RemainingState ==
  ASSUME mem \in States, NEW I \in SUBSET DOMAIN mem.list, NonePinned(mem, DOMAIN mem.list \ I)
  PROVE  LET m == Reindexed(mem, Kept(mem.list, I))
         IN  /\ m \in States /\ Follows(mem, m) /\ m.dead = mem.dead
             /\ m.pinned = mem.pinned /\ m.subs = mem.subs
<1> DEFINE list == Kept(mem.list, I)
<1>1. /\ mem.list \in Lists /\ DOMAIN mem.list = 1..Len(mem.list)
      /\ mem.pinned \subseteq Present(mem)
  BY StateFields
<1>2. list \in Lists /\ RawsOf(list) = {mem.list[i].raw : i \in I}
  BY <1>1, KeptList
<1> HIDE DEF list
<1>3. mem.pinned \subseteq {ServerOf[l] : l \in RawsOf(list)}
  <2> SUFFICES ASSUME NEW s \in mem.pinned
               PROVE  \E l \in RawsOf(list) : s = ServerOf[l]
    OBVIOUS
  <2>1. PICK k \in 1..Len(mem.list) : s = ServerAt(mem, k)
    BY <1>1, ActiveFacts
  <2>2. k \in I
    BY <1>1, <2>1 DEF NonePinned
  <2> QED
    BY <1>2, <2>1, <2>2 DEF ServerAt
<1> QED
  BY <1>2, <1>3, ReindexedState DEF list

(* A group without its profiles and subscription.                          *)
LEMMA GroupDeleted ==
  ASSUME mem \in States, NEW g, NonePinned(mem, InGroup(mem, g))
  PROVE  LET m == [Reindexed(mem, WithoutGroup(mem.list, g)) EXCEPT !.subs = @ \ {g}]
         IN  m \in States /\ Follows(mem, m) /\ m.dead = mem.dead /\ m.pinned = mem.pinned
<1> DEFINE I == {i \in DOMAIN mem.list : mem.list[i].group # g}
           n == Reindexed(mem, WithoutGroup(mem.list, g))
           m == [n EXCEPT !.subs = n.subs \ {g}]
<1>1. I \in SUBSET DOMAIN mem.list /\ DOMAIN mem.list \ I = InGroup(mem, g)
  BY DEF InGroup
<1>2. n = Reindexed(mem, Kept(mem.list, I))
  BY DEF WithoutGroup
<1> HIDE DEF I, n
<1>3. n \in States /\ Follows(mem, n) /\ n.dead = mem.dead /\ n.pinned = mem.pinned /\ n.subs = mem.subs
  BY <1>1, <1>2, RemainingState
<1>4. /\ Shaped(m) /\ m.list = n.list /\ m.active = n.active
      /\ m.dead = n.dead /\ m.pinned = n.pinned /\ m.subs = n.subs \ {g}
  BY <1>3, EditedFields
<1> HIDE DEF m
<1>5. m \in States /\ Active(m) = Active(n)
  <2>1. m.dead \subseteq Servers /\ m.subs \subseteq Sources
    BY <1>3, <1>4, StateFields
  <2> QED
    BY <1>3, <1>4, <2>1, OtherFields
<1>6. Follows(mem, m)
  BY <1>3, <1>4, <1>5 DEF Follows
<1> QED
  BY <1>3, <1>4, <1>5, <1>6 DEF m, n

(* Deletion of a group: the active profile is found again by its link.     *)
LEMMA DeleteGroupStep ==
  ASSUME ProfilesInv, NEW g \in Groups, DeleteGroup(g)
  PROVE  MachineStep
<1> DEFINE m == [Reindexed(mem, WithoutGroup(mem.list, g)) EXCEPT !.subs = @ \ {g}]
<1>1. mem \in States
  BY DEF ProfilesInv, MachineTyped
<1>2. /\ NonePinned(mem, InGroup(mem, g)) /\ Commit(m) /\ undo' = Pushed(undo, mem)
      /\ core' = (IF mem.active # 0 /\ m.active = 0 THEN Down ELSE core) /\ thread' = thread
  BY DEF DeleteGroup, Quiet
<1>3. m \in States /\ Follows(mem, m) /\ m.dead = mem.dead /\ m.pinned = mem.pinned
  BY <1>1, <1>2, GroupDeleted
<1> HIDE DEF m
<1>4. CASE core' = Down
  BY <1>2, <1>3, <1>4, StoppedStep
<1>5. CASE core' = core
  BY <1>2, <1>3, <1>5, KeptStep
<1> QED
  BY <1>2, <1>4, <1>5

(* Deletion of a subscription likewise.                                    *)
LEMMA DeleteSubscriptionStep ==
  ASSUME ProfilesInv, NEW u \in Sources, DeleteSubscription(u)
  PROVE  MachineStep
<1> DEFINE m == [Reindexed(mem, WithoutGroup(mem.list, u)) EXCEPT !.subs = @ \ {u}]
<1>1. mem \in States
  BY DEF ProfilesInv, MachineTyped
<1>2. /\ NonePinned(mem, InGroup(mem, u)) /\ Commit(m) /\ undo' = Pushed(undo, mem)
      /\ core' = (IF m.active = 0 THEN Down ELSE core) /\ thread' = thread
  BY DEF DeleteSubscription, Quiet
<1>3. m \in States /\ Follows(mem, m) /\ m.dead = mem.dead /\ m.pinned = mem.pinned
  BY <1>1, <1>2, GroupDeleted
<1> HIDE DEF m
<1>4. CASE core' = Down
  BY <1>2, <1>3, <1>4, StoppedStep
<1>5. CASE core' = core
  BY <1>2, <1>3, <1>5, KeptStep
<1> QED
  BY <1>2, <1>4, <1>5

(* Clearing Dead Servers removes no server of a fixed route, so the core's *)
(* routes stay what they are.                                              *)
LEMMA ClearTrashStep ==
  ASSUME ProfilesInv, ClearTrash
  PROVE  MachineStep
<1> DEFINE lost == {i \in DOMAIN mem.list : ServerAt(mem, i) \in mem.dead}
           n == Reindexed(mem, Kept(mem.list, DOMAIN mem.list \ lost))
           m == [n EXCEPT !.dead = {}]
<1>1. /\ MachineTyped /\ CoreRuns /\ mem \in States /\ mem.pinned \subseteq Present(mem)
      /\ DOMAIN mem.list = 1..Len(mem.list)
  BY StateFields DEF ProfilesInv, MachineTyped
<1>2. /\ NonePinned(mem, lost) /\ Transact(m, Pushed(undo, mem))
      /\ thread' = thread /\ core' = core
  BY DEF ClearTrash, Quiet
<1>3. mem.pinned \cap mem.dead = {}
  <2> SUFFICES ASSUME NEW s \in mem.pinned, s \in mem.dead PROVE FALSE
    OBVIOUS
  <2>1. PICK k \in 1..Len(mem.list) : s = ServerAt(mem, k)
    BY <1>1, ActiveFacts
  <2>2. k \in lost
    BY <1>1, <2>1
  <2> QED
    BY <1>2, <2>1, <2>2 DEF NonePinned
<1>4. /\ DOMAIN mem.list \ lost \in SUBSET DOMAIN mem.list
      /\ DOMAIN mem.list \ (DOMAIN mem.list \ lost) = lost
  OBVIOUS
<1> HIDE DEF lost
<1>5. n \in States /\ Follows(mem, n) /\ n.pinned = mem.pinned /\ n.subs = mem.subs
  <2>1. NonePinned(mem, DOMAIN mem.list \ (DOMAIN mem.list \ lost))
    BY <1>2, <1>4
  <2> QED
    BY <1>1, <1>4, <2>1, RemainingState
<1> HIDE DEF n
<1>6. /\ Shaped(m) /\ m.list = n.list /\ m.active = n.active
      /\ m.dead = {} /\ m.pinned = n.pinned /\ m.subs = n.subs
  BY <1>5, EditedFields
<1> HIDE DEF m
<1>7. m \in States /\ Active(m) = Active(n)
  <2>1. m.dead \subseteq Servers /\ m.subs \subseteq Sources
    BY <1>5, <1>6, StateFields
  <2> QED
    BY <1>5, <1>6, <2>1, OtherFields
<1>8. Follows(mem, m) /\ m.pinned = mem.pinned /\ mem.pinned \cap m.dead = mem.pinned \cap mem.dead
  BY <1>3, <1>5, <1>6, <1>7 DEF Follows
<1>9. CASE mem' = m /\ undo' = Pushed(undo, mem) /\ disk' = m /\ UNCHANGED faults
  <2>1. Commit(m)
    BY <1>9 DEF Commit
  <2> QED
    BY <1>2, <1>7, <1>8, <1>9, <2>1, KeptStep
<1>10. CASE disk' \in {disk, m} /\ mem' = mem /\ undo' = undo
  <2>1. CoreRuns'
    BY <1>1, <1>2, <1>10, SameCore
  <2>2. MachineTyped' /\ StoreStep
    BY <1>2, <1>7, <1>8, <1>10, RefusedStep
  <2> QED
    BY <2>1, <2>2 DEF MachineStep
<1> QED
  BY <1>2, <1>9, <1>10 DEF Transact

-----------------------------------------------------------------------------
(* Dead Servers.                                                           *)

(* The membership is changed, and the change is left to be activated.      *)
LEMMA ChangeMembershipStep ==
  ASSUME ProfilesInv, NEW c \in Clients, NEW dead \in SUBSET Servers,
         NEW next \in {"idle", "promote"}, ApplyFree,
         ChangeMembership(c, dead, next), core' = core, undo' = undo
  PROVE  MachineStep
<1> DEFINE changed == (dead \ mem.dead) \cup (mem.dead \ dead)
           m == [mem EXCEPT !.dead = dead]
           done == [thread EXCEPT ![c] = [thread[c] EXCEPT !.op = next, !.next = "idle"]]
           begun == [thread EXCEPT ![c] = [thread[c] EXCEPT !.op = "activating", !.next = next, !.before = mem.dead]]
<1>1. /\ MachineTyped /\ CoreRuns /\ mem \in States /\ disk \in States
      /\ thread \in [Clients -> Threads] /\ mem.subs \subseteq Sources
  BY StateFields DEF ProfilesInv, MachineTyped, ThreadsTyped
<1>2. /\ Shaped(m) /\ m.list = mem.list /\ m.active = mem.active
      /\ m.dead = dead /\ m.pinned = mem.pinned /\ m.subs = mem.subs
  BY <1>1, EditedFields
<1> HIDE DEF m
<1>3. m \in States /\ Follows(mem, m) /\ Active(m) = Active(mem)
  BY <1>1, <1>2, OtherFields
<1>4. ~Activating(c)
  BY DEF ApplyFree, Activating
<1>5. ASSUME thread' = done
      PROVE  SameActivation
  <2>1. OnlyMoves(c) /\ thread'[c].op = next
    BY <1>1, <1>5 DEF OnlyMoves, Threads
  <2> QED
    BY <1>4, <2>1, QuietThread
<1>6. CASE /\ changed = {} /\ thread' = done /\ mem' = mem /\ disk' = disk
  BY <1>5, <1>6, FailedApply
<1>7. CASE /\ changed # {} /\ mem' = m /\ disk' = m
           /\ thread' = IF AffectsCore(changed) THEN begun ELSE done
  <2>1. ASSUME core.up, mem.active # 0, changed \cap InForce(mem) # {}
        PROVE  CoreTyped' /\ CoreRuns'
    <3>1. thread' = begun
      BY <1>7, <2>1 DEF AffectsCore
    <3>2. /\ \A d \in Clients : d # c => ~Activating(d)'
          /\ thread'[c].op = "activating" /\ thread'[c].before = mem.dead
      BY <1>1, <3>1 DEF ApplyFree, Activating, Threads
    <3>3. CoreTyped'
      BY <1>1 DEF MachineTyped, CoreTyped
    <3>4. /\ core.serves = Active(mem)
          /\ ~core.stale => core.fixed = Routes(mem, mem.dead)
      BY <1>1, <2>1 DEF CoreRuns
    <3>5. Routes(mem', mem.dead) = Routes(mem, mem.dead)
      BY <1>2, <1>3, <1>7 DEF Routes, InForce, ActiveServers
    <3>6. ~ApplyFree'
      BY <3>2 DEF ApplyFree
    <3>7. \A d \in Clients : Activating(d)' => thread'[d].before = mem.dead
      BY <3>2
    <3> QED
      BY <1>3, <1>7, <3>3, <3>4, <3>5, <3>6, <3>7 DEF CoreRuns
  <2>2. ASSUME ~(core.up /\ mem.active # 0)
        PROVE  CoreTyped' /\ CoreRuns'
    BY <1>1, <1>2, <1>7, <2>2 DEF MachineTyped, CoreTyped, CoreRuns
  <2>3. ASSUME changed \cap InForce(mem) = {}
        PROVE  CoreTyped' /\ CoreRuns'
    <3>1. thread' = done
      BY <1>7, <2>3 DEF AffectsCore
    <3>2. InForce(mem) \cap mem'.dead = InForce(mem) \cap mem.dead
      BY <1>2, <1>7, <2>3
    <3> QED
      BY <1>1, <1>2, <1>3, <1>5, <1>7, <3>1, <3>2, KeptCore
  <2>4. CoreTyped' /\ CoreRuns'
    BY <2>1, <2>2, <2>3
  <2>5. MachineTyped' /\ StoreStep
    BY <1>1, <1>3, <1>7, <2>4, ChangeStep
  <2> QED
    BY <2>4, <2>5 DEF MachineStep
<1>8. CASE /\ changed # {} /\ disk' \in {disk, m} /\ mem' = mem
           /\ thread' = [thread EXCEPT ![c] = Idle]
  <2>1. OnlyMoves(c) /\ thread'[c] = Idle
    BY <1>1, <1>8 DEF OnlyMoves
  <2>2. SameActivation
    BY <1>4, <2>1, QuietThread DEF Idle
  <2>3. CoreRuns'
    BY <1>1, <1>8, <2>2, SameCore
  <2>4. MachineTyped' /\ StoreStep
    BY <1>3, <1>8, RefusedStep
  <2> QED
    BY <2>3, <2>4 DEF MachineStep
<1>9. \/ /\ changed = {} /\ thread' = done /\ mem' = mem /\ disk' = disk
      \/ /\ changed # {} /\ mem' = m /\ disk' = m
         /\ thread' = IF AffectsCore(changed) THEN begun ELSE done
      \/ /\ changed # {} /\ disk' \in {disk, m} /\ mem' = mem
         /\ thread' = [thread EXCEPT ![c] = Idle]
  BY DEF ChangeMembership, m
<1> QED
  BY <1>6, <1>7, <1>8, <1>9

(* The activation brings the core to the new membership, or the membership *)
(* back to what the core runs by.                                          *)
LEMMA ActivateMembershipStep ==
  ASSUME ProfilesInv, NEW c \in Clients, ActivateMembership(c)
  PROVE  MachineStep
<1> DEFINE before == thread[c].before
           m == [mem EXCEPT !.dead = before]
<1>1. /\ MachineTyped /\ CoreRuns /\ mem \in States /\ disk \in States /\ UndoTyped /\ OneActivates
      /\ thread \in [Clients -> Threads] /\ mem.subs \subseteq Sources
  BY StateFields DEF ProfilesInv, MachineTyped, ThreadsTyped
<1>2. /\ Activating(c) /\ undo' = undo
      /\ \/ /\ core' = Regenerated(mem) /\ mem' = mem /\ disk' = disk
            /\ thread' = [thread EXCEPT ![c] = [thread[c] EXCEPT !.op = thread[c].next, !.next = "idle", !.before = {}]]
         \/ /\ core' \in {core, Down} /\ mem' = m /\ disk' = mem'
            /\ thread' = [thread EXCEPT ![c] = Idle]
  BY DEF ActivateMembership, Activating
<1>3. before \subseteq Servers /\ thread[c].next \in {"idle", "promote"}
  BY <1>1 DEF Threads
<1>4. \A d \in Clients : d # c => ~Activating(d)
  BY <1>1, <1>2 DEF OneActivates
<1>5. (\A d \in Clients : d # c => thread'[d] = thread[d]) /\ thread'[c].op # "activating"
  <2>1. CASE thread' = [thread EXCEPT ![c] = Idle]
    BY <1>1, <2>1 DEF Idle
  <2>2. CASE thread' = [thread EXCEPT ![c] = [thread[c] EXCEPT !.op = thread[c].next, !.next = "idle", !.before = {}]]
    <3>1. \A d \in Clients : d # c => thread'[d] = thread[d]
      BY <1>1, <2>2
    <3>2. thread'[c].op = thread[c].next
      BY <1>1, <2>2 DEF Threads
    <3> QED
      BY <1>3, <3>1, <3>2
  <2> QED
    BY <1>2, <2>1, <2>2
<1>6. ApplyFree' /\ \A d \in Clients : ~Activating(d)'
  BY <1>4, <1>5 DEF ApplyFree, Activating
<1>7. CASE core' = Regenerated(mem) /\ mem' = mem /\ disk' = disk
  <2>1. CoreTyped' /\ CoreRuns' /\ core'.serves \in {Active(mem), NoLink}
    BY <1>1, <1>6, <1>7, RegeneratedCore
  <2>2. MachineTyped'
    BY <1>1, <1>2, <1>7, <2>1 DEF MachineTyped, UndoTyped
  <2>3. Store!Serve
    BY <1>2, <1>7, <2>1 DEF Store!Serve, Store!Saving, StoreOf, Active
  <2> QED
    BY <2>1, <2>2, <2>3 DEF MachineStep, StoreStep, Store!Next
<1>8. CASE core' \in {core, Down} /\ mem' = m /\ disk' = mem'
  <2>1. /\ Shaped(m) /\ m.list = mem.list /\ m.active = mem.active
        /\ m.dead = before /\ m.pinned = mem.pinned /\ m.subs = mem.subs
    BY <1>1, EditedFields
  <2> HIDE DEF m
  <2>2. m \in States /\ Follows(mem, m) /\ Active(m) = Active(mem)
    BY <1>1, <1>3, <2>1, OtherFields
  <2>3. CoreTyped' /\ CoreRuns' /\ core'.serves \in {core.serves, NoLink}
    <3>1. CASE core' = core
      <4>1. CoreTyped'
        BY <1>1, <3>1 DEF MachineTyped, CoreTyped
      <4>2. ASSUME core.up, mem.active # 0
            PROVE  core.serves = Active(mem) /\ (~core.stale => core.fixed = Routes(mem, before))
        BY <1>1, <1>2, <4>2 DEF CoreRuns
      <4>3. Routes(mem', mem'.dead) = Routes(mem, before)
        BY <1>8, <2>1, <2>2 DEF Routes, InForce, ActiveServers
      <4> QED
        BY <1>6, <1>8, <2>1, <2>2, <3>1, <4>1, <4>2, <4>3 DEF CoreRuns
    <3>2. CASE core' = Down
      BY <1>1, <3>2, StoppedCore
    <3> QED
      BY <1>8, <3>1, <3>2
  <2>4. MachineTyped' /\ StoreStep
    BY <1>1, <1>2, <1>8, <2>2, <2>3, ChangeStep
  <2> QED
    BY <2>3, <2>4 DEF MachineStep
<1> QED
  BY <1>2, <1>7, <1>8

(* What may be moved is a server.                                          *)
LEMMA EligibleServers ==
  ASSUME mem \in States
  PROVE  Eligible \subseteq Servers /\ mem.dead \subseteq Servers
BY StateFields, ActiveFacts DEF Eligible

(* A server is moved to Dead Servers ...                                   *)
LEMMA MoveToTrashStep ==
  ASSUME ProfilesInv, NEW c \in Clients, NEW s \in Servers, MoveToTrash(c, s)
  PROVE  MachineStep
<1>1. mem.dead \cup {s} \in SUBSET Servers
  BY EligibleServers DEF ProfilesInv, MachineTyped
<1>2. ApplyFree /\ ChangeMembership(c, mem.dead \cup {s}, "idle") /\ core' = core /\ undo' = undo
  BY DEF MoveToTrash
<1> QED
  BY <1>1, <1>2, ChangeMembershipStep

(* ... or back ...                                                         *)
LEMMA RestoreFromTrashStep ==
  ASSUME ProfilesInv, NEW c \in Clients, NEW s \in Servers, RestoreFromTrash(c, s)
  PROVE  MachineStep
<1>1. mem.dead \ {s} \in SUBSET Servers
  BY EligibleServers DEF ProfilesInv, MachineTyped
<1>2. ApplyFree /\ ChangeMembership(c, mem.dead \ {s}, "idle") /\ core' = core /\ undo' = undo
  BY DEF RestoreFromTrash
<1> QED
  BY <1>1, <1>2, ChangeMembershipStep

(* ... or there by a benchmark it did not answer.                          *)
LEMMA MoveUnresponsiveStep ==
  ASSUME ProfilesInv, NEW c \in Clients, MoveUnresponsive(c)
  PROVE  MachineStep
<1> DEFINE dead == mem.dead \cup (thread[c].gone \cap Eligible)
<1>1. dead \in SUBSET Servers
  BY EligibleServers DEF ProfilesInv, MachineTyped
<1>2. ApplyFree /\ ChangeMembership(c, dead, "promote") /\ core' = core /\ undo' = undo
  BY DEF MoveUnresponsive
<1> HIDE DEF dead
<1> QED
  BY <1>1, <1>2, ChangeMembershipStep

-----------------------------------------------------------------------------
(* Refresh, the actions after a benchmark, the core and the machine.       *)

(* A list with the answer of a source in place of its group.               *)
LEMMA ReplacedState ==
  ASSUME mem \in States, NEW u \in Sources, NEW fresh \in Seq(Links), MayReplace(mem, u, fresh)
  PROVE  LET m == Replaced(mem, u, fresh)
         IN  m \in States /\ Follows(mem, m) /\ m.dead = mem.dead /\ m.pinned = mem.pinned
<1> DEFINE I == {i \in DOMAIN mem.list : mem.list[i].group # u}
           rest == Kept(mem.list, I)
           list == Appended(rest, fresh, u)
<1>1. /\ mem.list \in Lists /\ DOMAIN mem.list = 1..Len(mem.list)
      /\ mem.pinned \subseteq Present(mem) /\ u \in Groups
  BY StateFields DEF Groups
<1>2. rest \in Lists /\ RawsOf(rest) = {mem.list[i].raw : i \in I}
  BY <1>1, KeptList
<1>3. Replaced(mem, u, fresh) = Reindexed(mem, list)
  BY DEF Replaced, WithoutGroup
<1> HIDE DEF rest
<1>4. list \in Lists /\ RawsOf(list) = RawsOf(rest) \cup ToSet(fresh)
  BY <1>1, <1>2, AppendedList
<1> HIDE DEF list
<1>5. mem.pinned \subseteq {ServerOf[l] : l \in RawsOf(list)}
  <2> SUFFICES ASSUME NEW s \in mem.pinned
               PROVE  \E l \in RawsOf(list) : s = ServerOf[l]
    OBVIOUS
  <2>1. PICK k \in 1..Len(mem.list) : s = ServerAt(mem, k)
    BY <1>1, ActiveFacts
  <2>2. CASE k \in I
    BY <1>2, <1>4, <2>1, <2>2 DEF ServerAt
  <2>3. CASE k \notin I
    <3>1. k \in InGroup(mem, u)
      BY <1>1, <2>3 DEF InGroup
    <3>2. s \in {ServerOf[l] : l \in ToSet(fresh)}
      BY <2>1, <3>1 DEF MayReplace
    <3> QED
      BY <1>4, <3>2
  <2> QED
    BY <2>2, <2>3
<1> QED
  BY <1>3, <1>4, <1>5, ReindexedState

(* A refreshed source replaces its group only if it keeps the fixed        *)
(* routes.                                                                 *)
LEMMA RefreshSourceStep ==
  ASSUME ProfilesInv, NEW c \in Clients, NEW u \in Sources, RefreshSource(c, u)
  PROVE  MachineStep
<1>1. mem \in States /\ thread \in [Clients -> Threads]
  BY DEF ProfilesInv, MachineTyped, ThreadsTyped
<1>2. /\ thread[c].op = "refresh" /\ undo' = undo /\ core' = core
      /\ \/ \E fresh \in Delivered[u] : MayReplace(mem, u, fresh) /\ Commit(Replaced(mem, u, fresh))
         \/ mem' = mem /\ disk' = disk
  BY DEF RefreshSource
<1>3. SameActivation
  <2> DEFINE rest == thread[c].sources \ {u}
             t == IF rest = {} THEN Idle ELSE [thread[c] EXCEPT !.sources = rest]
  <2>1. thread' = [thread EXCEPT ![c] = t]
    BY Zenon DEF RefreshSource
  <2> HIDE DEF rest
  <2>2. t.op # "activating"
    BY <1>1, <1>2 DEF Idle, Threads
  <2> HIDE DEF t
  <2>3. OnlyMoves(c) /\ thread'[c] = t
    BY <1>1, <2>1 DEF OnlyMoves
  <2>4. ~Activating(c)
    BY <1>2 DEF Activating
  <2> QED
    BY <2>2, <2>3, <2>4, QuietThread
<1>4. ASSUME NEW fresh \in Delivered[u], MayReplace(mem, u, fresh), Commit(Replaced(mem, u, fresh))
      PROVE  MachineStep
  <2>1. fresh \in Seq(Links)
    BY ProfilesAssumption
  <2> DEFINE m == Replaced(mem, u, fresh)
  <2>2. m \in States /\ Follows(mem, m) /\ m.dead = mem.dead /\ m.pinned = mem.pinned
    BY <1>1, <1>4, <2>1, ReplacedState
  <2>3. Commit(m)
    BY <1>4
  <2> HIDE DEF m
  <2> QED
    BY <1>2, <1>3, <2>2, <2>3, KeptStep
<1>5. CASE mem' = mem /\ disk' = disk
  BY <1>2, <1>3, <1>5, FailedApply
<1> QED
  BY <1>2, <1>4, <1>5

(* The order by results moves profiles and loses none.                     *)
LEMMA PromoteSuccessfulStep ==
  ASSUME ProfilesInv, NEW c \in Clients, PromoteSuccessful(c)
  PROVE  MachineStep
<1> DEFINE list == Promoted(mem.list, thread[c].good \ mem.dead)
           m == Reindexed(mem, list)
<1>1. /\ MachineTyped /\ CoreRuns /\ mem \in States /\ mem.list \in Lists
      /\ mem.pinned \subseteq Present(mem) /\ thread \in [Clients -> Threads]
  BY StateFields DEF ProfilesInv, MachineTyped, ThreadsTyped
<1>2. /\ thread[c].op = "promote" /\ Transact(m, undo) /\ core' = core
      /\ thread' = [thread EXCEPT ![c] = Idle]
  BY DEF PromoteSuccessful
<1>3. SameActivation
  <2>1. OnlyMoves(c) /\ thread'[c] = Idle
    BY <1>1, <1>2 DEF OnlyMoves
  <2>2. ~Activating(c)
    BY <1>2 DEF Activating
  <2> QED
    BY <2>1, <2>2, QuietThread DEF Idle
<1>4. list \in Lists /\ RawsOf(list) = RawsOf(mem.list)
  BY <1>1, PromotedList
<1> HIDE DEF list
<1>5. m \in States /\ Follows(mem, m) /\ m.dead = mem.dead /\ m.pinned = mem.pinned
  <2>1. mem.pinned \subseteq {ServerOf[l] : l \in RawsOf(list)}
    BY <1>1, <1>4 DEF Present
  <2> QED
    BY <1>1, <1>4, <2>1, ReindexedState
<1> HIDE DEF m
<1>6. CASE mem' = m /\ undo' = undo /\ disk' = m /\ UNCHANGED faults
  <2>1. Commit(m)
    BY <1>6 DEF Commit
  <2> QED
    BY <1>2, <1>3, <1>5, <1>6, <2>1, KeptStep
<1>7. CASE disk' \in {disk, m} /\ mem' = mem /\ undo' = undo
  <2>1. CoreRuns'
    BY <1>1, <1>2, <1>3, <1>7, SameCore
  <2>2. MachineTyped' /\ StoreStep
    BY <1>2, <1>5, <1>7, RefusedStep
  <2> QED
    BY <2>1, <2>2 DEF MachineStep
<1> QED
  BY <1>2, <1>6, <1>7 DEF Transact

(* The watchdog starts the core on the state of the moment.                *)
LEMMA RestartCoreStep ==
  ASSUME ProfilesInv, RestartCore
  PROVE  MachineStep
<1>1. MachineTyped /\ mem \in States /\ disk \in States /\ UndoTyped
  BY DEF ProfilesInv, MachineTyped
<1>2. /\ ApplyFree /\ core' = Loaded(mem) /\ thread' = thread
      /\ mem' = mem /\ disk' = disk /\ undo' = undo
  BY DEF RestartCore, Quiet
<1>3. ApplyFree'
  BY <1>2 DEF ApplyFree
<1>4. CoreTyped' /\ CoreRuns' /\ core'.serves = Active(mem)
  BY <1>1, <1>2, <1>3, LoadedCore
<1>5. MachineTyped'
  BY <1>1, <1>2, <1>4 DEF MachineTyped, UndoTyped
<1>6. Store!Serve
  BY <1>2, <1>4 DEF Store!Serve, Store!Saving, StoreOf, Active
<1> QED
  BY <1>4, <1>5, <1>6 DEF MachineStep, StoreStep, Store!Next

(* A core that exits leaves the state as it is.                            *)
LEMMA CoreCrashStep ==
  ASSUME ProfilesInv, CoreCrash
  PROVE  MachineStep
BY FailedApply DEF CoreCrash, Quiet

(* A restart drops the active server from Dead Servers.                    *)
LEMMA ReconciledState ==
  ASSUME NEW m \in States
  PROVE  Reconciled(m) \in States /\ StoreOf(Reconciled(m)) = StoreOf(m)
<1> DEFINE dead == m.dead \ {ServerAt(m, m.active)}
           n == [m EXCEPT !.dead = dead]
<1>1. CASE m.active = 0
  BY <1>1 DEF Reconciled
<1>2. CASE m.active # 0
  <2>1. Reconciled(m) = n
    BY <1>2 DEF Reconciled
  <2>2. dead \subseteq Servers /\ m.subs \subseteq Sources
    BY StateFields
  <2> HIDE DEF dead
  <2>3. /\ Shaped(n) /\ n.list = m.list /\ n.active = m.active
        /\ n.dead = dead /\ n.pinned = m.pinned /\ n.subs = m.subs
    BY EditedFields
  <2> HIDE DEF n
  <2>4. n \in States /\ StoreOf(n) = StoreOf(m)
    BY <2>2, <2>3, OtherFields
  <2> QED
    BY <2>1, <2>4
<1> QED
  BY <1>1, <1>2

(* A restart reads the last state that was saved.                          *)
LEMMA RebootStep ==
  ASSUME ProfilesInv, Reboot
  PROVE  MachineStep
<1>1. mem \in States /\ disk \in States /\ MaxUndo \in Nat
  BY ProfilesAssumption DEF ProfilesInv, MachineTyped
<1>2. mem' = Reconciled(disk) /\ disk' = mem' /\ undo' = <<>> /\ core' = Down
  BY DEF Reboot
<1>3. mem' \in States /\ disk' \in States /\ StoreOf(mem') = StoreOf(disk)
  BY <1>1, <1>2, ReconciledState
<1>4. CoreTyped' /\ CoreRuns' /\ core'.serves = NoLink
  BY <1>1, <1>2, StoppedCore
<1>5. UndoTyped'
  <2>1. undo' \in Seq(States) /\ Len(undo') = 0
    BY <1>2, EmptySeq
  <2> QED
    BY <1>1, <2>1 DEF UndoTyped
<1>6. Store!Restart
  <2>1. {StoreOf(undo'[k]) : k \in DOMAIN undo'} = {}
    BY <1>2
  <2> QED
    BY <1>2, <1>3, <1>4, <2>1 DEF Store!Restart
<1> QED
  BY <1>3, <1>4, <1>5, <1>6 DEF MachineStep, MachineTyped, StoreStep, Store!Next

(* Refreshes that start, benchmarks and status answers leave profiles and  *)
(* core alone; a thread that begins or ends them activates nothing.        *)
LEMMA ReadingStep ==
  ASSUME ProfilesInv, NEW c \in Clients,
         \/ \E sources \in SUBSET Sources : StartRefresh(c, sources)
         \/ RunBenchmark(c) \/ ReadStatus(c) \/ AnswerStatus(c)
  PROVE  MachineStep
<1>1. thread \in [Clients -> Threads]
  BY DEF ProfilesInv, ThreadsTyped
<1>2. mem' = mem /\ disk' = disk /\ undo' = undo /\ core' = core
  BY DEF StartRefresh, RunBenchmark, ReadStatus, AnswerStatus
<1>3. \A sources, results, op, good, gone :
        /\ Idle.op = "idle"
        /\ [Idle EXCEPT !.op = "refresh", !.sources = sources].op = "refresh"
        /\ [Idle EXCEPT !.op = "status", !.results = results].op = "status"
        /\ [Idle EXCEPT !.op = op, !.good = good, !.gone = gone].op = op
  BY DEF Idle
<1>4. ASSUME NEW t, thread' = [thread EXCEPT ![c] = t], t.op # "activating",
             thread[c].op # "activating"
      PROVE  MachineStep
  <2>1. OnlyMoves(c) /\ thread'[c] = t
    BY <1>1, <1>4 DEF OnlyMoves
  <2>2. SameActivation
    BY <1>4, <2>1, QuietThread DEF Activating
  <2> QED
    BY <1>2, <2>2, FailedApply
<1>5. ASSUME NEW sources \in SUBSET Sources, StartRefresh(c, sources)
      PROVE  MachineStep
  <2> DEFINE t == [Idle EXCEPT !.op = "refresh", !.sources = sources]
  <2>1. thread' = [thread EXCEPT ![c] = t] /\ thread[c] = Idle
    BY <1>5 DEF StartRefresh
  <2>2. t.op = "refresh" /\ thread[c].op = "idle"
    BY <1>3, <2>1
  <2> HIDE DEF t
  <2> QED
    BY <1>4, <2>1, <2>2
<1>6. ASSUME RunBenchmark(c)
      PROVE  MachineStep
  <2>1. thread[c] = Idle
    BY <1>6 DEF RunBenchmark
  <2> DEFINE tested == {i \in DOMAIN mem.list : ServerAt(mem, i) \notin mem.dead}
  <2>2. PICK good \in tested \cup {0}, gone \in tested \cup {0}, op \in {"move", "idle"} :
          thread' = [thread EXCEPT ![c] = IF op = "idle" THEN Idle ELSE
                       [Idle EXCEPT !.op = op,
                          !.good = IF good = 0 THEN {} ELSE {ServerAt(mem, good)},
                          !.gone = IF gone = 0 THEN {} ELSE {ServerAt(mem, gone)}]]
    BY <1>6 DEF RunBenchmark
  <2> DEFINE t == IF op = "idle" THEN Idle ELSE
                    [Idle EXCEPT !.op = op,
                       !.good = IF good = 0 THEN {} ELSE {ServerAt(mem, good)},
                       !.gone = IF gone = 0 THEN {} ELSE {ServerAt(mem, gone)}]
  <2>3. thread' = [thread EXCEPT ![c] = t] /\ t.op # "activating" /\ thread[c].op = "idle"
    BY <1>3, <2>1, <2>2
  <2> HIDE DEF t
  <2> QED
    BY <1>4, <2>3
<1>7. ASSUME ReadStatus(c)
      PROVE  MachineStep
  <2> DEFINE t == [Idle EXCEPT !.op = "status", !.results = Remapped(mem, bench), !.due = Due]
  <2>1. thread' = [thread EXCEPT ![c] = t] /\ thread[c] = Idle
    BY <1>7 DEF ReadStatus
  <2>2. t.op = "status" /\ thread[c].op = "idle"
    BY <1>3, <2>1
  <2> HIDE DEF t
  <2> QED
    BY <1>4, <2>1, <2>2
<1>8. ASSUME AnswerStatus(c)
      PROVE  MachineStep
  <2>1. thread' = [thread EXCEPT ![c] = Idle] /\ thread[c].op = "status" /\ Idle.op = "idle"
    BY <1>3, <1>8 DEF AnswerStatus
  <2> QED
    BY <1>4, <2>1
<1> QED
  BY <1>5, <1>6, <1>7, <1>8

-----------------------------------------------------------------------------
(* The threads: at most one activates, and ids stay within the links.      *)

ThreadStep == ThreadsTyped' /\ OneActivates'

(* One thread goes on to t; only with the apply lock free may it activate. *)
LEMMA ThreadMoves ==
  ASSUME ProfilesInv, NEW c \in Clients, NEW t \in Threads, thread' = [thread EXCEPT ![c] = t],
         t.op # "activating" \/ ApplyFree,
         bench' \subseteq Results, measured' \subseteq Links, shown' \subseteq Results
  PROVE  ThreadStep
<1>1. thread \in [Clients -> Threads] /\ OneActivates
  BY DEF ProfilesInv, ThreadsTyped
<1>2. /\ thread' \in [Clients -> Threads] /\ thread'[c] = t
      /\ \A d \in Clients : d # c => thread'[d] = thread[d]
  BY <1>1
<1>3. OneActivates'
  <2>1. CASE t.op # "activating"
    BY <1>1, <1>2, <2>1 DEF OneActivates, Activating
  <2>2. CASE ApplyFree
    BY <1>2, <2>2 DEF ApplyFree, OneActivates, Activating
  <2> QED
    BY <2>1, <2>2
<1> QED
  BY <1>2, <1>3 DEF ThreadStep, ThreadsTyped

(* No thread moves.                                                        *)
LEMMA QuietStep ==
  ASSUME ProfilesInv, Quiet
  PROVE  ThreadStep
BY DEF ProfilesInv, Quiet, ThreadStep, ThreadsTyped, OneActivates, Activating

(* An idle thread is a thread.                                             *)
LEMMA IdleThread == Idle \in Threads /\ Idle.op = "idle"
BY DEF Idle, Threads, Ops

(* A result is given an id of the list, or keeps its own.                  *)
LEMMA NewIds ==
  ASSUME NEW m \in States, NEW r \in Results
  PROVE  /\ NewId(m, r) \in 1..Cardinality(Links)
         /\ NewId(m, r) \in 1..Len(m.list) \/ NewId(m, r) = r.id
<1> DEFINE same == {i \in DOMAIN m.list : ServerAt(m, i) = ServerOf[r.raw]}
           p == PositionOf(m.list, r.raw)
<1>1. /\ m.list \in Lists /\ m.list \in Seq(Profiles) /\ DOMAIN m.list = 1..Len(m.list)
      /\ Len(m.list) \in Nat
  BY StateFields
<1>2. Len(m.list) <= Cardinality(Links) /\ Cardinality(Links) \in Nat
  BY <1>1, ListBound, FS_CardinalityType, ProfilesAssumption
<1>3. r.id \in 1..Cardinality(Links)
  BY DEF Results
<1>4. p \in 0..Len(m.list) /\ (p # 0 <=> r.raw \in RawsOf(m.list))
  BY <1>1, PositionFound
<1>5. Cardinality(same) = 1 => (CHOOSE i \in same : TRUE) \in same
  BY FS_EmptySet
<1>6. same \subseteq 1..Len(m.list)
  BY <1>1
<1>7. NewId(m, r) = IF r.raw \in RawsOf(m.list) THEN p
                    ELSE IF Cardinality(same) = 1 THEN CHOOSE i \in same : TRUE ELSE r.id
  BY DEF NewId
<1> DEFINE one == CHOOSE i \in same : TRUE
<1>8. \/ r.raw \in RawsOf(m.list) /\ NewId(m, r) = p
      \/ Cardinality(same) = 1 /\ NewId(m, r) = one
      \/ NewId(m, r) = r.id
  BY <1>7
<1>9. Cardinality(same) = 1 => one \in 1..Len(m.list)
  BY <1>5, <1>6
<1> HIDE DEF p, same, one
<1>10. NewId(m, r) \in 1..Len(m.list) \/ NewId(m, r) = r.id
  BY <1>1, <1>4, <1>8, <1>9
<1> QED
  BY <1>1, <1>2, <1>3, <1>10

(* Results with the ids of now are results.                                *)
LEMMA RemappedResults ==
  ASSUME NEW m \in States, NEW results \in SUBSET Results
  PROVE  Remapped(m, results) \in SUBSET Results
<1> SUFFICES ASSUME NEW r \in results
             PROVE  [r EXCEPT !.id = NewId(m, r)] \in Results
  BY DEF Remapped
<1>1. r \in Results /\ NewId(m, r) \in 1..Cardinality(Links)
  BY NewIds
<1> QED
  BY <1>1 DEF Results

(* What an answer owes is at the places of the list.                       *)
LEMMA DuePlaces ==
  ASSUME ProfilesInv
  PROVE  /\ Due \in SUBSET Results
         /\ \A d \in Due : d.raw \in measured /\ d.id \in 1..Len(mem.list) /\ mem.list[d.id].raw = d.raw
<1>1. mem.list \in Lists /\ DOMAIN mem.list = 1..Len(mem.list) /\ Len(mem.list) \in Nat
  BY StateFields DEF ProfilesInv, MachineTyped
<1>2. Len(mem.list) <= Cardinality(Links) /\ Cardinality(Links) \in Nat
  BY <1>1, ListBound, FS_CardinalityType, ProfilesAssumption
<1>3. \A i \in DOMAIN mem.list : mem.list[i].raw \in Links /\ i \in 1..Cardinality(Links)
  <2>1. \A i \in 1..Len(mem.list) : mem.list[i].raw \in Links
    BY <1>1, ListElements DEF Lists
  <2> QED
    BY <1>1, <1>2, <2>1
<1> QED
  BY <1>1, <1>3 DEF Due, Results

(* A thread that changes Dead Servers activates the change, is done or     *)
(* gives up.                                                               *)
LEMMA ChangeMembershipThread ==
  ASSUME ProfilesInv, NEW c \in Clients, NEW dead, NEW next \in {"idle", "promote"}, ApplyFree,
         ChangeMembership(c, dead, next),
         bench' = bench, measured' = measured, shown' = shown
  PROVE  ThreadStep
<1>1. /\ mem.dead \subseteq Servers /\ thread \in [Clients -> Threads]
      /\ bench' \subseteq Results /\ measured' \subseteq Links /\ shown' \subseteq Results
  BY StateFields DEF ProfilesInv, MachineTyped, ThreadsTyped
<1>2. \/ thread' = [thread EXCEPT ![c] = [thread[c] EXCEPT !.op = next, !.next = "idle"]]
      \/ thread' = [thread EXCEPT ![c] = [thread[c] EXCEPT !.op = "activating", !.next = next, !.before = mem.dead]]
      \/ thread' = [thread EXCEPT ![c] = Idle]
  BY DEF ChangeMembership
<1> DEFINE old == thread[c]
<1>3. old \in Threads
  BY <1>1
<1>4. CASE thread' = [thread EXCEPT ![c] = [thread[c] EXCEPT !.op = next, !.next = "idle"]]
  <2> DEFINE t == [old EXCEPT !.op = next, !.next = "idle"]
  <2>1. thread' = [thread EXCEPT ![c] = t]
    BY <1>4
  <2>2. t \in Threads
    BY <1>3 DEF Threads, Ops
  <2> HIDE DEF t
  <2> QED
    BY <1>1, <2>1, <2>2, ThreadMoves
<1>5. CASE thread' = [thread EXCEPT ![c] = [thread[c] EXCEPT !.op = "activating", !.next = next, !.before = mem.dead]]
  <2> DEFINE t == [old EXCEPT !.op = "activating", !.next = next, !.before = mem.dead]
  <2>1. thread' = [thread EXCEPT ![c] = t]
    BY <1>5
  <2>2. t \in Threads
    BY <1>1, <1>3 DEF Threads, Ops
  <2> HIDE DEF t
  <2> QED
    BY <1>1, <2>1, <2>2, ThreadMoves
<1>6. CASE thread' = [thread EXCEPT ![c] = Idle]
  BY <1>1, <1>6, IdleThread, ThreadMoves
<1> QED
  BY <1>2, <1>4, <1>5, <1>6

(* The activating thread goes on or gives up.                              *)
LEMMA ActivateMembershipThread ==
  ASSUME ProfilesInv, NEW c \in Clients, ActivateMembership(c)
  PROVE  ThreadStep
<1>1. /\ thread \in [Clients -> Threads]
      /\ bench' \subseteq Results /\ measured' \subseteq Links /\ shown' \subseteq Results
  BY DEF ProfilesInv, ThreadsTyped, ActivateMembership
<1>2. \/ thread' = [thread EXCEPT ![c] = [thread[c] EXCEPT !.op = thread[c].next, !.next = "idle", !.before = {}]]
      \/ thread' = [thread EXCEPT ![c] = Idle]
  BY DEF ActivateMembership
<1> DEFINE old == thread[c]
           t == [old EXCEPT !.op = old.next, !.next = "idle", !.before = {}]
<1>3. old \in Threads
  BY <1>1
<1>4. CASE thread' = [thread EXCEPT ![c] = [thread[c] EXCEPT !.op = thread[c].next, !.next = "idle", !.before = {}]]
  <2>1. thread' = [thread EXCEPT ![c] = t]
    BY <1>4
  <2>2. t \in Threads /\ t.op # "activating"
    BY <1>3 DEF Threads, Ops
  <2> HIDE DEF t
  <2> QED
    BY <1>1, <2>1, <2>2, ThreadMoves
<1>5. CASE thread' = [thread EXCEPT ![c] = Idle]
  BY <1>1, <1>5, IdleThread, ThreadMoves
<1> QED
  BY <1>2, <1>4, <1>5

(* A refresh begins ...                                                    *)
LEMMA StartRefreshThread ==
  ASSUME ProfilesInv, NEW c \in Clients, NEW sources \in SUBSET Sources, StartRefresh(c, sources)
  PROVE  ThreadStep
<1> DEFINE t == [Idle EXCEPT !.op = "refresh", !.sources = sources]
<1>1. /\ thread' = [thread EXCEPT ![c] = t]
      /\ bench' \subseteq Results /\ measured' \subseteq Links /\ shown' \subseteq Results
  BY DEF StartRefresh, ProfilesInv, ThreadsTyped
<1>2. t \in Threads /\ t.op # "activating"
  BY DEF Idle, Threads, Ops
<1> HIDE DEF t
<1> QED
  BY <1>1, <1>2, ThreadMoves

(* ... and goes on to the next source.                                     *)
LEMMA RefreshSourceThread ==
  ASSUME ProfilesInv, NEW c \in Clients, NEW u \in Sources, RefreshSource(c, u)
  PROVE  ThreadStep
<1> DEFINE rest == thread[c].sources \ {u}
           t == IF rest = {} THEN Idle ELSE [thread[c] EXCEPT !.sources = rest]
<1>1. /\ thread[c] \in Threads /\ ApplyFree
      /\ bench' \subseteq Results /\ measured' \subseteq Links /\ shown' \subseteq Results
  BY DEF RefreshSource, ProfilesInv, ThreadsTyped
<1>2. thread' = [thread EXCEPT ![c] = t]
  BY Zenon DEF RefreshSource
<1>3. rest \subseteq Sources
  BY <1>1 DEF Threads
<1> HIDE DEF rest
<1>4. t \in Threads
  BY <1>1, <1>3, IdleThread DEF Threads
<1> HIDE DEF t
<1> QED
  BY <1>1, <1>2, <1>4, ThreadMoves

(* A benchmark names servers and positions of the list.                    *)
LEMMA RunBenchmarkThread ==
  ASSUME ProfilesInv, NEW c \in Clients, RunBenchmark(c)
  PROVE  ThreadStep
<1> DEFINE tested == {i \in DOMAIN mem.list : ServerAt(mem, i) \notin mem.dead}
<1>1. /\ mem \in States /\ mem.list \in Lists /\ DOMAIN mem.list = 1..Len(mem.list)
      /\ Len(mem.list) \in Nat /\ shown \subseteq Results
  BY StateFields DEF ProfilesInv, MachineTyped, ThreadsTyped
<1>2. Len(mem.list) <= Cardinality(Links) /\ Cardinality(Links) \in Nat
  BY <1>1, ListBound, FS_CardinalityType, ProfilesAssumption
<1>3. \A i \in tested : ServerAt(mem, i) \in Servers /\ i # 0
  BY <1>1, ActiveFacts
<1>4. bench' \subseteq Results /\ measured' \subseteq Links
  <2>1. \A i \in tested : mem.list[i].raw \in Links /\ i \in 1..Cardinality(Links)
    <3>1. \A i \in 1..Len(mem.list) : mem.list[i].raw \in Links
      BY <1>1, ListElements DEF Lists
    <3> QED
      BY <1>1, <1>2, <3>1
  <2>2. /\ bench' = {[raw |-> mem.list[i].raw, id |-> i] : i \in tested}
        /\ measured' = {mem.list[i].raw : i \in tested}
    BY DEF RunBenchmark
  <2> HIDE DEF tested
  <2> QED
    BY <2>1, <2>2 DEF Results
<1>5. shown' \subseteq Results
  BY <1>1 DEF RunBenchmark
<1>6. PICK good \in tested \cup {0}, gone \in tested \cup {0}, op \in {"move", "idle"} :
        thread' = [thread EXCEPT ![c] = IF op = "idle" THEN Idle ELSE
                     [Idle EXCEPT !.op = op,
                        !.good = IF good = 0 THEN {} ELSE {ServerAt(mem, good)},
                        !.gone = IF gone = 0 THEN {} ELSE {ServerAt(mem, gone)}]]
  BY DEF RunBenchmark
<1> DEFINE goods == IF good = 0 THEN {} ELSE {ServerAt(mem, good)}
           gones == IF gone = 0 THEN {} ELSE {ServerAt(mem, gone)}
           t == IF op = "idle" THEN Idle ELSE [Idle EXCEPT !.op = op, !.good = goods, !.gone = gones]
<1>7. thread' = [thread EXCEPT ![c] = t]
  BY <1>6
<1>8. goods \subseteq Servers /\ gones \subseteq Servers
  BY <1>3
<1> HIDE DEF goods, gones
<1>9. t \in Threads /\ t.op # "activating"
  BY <1>8 DEF Idle, Threads, Ops
<1> HIDE DEF t
<1> QED
  BY <1>4, <1>5, <1>7, <1>9, ThreadMoves

(* Its results are given the ids of the new order.                         *)
LEMMA PromoteSuccessfulThread ==
  ASSUME ProfilesInv, NEW c \in Clients, PromoteSuccessful(c), mem' \in States
  PROVE  ThreadStep
<1>1. thread' = [thread EXCEPT ![c] = Idle] /\ measured' = measured /\ shown' = shown
      /\ bench' = Remapped(mem', bench)
  BY DEF PromoteSuccessful
<1>2. bench \in SUBSET Results /\ measured \subseteq Links /\ shown \subseteq Results
  BY DEF ProfilesInv, ThreadsTyped
<1>3. bench' \subseteq Results
  BY <1>1, <1>2, RemappedResults
<1> QED
  BY <1>1, <1>2, <1>3, IdleThread, ThreadMoves

(* A status answer collects results ...                                    *)
LEMMA ReadStatusThread ==
  ASSUME ProfilesInv, NEW c \in Clients, ReadStatus(c)
  PROVE  ThreadStep
<1> DEFINE results == Remapped(mem, bench)
           t == [Idle EXCEPT !.op = "status", !.results = results, !.due = Due]
<1>1. /\ thread' = [thread EXCEPT ![c] = t]
      /\ bench \in SUBSET Results /\ bench' = bench /\ measured' \subseteq Links /\ shown' \subseteq Results
      /\ mem \in States
  BY DEF ReadStatus, ProfilesInv, ThreadsTyped, MachineTyped
<1>2. results \in SUBSET Results
  BY <1>1, RemappedResults
<1> HIDE DEF results
<1>4. Due \in SUBSET Results
  BY DuePlaces
<1>3. t \in Threads /\ t.op # "activating"
  BY <1>2, <1>4 DEF Idle, Threads, Ops
<1> HIDE DEF t
<1> QED
  BY <1>1, <1>2, <1>3, ThreadMoves

(* ... and shows the current ones.                                         *)
LEMMA AnswerStatusThread ==
  ASSUME ProfilesInv, NEW c \in Clients, AnswerStatus(c)
  PROVE  ThreadStep
<1>1. /\ thread' = [thread EXCEPT ![c] = Idle] /\ bench' = bench /\ measured' = measured
      /\ shown' = Current(mem, thread[c].results)
  BY DEF AnswerStatus
<1>2. bench \subseteq Results /\ measured \subseteq Links /\ thread[c].results \subseteq Results
  BY DEF ProfilesInv, ThreadsTyped, Threads
<1>3. shown' \subseteq Results
  BY <1>1, <1>2 DEF Current
<1> QED
  BY <1>1, <1>2, <1>3, IdleThread, ThreadMoves

(* After a restart no thread runs.                                         *)
LEMMA RebootThread ==
  ASSUME Reboot
  PROVE  ThreadStep
<1>1. thread' = [c \in Clients |-> Idle] /\ bench' = {} /\ measured' = {} /\ shown' = {}
  BY DEF Reboot
<1>2. thread' \in [Clients -> Threads] /\ \A c \in Clients : thread'[c].op = "idle"
  BY <1>1, IdleThread
<1> QED
  BY <1>1, <1>2 DEF ThreadStep, ThreadsTyped, OneActivates, Activating

-----------------------------------------------------------------------------
(* The results of a benchmark.                                             *)

(* Whatever an answer owes is among its results, and is all they say of    *)
(* its link.                                                               *)
KeepsLinks(t) == \A d \in t.due : d \in t.results /\ \A r \in t.results : r.raw = d.raw => r = d

(* No measured link is without its result, and no answer underway has      *)
(* moved one to another profile.                                           *)
ResultsInv ==
  /\ \A l \in measured : \E r \in bench : r.raw = l
  /\ \A c \in Clients : KeepsLinks(thread[c])

LEMMA InitialResults ==
  ASSUME Init
  PROVE  ResultsInv
BY DEF Init, ResultsInv, KeepsLinks, Idle

(* A thread that goes on with what it has, or with nothing owed.           *)
LEMMA ThreadKeeps ==
  ASSUME ProfilesInv, ResultsInv, NEW c \in Clients, NEW t,
         thread' = [thread EXCEPT ![c] = t], KeepsLinks(t)
  PROVE  \A e \in Clients : KeepsLinks(thread'[e])
<1>1. thread \in [Clients -> Threads]
  BY DEF ProfilesInv, ThreadsTyped
<1> QED
  BY <1>1 DEF ResultsInv

(* The stored results stay.                                                *)
LEMMA StoredResults ==
  ASSUME ProfilesInv, ResultsInv, NEW c \in Clients, NEW t,
         thread' = [thread EXCEPT ![c] = t], KeepsLinks(t), bench' = bench, measured' = measured
  PROVE  ResultsInv'
BY ThreadKeeps DEF ResultsInv

(* New ids leave a result with its link ...                                *)
LEMMA RemappedLinks ==
  ASSUME NEW m, NEW results \in SUBSET Results
  PROVE  /\ \A r \in Remapped(m, results) : \E q \in results : q.raw = r.raw /\ r = [raw |-> q.raw, id |-> NewId(m, q)]
         /\ \A q \in results : [raw |-> q.raw, id |-> NewId(m, q)] \in Remapped(m, results)
<1>1. \A q \in results : [q EXCEPT !.id = NewId(m, q)] = [raw |-> q.raw, id |-> NewId(m, q)]
  BY DEF Results
<1> QED
  BY <1>1 DEF Remapped

(* ... and at its place, whatever the id it had.                           *)
LEMMA ReadResults ==
  ASSUME ProfilesInv, ResultsInv, NEW t, t.results = Remapped(mem, bench), t.due = Due
  PROVE  KeepsLinks(t)
<1>1. /\ mem.list \in Lists /\ DOMAIN mem.list = 1..Len(mem.list) /\ Len(mem.list) \in Nat
      /\ bench \in SUBSET Results
  BY StateFields DEF ProfilesInv, MachineTyped, ThreadsTyped
<1> SUFFICES ASSUME NEW d \in Due
             PROVE  /\ d \in Remapped(mem, bench)
                    /\ \A r \in Remapped(mem, bench) : r.raw = d.raw => r = d
  BY DEF KeepsLinks
<1>2. /\ d \in Results /\ d.raw \in measured
      /\ d.id \in 1..Len(mem.list) /\ mem.list[d.id].raw = d.raw
  BY DuePlaces
<1>3. d.raw \in RawsOf(mem.list) /\ PositionOf(mem.list, d.raw) = d.id
  <2>1. mem.list \in Seq(Profiles) /\ d.raw \in RawsOf(mem.list)
    BY <1>1, <1>2 DEF RawsOf, Lists
  <2>2. LET p == PositionOf(mem.list, d.raw)
        IN  p \in 1..Len(mem.list) /\ mem.list[p].raw = d.raw
    BY <1>1, <2>1, PositionFound
  <2> QED
    BY <1>1, <1>2, <2>1, <2>2 DEF Lists, Distinct
<1>4. \A q \in bench : q.raw = d.raw => NewId(mem, q) = d.id
  BY <1>3 DEF NewId
<1>5. d = [raw |-> d.raw, id |-> d.id]
  BY <1>2 DEF Results
<1>6. PICK q \in bench : q.raw = d.raw
  BY <1>2 DEF ResultsInv
<1>7. d \in Remapped(mem, bench)
  BY <1>1, <1>4, <1>5, <1>6, RemappedLinks
<1>8. ASSUME NEW r \in Remapped(mem, bench), r.raw = d.raw
      PROVE  r = d
  BY <1>1, <1>4, <1>5, <1>8, RemappedLinks
<1> QED
  BY <1>7, <1>8

(* A change of Dead Servers leaves results alone.                          *)
LEMMA MembershipResults ==
  ASSUME ProfilesInv, ResultsInv, NEW c \in Clients, NEW dead, NEW next,
         ChangeMembership(c, dead, next), bench' = bench, measured' = measured
  PROVE  ResultsInv'
<1> DEFINE old == thread[c]
           done == [old EXCEPT !.op = next, !.next = "idle"]
           begun == [old EXCEPT !.op = "activating", !.next = next, !.before = mem.dead]
<1>1. old \in Threads
  BY DEF ProfilesInv, ThreadsTyped
<1>2. KeepsLinks(done) /\ KeepsLinks(begun) /\ KeepsLinks(Idle)
  BY <1>1 DEF ResultsInv, KeepsLinks, Threads, Idle
<1>3. \/ thread' = [thread EXCEPT ![c] = done]
      \/ thread' = [thread EXCEPT ![c] = begun]
      \/ thread' = [thread EXCEPT ![c] = Idle]
  BY DEF ChangeMembership
<1> HIDE DEF done, begun
<1> QED
  BY <1>2, <1>3, StoredResults

(* Every step keeps the results with their links.                          *)
LEMMA ResultsStep ==
  ASSUME ProfilesInv, ResultsInv, [Next]_vars
  PROVE  ResultsInv'
<1>1. \A c \in Clients : thread[c] \in Threads
  BY DEF ProfilesInv, ThreadsTyped
<1>2. CASE thread' = thread /\ bench' = bench /\ measured' = measured
  BY <1>2 DEF ResultsInv
<1>3. ASSUME NEW c \in Clients, NEW s \in Servers, MoveToTrash(c, s) \/ RestoreFromTrash(c, s)
      PROVE  ResultsInv'
  BY <1>3, MembershipResults DEF MoveToTrash, RestoreFromTrash
<1>4. ASSUME NEW c \in Clients, MoveUnresponsive(c)
      PROVE  ResultsInv'
  BY <1>4, MembershipResults DEF MoveUnresponsive
<1>5. ASSUME NEW c \in Clients, ActivateMembership(c)
      PROVE  ResultsInv'
  <2> DEFINE t == [thread[c] EXCEPT !.op = thread[c].next, !.next = "idle", !.before = {}]
  <2>1. KeepsLinks(t) /\ KeepsLinks(Idle)
    BY <1>1 DEF ResultsInv, KeepsLinks, Threads, Idle
  <2>2. /\ thread' = [thread EXCEPT ![c] = t] \/ thread' = [thread EXCEPT ![c] = Idle]
        /\ bench' = bench /\ measured' = measured
    BY <1>5 DEF ActivateMembership
  <2> HIDE DEF t
  <2> QED
    BY <2>1, <2>2, StoredResults
<1>6. ASSUME NEW c \in Clients, NEW sources \in SUBSET Sources, StartRefresh(c, sources)
      PROVE  ResultsInv'
  <2> DEFINE t == [Idle EXCEPT !.op = "refresh", !.sources = sources]
  <2>1. KeepsLinks(t)
    BY DEF KeepsLinks, Idle
  <2>2. thread' = [thread EXCEPT ![c] = t] /\ bench' = bench /\ measured' = measured
    BY <1>6 DEF StartRefresh
  <2> HIDE DEF t
  <2> QED
    BY <2>1, <2>2, StoredResults
<1>7. ASSUME NEW c \in Clients, NEW u \in Sources, RefreshSource(c, u)
      PROVE  ResultsInv'
  <2> DEFINE rest == thread[c].sources \ {u}
             t == IF rest = {} THEN Idle ELSE [thread[c] EXCEPT !.sources = rest]
  <2>1. KeepsLinks(t)
    BY <1>1 DEF ResultsInv, KeepsLinks, Threads, Idle
  <2>2. thread' = [thread EXCEPT ![c] = t]
    BY <1>7, Zenon DEF RefreshSource
  <2>3. bench' = bench /\ measured' = measured
    BY <1>7 DEF RefreshSource
  <2> HIDE DEF t
  <2> QED
    BY <2>1, <2>2, <2>3, StoredResults
<1>8. ASSUME NEW c \in Clients, RunBenchmark(c)
      PROVE  ResultsInv'
  <2> DEFINE tested == {i \in DOMAIN mem.list : ServerAt(mem, i) \notin mem.dead}
  <2>1. /\ bench' = {[raw |-> mem.list[i].raw, id |-> i] : i \in tested}
        /\ measured' = {mem.list[i].raw : i \in tested}
    BY <1>8 DEF RunBenchmark
  <2>2. PICK good \in tested \cup {0}, gone \in tested \cup {0}, op \in {"move", "idle"} :
          thread' = [thread EXCEPT ![c] = IF op = "idle" THEN Idle ELSE
                       [Idle EXCEPT !.op = op,
                          !.good = IF good = 0 THEN {} ELSE {ServerAt(mem, good)},
                          !.gone = IF gone = 0 THEN {} ELSE {ServerAt(mem, gone)}]]
    BY <1>8 DEF RunBenchmark
  <2> DEFINE t == IF op = "idle" THEN Idle ELSE
                    [Idle EXCEPT !.op = op,
                       !.good = IF good = 0 THEN {} ELSE {ServerAt(mem, good)},
                       !.gone = IF gone = 0 THEN {} ELSE {ServerAt(mem, gone)}]
  <2>3. thread' = [thread EXCEPT ![c] = t]
    BY <2>2
  <2>4. KeepsLinks(t)
    BY DEF KeepsLinks, Idle
  <2> HIDE DEF t, tested
  <2>5. \A l \in measured' : \E r \in bench' : r.raw = l
    <3>1. \A i \in tested : [raw |-> mem.list[i].raw, id |-> i] \in bench'
      BY <2>1
    <3> QED
      BY <2>1, <3>1
  <2>6. \A e \in Clients : KeepsLinks(thread'[e])
    BY <2>3, <2>4, ThreadKeeps
  <2> QED
    BY <2>5, <2>6 DEF ResultsInv
<1>9. ASSUME NEW c \in Clients, PromoteSuccessful(c)
      PROVE  ResultsInv'
  <2>1. /\ thread' = [thread EXCEPT ![c] = Idle] /\ measured' = measured
        /\ bench' = Remapped(mem', bench) /\ bench \in SUBSET Results
    BY <1>9 DEF PromoteSuccessful, ProfilesInv, ThreadsTyped
  <2>2. \A q \in bench : [raw |-> q.raw, id |-> NewId(mem', q)] \in bench'
    BY <2>1, RemappedLinks
  <2>3. \A l \in measured' : \E r \in bench' : r.raw = l
    <3> SUFFICES ASSUME NEW l \in measured
                 PROVE  \E r \in bench' : r.raw = l
      BY <2>1
    <3>1. PICK q \in bench : q.raw = l
      BY DEF ResultsInv
    <3> DEFINE r == [raw |-> q.raw, id |-> NewId(mem', q)]
    <3>2. r \in bench' /\ r.raw = l
      BY <2>2, <3>1
    <3> QED
      BY <3>2
  <2>4. KeepsLinks(Idle)
    BY DEF KeepsLinks, Idle
  <2>5. \A e \in Clients : KeepsLinks(thread'[e])
    BY <2>1, <2>4, ThreadKeeps
  <2> QED
    BY <2>3, <2>5 DEF ResultsInv
<1>10. ASSUME NEW c \in Clients, ReadStatus(c)
       PROVE  ResultsInv'
  <2> DEFINE t == [Idle EXCEPT !.op = "status", !.results = Remapped(mem, bench), !.due = Due]
  <2>1. thread' = [thread EXCEPT ![c] = t] /\ bench' = bench /\ measured' = measured
    BY <1>10 DEF ReadStatus
  <2>2. t.results = Remapped(mem, bench) /\ t.due = Due
    BY DEF Idle
  <2> HIDE DEF t
  <2> QED
    BY <2>1, <2>2, ReadResults, StoredResults
<1>11. ASSUME NEW c \in Clients, AnswerStatus(c)
       PROVE  ResultsInv'
  <2>1. thread' = [thread EXCEPT ![c] = Idle] /\ bench' = bench /\ measured' = measured
    BY <1>11 DEF AnswerStatus
  <2>2. KeepsLinks(Idle)
    BY DEF KeepsLinks, Idle
  <2> QED
    BY <2>1, <2>2, StoredResults
<1>12. ASSUME Reboot
       PROVE  ResultsInv'
  <2>1. thread' = [c \in Clients |-> Idle] /\ bench' = {} /\ measured' = {}
    BY <1>12 DEF Reboot
  <2> QED
    BY <2>1 DEF ResultsInv, KeepsLinks, Idle
<1>13. CASE UNCHANGED vars
  BY <1>2, <1>13 DEF vars
<1>14. CASE Next
  <2>1. \/ Quiet
        \/ \E c \in Clients :
             \/ \E s \in Servers : MoveToTrash(c, s) \/ RestoreFromTrash(c, s)
             \/ ActivateMembership(c)
             \/ \E sources \in SUBSET Sources : StartRefresh(c, sources)
             \/ \E u \in Sources : RefreshSource(c, u)
             \/ RunBenchmark(c) \/ MoveUnresponsive(c) \/ PromoteSuccessful(c)
             \/ ReadStatus(c) \/ AnswerStatus(c)
        \/ Reboot
    BY <1>14, Zenon DEF Next, AddProfile, ImportSubscription, DeleteSubscription, DeleteProfile,
       SelectProfile, EditProfile, UndoRestore, SaveRoutes, ChangeRoutes, DeleteGroup, PurgeGone,
       ClearTrash, RestartCore, CoreCrash
  <2>2. Quiet => thread' = thread /\ bench' = bench /\ measured' = measured
    BY DEF Quiet
  <2> QED
    BY <1>2, <1>3, <1>4, <1>5, <1>6, <1>7, <1>8, <1>9, <1>10, <1>11, <1>12, <2>1, <2>2
<1> QED
  BY <1>13, <1>14

-----------------------------------------------------------------------------
(* The theorems.                                                           *)

(* The daemon starts on a well-formed state.                               *)
LEMMA InitialState ==
  ASSUME Init
  PROVE  ProfilesInv /\ Store!Init
<1>1. mem \in States
  <2>1. mem \in Persisted /\ WellFormed(mem)
    BY InitialStatesAssumption, ProfilesAssumption DEF Init
  <2>2. mem.list \in Seq(Profiles)
    BY <2>1 DEF Persisted
  <2>3. mem.list \in Lists
    BY <2>1, <2>2, DistinctCounts DEF WellFormed, Lists
  <2> QED
    BY <2>1, <2>3 DEF States, WellFormed
<1>2. /\ disk = mem /\ undo = <<>> /\ core = Loaded(mem)
      /\ thread = [c \in Clients |-> Idle] /\ bench = {} /\ measured = {} /\ shown = {}
  BY DEF Init
<1>3. CoreTyped
  BY <1>1, <1>2, LoadedFacts DEF CoreTyped
<1>4. UndoTyped
  <2>1. undo \in Seq(States) /\ Len(undo) = 0 /\ MaxUndo \in Nat
    BY <1>2, EmptySeq, ProfilesAssumption
  <2> QED
    BY <2>1 DEF UndoTyped
<1>5. \A c \in Clients : ~Activating(c)
  BY <1>2, IdleThread DEF Activating
<1>6. ThreadsTyped /\ OneActivates
  BY <1>2, <1>5, IdleThread DEF ThreadsTyped, OneActivates
<1>7. CoreRuns
  BY <1>1, <1>2, <1>5, LoadedFacts DEF CoreRuns
<1>8. Store!Init
  <2>1. StoreOf(mem) \in Store!Stores /\ Store!WellFormed(StoreOf(mem)) /\ StoreOf(mem).active = Active(mem)
    BY <1>1, StoreWellFormed
  <2>2. {StoreOf(undo[k]) : k \in DOMAIN undo} = {}
    BY <1>2
  <2>3. core.serves = Active(mem)
    BY <1>1, <1>2, LoadedFacts
  <2> QED
    BY <1>2, <2>1, <2>2, <2>3 DEF Store!Init
<1> QED
  BY <1>1, <1>2, <1>3, <1>4, <1>6, <1>7, <1>8 DEF ProfilesInv, MachineTyped

(* Every action moves state, core and threads as it should.                *)
LEMMA NextStep ==
  ASSUME ProfilesInv, Next
  PROVE  MachineStep /\ ThreadStep
<1>1. ASSUME NEW l \in Links, NEW g \in Groups, AddProfile(l, g)
      PROVE  MachineStep /\ ThreadStep
  BY <1>1, AddProfileStep, QuietStep DEF AddProfile
<1>2. ASSUME NEW u \in Sources, ImportSubscription(u)
      PROVE  MachineStep /\ ThreadStep
  BY <1>2, ImportSubscriptionStep, QuietStep DEF ImportSubscription
<1>3. ASSUME NEW u \in Sources, DeleteSubscription(u)
      PROVE  MachineStep /\ ThreadStep
  BY <1>3, DeleteSubscriptionStep, QuietStep DEF DeleteSubscription
<1>4. ASSUME NEW i \in DOMAIN mem.list, DeleteProfile(i)
      PROVE  MachineStep /\ ThreadStep
  BY <1>4, DeleteProfileStep, QuietStep DEF DeleteProfile
<1>5. ASSUME NEW i \in DOMAIN mem.list, SelectProfile(i)
      PROVE  MachineStep /\ ThreadStep
  BY <1>5, SelectProfileStep, QuietStep DEF SelectProfile
<1>6. ASSUME NEW i \in DOMAIN mem.list, NEW l \in Links, EditProfile(i, l)
      PROVE  MachineStep /\ ThreadStep
  BY <1>6, EditProfileStep, QuietStep DEF EditProfile
<1>7. ASSUME NEW k \in DOMAIN undo, UndoRestore(k)
      PROVE  MachineStep /\ ThreadStep
  BY <1>7, UndoRestoreStep, QuietStep DEF UndoRestore
<1>8. ASSUME NEW pinned \in SUBSET Servers, SaveRoutes(pinned)
      PROVE  MachineStep /\ ThreadStep
  BY <1>8, SaveRoutesStep, QuietStep DEF SaveRoutes
<1>9. ASSUME NEW pinned \in SUBSET Servers, ChangeRoutes(pinned)
      PROVE  MachineStep /\ ThreadStep
  <2>1. Quiet
    BY <1>9 DEF ChangeRoutes
  <2> QED
    BY <1>9, <2>1, ChangeRoutesStep, QuietStep
<1>10. ASSUME NEW g \in Groups, DeleteGroup(g)
       PROVE  MachineStep /\ ThreadStep
  BY <1>10, DeleteGroupStep, QuietStep DEF DeleteGroup
<1>11. ASSUME PurgeGone
       PROVE  MachineStep /\ ThreadStep
  BY <1>11, PurgeGoneStep, QuietStep DEF PurgeGone
<1>12. ASSUME ClearTrash
       PROVE  MachineStep /\ ThreadStep
  BY <1>12, ClearTrashStep, QuietStep DEF ClearTrash
<1>13. ASSUME NEW c \in Clients, NEW s \in Servers, MoveToTrash(c, s)
       PROVE  MachineStep /\ ThreadStep
  <2>1. /\ ApplyFree /\ ChangeMembership(c, mem.dead \cup {s}, "idle")
        /\ bench' = bench /\ measured' = measured /\ shown' = shown
    BY <1>13 DEF MoveToTrash
  <2> QED
    BY <1>13, <2>1, MoveToTrashStep, ChangeMembershipThread
<1>14. ASSUME NEW c \in Clients, NEW s \in Servers, RestoreFromTrash(c, s)
       PROVE  MachineStep /\ ThreadStep
  <2>1. /\ ApplyFree /\ ChangeMembership(c, mem.dead \ {s}, "idle")
        /\ bench' = bench /\ measured' = measured /\ shown' = shown
    BY <1>14 DEF RestoreFromTrash
  <2> QED
    BY <1>14, <2>1, RestoreFromTrashStep, ChangeMembershipThread
<1>15. ASSUME NEW c \in Clients, ActivateMembership(c)
       PROVE  MachineStep /\ ThreadStep
  BY <1>15, ActivateMembershipStep, ActivateMembershipThread
<1>16. ASSUME NEW c \in Clients, NEW sources \in SUBSET Sources, StartRefresh(c, sources)
       PROVE  MachineStep /\ ThreadStep
  BY <1>16, ReadingStep, StartRefreshThread
<1>17. ASSUME NEW c \in Clients, NEW u \in Sources, RefreshSource(c, u)
       PROVE  MachineStep /\ ThreadStep
  BY <1>17, RefreshSourceStep, RefreshSourceThread
<1>18. ASSUME NEW c \in Clients, RunBenchmark(c)
       PROVE  MachineStep /\ ThreadStep
  BY <1>18, ReadingStep, RunBenchmarkThread
<1>19. ASSUME NEW c \in Clients, MoveUnresponsive(c)
       PROVE  MachineStep /\ ThreadStep
  <2>1. /\ ApplyFree /\ ChangeMembership(c, mem.dead \cup (thread[c].gone \cap Eligible), "promote")
        /\ bench' = bench /\ measured' = measured /\ shown' = shown
    BY <1>19 DEF MoveUnresponsive
  <2> QED
    BY <1>19, <2>1, MoveUnresponsiveStep, ChangeMembershipThread
<1>20. ASSUME NEW c \in Clients, PromoteSuccessful(c)
       PROVE  MachineStep /\ ThreadStep
  <2>1. MachineStep
    BY <1>20, PromoteSuccessfulStep
  <2>2. mem' \in States
    BY <2>1 DEF MachineStep, MachineTyped
  <2> QED
    BY <1>20, <2>1, <2>2, PromoteSuccessfulThread
<1>21. ASSUME NEW c \in Clients, ReadStatus(c)
       PROVE  MachineStep /\ ThreadStep
  BY <1>21, ReadingStep, ReadStatusThread
<1>22. ASSUME NEW c \in Clients, AnswerStatus(c)
       PROVE  MachineStep /\ ThreadStep
  BY <1>22, ReadingStep, AnswerStatusThread
<1>23. ASSUME RestartCore
       PROVE  MachineStep /\ ThreadStep
  BY <1>23, RestartCoreStep, QuietStep DEF RestartCore
<1>24. ASSUME CoreCrash
       PROVE  MachineStep /\ ThreadStep
  BY <1>24, CoreCrashStep, QuietStep DEF CoreCrash
<1>25. ASSUME Reboot
       PROVE  MachineStep /\ ThreadStep
  BY <1>25, RebootStep, RebootThread
<1> QED
  BY <1>1, <1>2, <1>3, <1>4, <1>5, <1>6, <1>7, <1>8, <1>9, <1>10, <1>11, <1>12, <1>13, <1>14, <1>15,
     <1>16, <1>17, <1>18, <1>19, <1>20, <1>21, <1>22, <1>23, <1>24, <1>25 DEF Next

(* So does every step.                                                     *)
LEMMA InvariantStep ==
  ASSUME ProfilesInv, [Next]_vars
  PROVE  ProfilesInv' /\ StoreStep
<1>1. CASE Next
  BY <1>1, NextStep DEF MachineStep, ThreadStep, ProfilesInv
<1>2. CASE UNCHANGED vars
  <2>1. /\ mem' = mem /\ disk' = disk /\ undo' = undo /\ core' = core /\ thread' = thread
        /\ bench' = bench /\ measured' = measured /\ shown' = shown
    BY <1>2 DEF vars
  <2>2. MachineStep
    BY <2>1, FailedApply
  <2>3. ThreadStep
    BY <2>1, QuietStep DEF Quiet
  <2> QED
    BY <2>2, <2>3 DEF MachineStep, ThreadStep, ProfilesInv
<1> QED
  BY <1>1, <1>2

(* The invariant all of it rests on.                                       *)
THEOREM ProfilesInvariant == Spec => []ProfilesInv
<1>1. Init => ProfilesInv
  BY InitialState
<1>2. ProfilesInv /\ [Next]_vars => ProfilesInv'
  BY InvariantStep
<1> QED
  BY <1>1, <1>2, PTL DEF Spec

(* Every link is in the list once and what is active is in it, through     *)
(* every import, removal, refresh, undo and restart (handle_profile_add,   *)
(* handle_import, refresh_subscription_sources, handle_undo_restore).      *)
THEOREM TypeCorrect == Spec => []TypeOK
<1>1. ASSUME ProfilesInv PROVE TypeOK
  <2>1. mem \in States /\ disk \in States /\ UndoTyped /\ CoreTyped /\ ThreadsTyped
    BY <1>1 DEF ProfilesInv, MachineTyped
  <2>2. ASSUME NEW m \in States
        PROVE  /\ m \in Persisted /\ m.active \in 0..Len(m.list)
               /\ Cardinality(RawsOf(m.list)) = Len(m.list)
    <3>1. m \in Persisted /\ m.active \in 0..Len(m.list) /\ m.list \in Seq(Profiles) /\ Distinct(m.list)
      BY StateFields DEF Lists
    <3> QED
      BY <3>1, DistinctCounts
  <2>3. \A c \in Clients :
          thread[c].op \in {"idle", "refresh", "activating", "move", "promote", "status"}
    BY <2>1 DEF ThreadsTyped, Threads, Ops
  <2> QED
    BY <2>1, <2>2, <2>3 DEF TypeOK, UndoTyped, CoreTyped, Cores, ThreadsTyped
<1> QED
  BY <1>1, ProfilesInvariant, PTL

(* The running core serves the profile that has the active id and, between *)
(* transactions, has the fixed routes of the state: no removal, promotion, *)
(* refresh, undo or failed change of Dead Servers leaves it on another.    *)
THEOREM CoreFollows == Spec => []CoreFollowsState
<1>1. ASSUME ProfilesInv PROVE CoreFollowsState
  <2>1. FixedRoutes(mem) = Routes(mem, mem.dead)
    BY DEF FixedRoutes, Routes, ActiveServers
  <2> QED
    BY <1>1, <2>1 DEF CoreFollowsState, ProfilesInv, CoreRuns
<1> QED
  BY <1>1, ProfilesInvariant, PTL

(* No fixed route is without its server, in memory or in state.json: a     *)
(* configuration can always be generated ("server ref is stale").          *)
THEOREM PinnedPresent == Spec => []PinnedServersPresent
<1>1. ASSUME ProfilesInv PROVE PinnedServersPresent
  BY <1>1, StateFields DEF PinnedServersPresent, ProfilesInv, MachineTyped
<1> QED
  BY <1>1, ProfilesInvariant, PTL

(* The results of a benchmark stay with the links they measured: a status  *)
(* answer shows them at the places of these links or not at all, and loses *)
(* none whose profile stands, however the list moves between the job and   *)
(* the two sections (remap_completed_bench_result_ids,                     *)
(* handle_bench_status).                                                   *)
THEOREM ResultsKept == Spec => ResultsKeepTheirLinks
<1>1. Init => ResultsInv
  BY InitialResults
<1>2. ProfilesInv /\ ResultsInv /\ [Next]_vars => ResultsInv'
  BY ResultsStep
<1>3. ASSUME ProfilesInv, ResultsInv, NEW c \in Clients, AnswerStatus(c), NEW d \in thread[c].due
      PROVE  LET stands == d.id \in DOMAIN mem.list
             IN  /\ {r \in shown' : r.raw = d.raw} \subseteq {d}
                 /\ stands /\ mem.list[d.id].raw = d.raw => d \in shown'
                 /\ d \in shown' => stands /\ ServerAt(mem, d.id) = ServerOf[d.raw]
  <2>1. shown' = Current(mem, thread[c].results)
    BY <1>3 DEF AnswerStatus
  <2>2. d \in thread[c].results /\ \A r \in thread[c].results : r.raw = d.raw => r = d
    BY <1>3 DEF ResultsInv, KeepsLinks
  <2>3. \A r : r \in shown' <=> /\ r \in thread[c].results /\ r.id \in DOMAIN mem.list
                                /\ ServerAt(mem, r.id) = ServerOf[r.raw]
    BY <2>1 DEF Current
  <2>4. {r \in shown' : r.raw = d.raw} \subseteq {d}
    BY <2>2, <2>3
  <2>5. d.id \in DOMAIN mem.list /\ mem.list[d.id].raw = d.raw => d \in shown'
    BY <2>2, <2>3 DEF ServerAt
  <2>6. d \in shown' => d.id \in DOMAIN mem.list /\ ServerAt(mem, d.id) = ServerOf[d.raw]
    BY <2>3
  <2> QED
    BY <2>4, <2>5, <2>6
<1> DEFINE Keeping == \A c \in Clients : AnswerStatus(c) =>
                        \A d \in thread[c].due :
                          LET stands == d.id \in DOMAIN mem.list
                          IN  /\ {r \in shown' : r.raw = d.raw} \subseteq {d}
                              /\ stands /\ mem.list[d.id].raw = d.raw => d \in shown'
                              /\ d \in shown' => stands /\ ServerAt(mem, d.id) = ServerOf[d.raw]
<1>4. ProfilesInv /\ ResultsInv => [Keeping]_vars
  BY <1>3
<1> QED
  BY <1>1, <1>2, <1>4, ProfilesInvariant, PTL DEF Spec, ResultsKeepTheirLinks

(* The list with positions implements the store without: the active link   *)
(* changes only by choice, edit, undo or its removal.                      *)
THEOREM ListImplementsStore == Spec => ImplementsStore
<1>1. Init => Store!Init
  BY InitialState
<1>2. ProfilesInv /\ [Next]_vars => [Store!Next]_Store!vars
  BY InvariantStep DEF StoreStep
<1> QED
  BY <1>1, <1>2, ProfilesInvariant, PTL DEF Spec, ImplementsStore, Store!Spec

=============================================================================
