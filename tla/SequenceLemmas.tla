--------------------------- MODULE SequenceLemmas ---------------------------
(***************************************************************************)
(* What the proofs need to know of sequences, of parts of them, and of     *)
(* sums.                                                                   *)
(***************************************************************************)
EXTENDS Naturals, SequencesExt, Subsequences, FiniteSetTheorems,
        WellFoundedInduction, TLAPS

-----------------------------------------------------------------------------
(* Induction *)

\* A set of numbers has a least one.
LEMMA LeastOne ==
  ASSUME NEW S \in SUBSET Nat, S # {}
  PROVE  \E m \in S : \A n \in S : m <= n
<1> DEFINE R == OpToRel(<, Nat)
<1>1. IsWellFoundedOn(R, Nat)
  BY NatLessThanWellFounded
<1> HIDE DEF R
<1>2. PICK m \in S : \A n \in S : <<n, m>> \notin R
  BY <1>1, WFMin, Zenon
<1>3. R = {p \in Nat \X Nat : p[1] < p[2]}
  BY Zenon DEF OpToRel, R
<1>4. ASSUME NEW n \in S  PROVE m <= n
  <2>1. <<n, m>> \in Nat \X Nat /\ <<n, m>>[1] = n /\ <<n, m>>[2] = m
    OBVIOUS
  <2>2. ~(<<n, m>>[1] < <<n, m>>[2])
    BY <1>2, <1>3, <2>1, Zenon
  <2>3. ~(n < m)
    BY <2>1, <2>2
  <2>q. QED  BY <2>3
<1>q. QED  BY <1>4

\* The least element of a set of numbers.
LEMMA MinFacts ==
  ASSUME NEW S \in SUBSET Nat, S # {}
  PROVE  Min(S) \in S /\ \A n \in S : Min(S) <= n
<1>1. \E m \in S : \A n \in S : m <= n
  BY LeastOne
<1>q. QED  BY <1>1, Zenon DEF Min

\* The greatest element of a set of numbers.
LEMMA MaxFacts ==
  ASSUME NEW n \in Nat, NEW S \in SUBSET (1 .. n), S # {}
  PROVE  Max(S) \in S /\ \A i \in S : i <= Max(S)
<1> DEFINE W == {n - i : i \in S}
<1>1. W \in SUBSET Nat /\ W # {}
  <2>1. ASSUME NEW i \in S  PROVE n - i \in Nat
    <3>1. i \in 1 .. n
      OBVIOUS
    <3>q. QED  BY <3>1
  <2>2. PICK i \in S : TRUE
    OBVIOUS
  <2>q. QED  BY <2>1, <2>2
<1>2. PICK w \in W : \A v \in W : w <= v
  <2> HIDE DEF W
  <2>q. QED  BY <1>1, LeastOne
<1>3. PICK m \in S : w = n - m
  OBVIOUS
<1>4. ASSUME NEW i \in S  PROVE i <= m
  <2>1. n - m <= n - i
    BY <1>2, <1>3
  <2>2. i \in 1 .. n /\ m \in 1 .. n
    OBVIOUS
  <2>q. QED  BY <2>1, <2>2
<1>q. QED  BY <1>4, Zenon DEF Max

-----------------------------------------------------------------------------
(* Sequences, and parts of them *)

\* A sequence of whatever it holds.
IsSeq(s) == s \in Seq(ToSet(s))

\* A sequence over a set is one over its own elements.
LEMMA SeqIsSeq ==
  ASSUME NEW S, NEW s \in Seq(S)
  PROVE  IsSeq(s) /\ ToSet(s) \subseteq S /\ Len(s) \in Nat /\ DOMAIN s = 1 .. Len(s)
<1>1. Len(s) \in Nat /\ DOMAIN s = 1 .. Len(s) /\ s = [i \in 1 .. Len(s) |-> s[i]]
  OBVIOUS
<1>2. \A i \in 1 .. Len(s) : s[i] \in ToSet(s)
  BY <1>1 DEF ToSet
<1>3. ToSet(s) \subseteq S
  BY <1>1 DEF ToSet
<1>4. s \in Seq(ToSet(s))
  BY <1>1, <1>2
<1>q. QED  BY <1>1, <1>3, <1>4 DEF IsSeq

\* What a sequence has.
LEMMA SeqFacts ==
  ASSUME NEW s, IsSeq(s)
  PROVE  /\ Len(s) \in Nat /\ DOMAIN s = 1 .. Len(s)
         /\ \A i \in DOMAIN s : s[i] \in ToSet(s)
         /\ s = <<>> <=> Len(s) = 0
BY DEF IsSeq, ToSet

\* A sequence over any set that has its elements.
LEMMA SeqOver ==
  ASSUME NEW S, NEW s, IsSeq(s), ToSet(s) \subseteq S
  PROVE  s \in Seq(S)
<1>1. Len(s) \in Nat /\ DOMAIN s = 1 .. Len(s) /\ \A i \in DOMAIN s : s[i] \in S
  BY SeqFacts
<1>2. s = [i \in 1 .. Len(s) |-> s[i]]
  BY DEF IsSeq
<1>q. QED  BY <1>1, <1>2

\* A function over 1 .. n is a sequence.
LEMMA MadeSeq ==
  ASSUME NEW n \in Nat, NEW s, DOMAIN s = 1 .. n, s = [i \in 1 .. n |-> s[i]]
  PROVE  IsSeq(s) /\ Len(s) = n
<1>1. \A i \in 1 .. n : s[i] \in ToSet(s)
  BY DEF ToSet
<1>q. QED  BY <1>1 DEF IsSeq

\* Two sequences after one another.
LEMMA JoinedFacts ==
  ASSUME NEW a, NEW b, IsSeq(a), IsSeq(b)
  PROVE  /\ IsSeq(a \o b)
         /\ ToSet(a \o b) = ToSet(a) \cup ToSet(b)
         /\ Len(a \o b) = Len(a) + Len(b)
         /\ \A i \in DOMAIN a : i \in DOMAIN (a \o b) /\ (a \o b)[i] = a[i]
         /\ \A i \in DOMAIN b : Len(a) + i \in DOMAIN (a \o b) /\ (a \o b)[Len(a) + i] = b[i]
         /\ \A i \in DOMAIN (a \o b) :
              i \in DOMAIN a \/ \E j \in DOMAIN b : i = Len(a) + j
<1> DEFINE S == ToSet(a) \cup ToSet(b)
           c == a \o b
<1>0. a \in Seq(S) /\ b \in Seq(S)
  BY DEF IsSeq
<1> HIDE DEF S
<1>1. /\ c \in Seq(S) /\ Len(c) = Len(a) + Len(b) /\ DOMAIN c = 1 .. Len(a) + Len(b)
      /\ DOMAIN a = 1 .. Len(a) /\ DOMAIN b = 1 .. Len(b) /\ Len(a) \in Nat /\ Len(b) \in Nat
  BY <1>0
<1>2. \A i \in 1 .. Len(a) : c[i] = a[i]
  BY <1>0
<1>3. \A i \in 1 .. Len(b) : c[Len(a) + i] = b[i]
  BY <1>0
<1> HIDE DEF c
<1>4. \A i \in 1 .. Len(a) : i \in DOMAIN c
  BY <1>1
<1>5. \A i \in 1 .. Len(b) : Len(a) + i \in DOMAIN c
  BY <1>1
<1>6. ASSUME NEW i \in DOMAIN c
      PROVE  i \in 1 .. Len(a) \/ \E j \in 1 .. Len(b) : i = Len(a) + j
  <2>1. i \in 1 .. Len(a) + Len(b)
    BY <1>1
  <2>2. i > Len(a) => i - Len(a) \in 1 .. Len(b) /\ i = Len(a) + (i - Len(a))
    BY <1>1, <2>1
  <2>q. QED  BY <1>1, <2>1, <2>2
<1>7. ToSet(c) \subseteq S
  BY <1>0, <1>1, <1>2, <1>3, <1>6 DEF ToSet, S
<1>8. S \subseteq ToSet(c)
  BY <1>0, <1>1, <1>2, <1>3, <1>4, <1>5 DEF ToSet, S
<1>9. IsSeq(c)
  BY <1>1, SeqIsSeq
<1>q. QED  BY <1>1, <1>2, <1>3, <1>4, <1>5, <1>6, <1>7, <1>8, <1>9 DEF c, S

\* A sequence without its first element.
LEMMA TailFacts ==
  ASSUME NEW s, IsSeq(s), s # <<>>
  PROVE  /\ IsSeq(Tail(s)) /\ Len(Tail(s)) = Len(s) - 1
         /\ \A i \in DOMAIN Tail(s) : i + 1 \in DOMAIN s /\ Tail(s)[i] = s[i + 1]
         /\ \A i \in DOMAIN s : i = 1 \/ (i - 1 \in DOMAIN Tail(s) /\ Tail(s)[i - 1] = s[i])
         /\ Head(s) = s[1] /\ 1 \in DOMAIN s
         /\ ToSet(s) = ToSet(Tail(s)) \cup {Head(s)}
<1> DEFINE S == ToSet(s)
           t == Tail(s)
<1>0. s \in Seq(S)
  BY DEF IsSeq
<1> HIDE DEF S
<1>1. /\ t \in Seq(S) /\ Len(t) = Len(s) - 1 /\ DOMAIN t = 1 .. Len(s) - 1
      /\ Len(s) \in Nat \ {0} /\ DOMAIN s = 1 .. Len(s) /\ Head(s) = s[1]
  BY <1>0
<1>2. \A i \in 1 .. Len(s) - 1 : t[i] = s[i + 1]
  BY <1>0
<1> HIDE DEF t
<1>3. /\ 1 \in 1 .. Len(s)
      /\ \A i \in 1 .. Len(s) - 1 : i + 1 \in 1 .. Len(s)
      /\ \A i \in 1 .. Len(s) : i = 1 \/ (i - 1 \in 1 .. Len(s) - 1 /\ (i - 1) + 1 = i)
  BY <1>1
<1>4. \A i \in 1 .. Len(s) : i = 1 \/ (i - 1 \in 1 .. Len(s) - 1 /\ t[i - 1] = s[i])
  BY <1>1, <1>2, <1>3
<1>5. ToSet(s) = ToSet(t) \cup {Head(s)}
  <2>1. ToSet(t) \cup {Head(s)} \subseteq ToSet(s)
    BY <1>1, <1>2, <1>3 DEF ToSet
  <2>2. ToSet(s) \subseteq ToSet(t) \cup {Head(s)}
    BY <1>1, <1>4 DEF ToSet
  <2>q. QED  BY <2>1, <2>2
<1>6. IsSeq(t)
  BY <1>1, SeqIsSeq
<1>q. QED  BY <1>1, <1>2, <1>3, <1>4, <1>5, <1>6 DEF t

\* A sequence with one element more.
LEMMA AppendFacts ==
  ASSUME NEW s, IsSeq(s), NEW e
  PROVE  /\ IsSeq(Append(s, e)) /\ Len(Append(s, e)) = Len(s) + 1
         /\ Append(s, e)[Len(s) + 1] = e
         /\ \A i \in DOMAIN s : Append(s, e)[i] = s[i]
         /\ ToSet(Append(s, e)) = ToSet(s) \cup {e}
<1> DEFINE S == ToSet(s) \cup {e}
           t == Append(s, e)
<1>0. s \in Seq(S) /\ e \in S
  BY DEF IsSeq
<1> HIDE DEF S
<1>1. /\ t \in Seq(S) /\ Len(t) = Len(s) + 1 /\ DOMAIN t = 1 .. Len(s) + 1
      /\ Len(s) \in Nat /\ DOMAIN s = 1 .. Len(s)
  BY <1>0
<1>2. t[Len(s) + 1] = e /\ \A i \in 1 .. Len(s) : t[i] = s[i]
  BY <1>0
<1> HIDE DEF t
<1>3. /\ Len(s) + 1 \in 1 .. Len(s) + 1
      /\ \A i \in 1 .. Len(s) : i \in 1 .. Len(s) + 1
      /\ \A i \in 1 .. Len(s) + 1 : i = Len(s) + 1 \/ i \in 1 .. Len(s)
  BY <1>1
<1>4. ToSet(t) = ToSet(s) \cup {e}
  BY <1>1, <1>2, <1>3 DEF ToSet
<1>5. IsSeq(t)
  BY <1>1, SeqIsSeq
<1>q. QED  BY <1>1, <1>2, <1>4, <1>5 DEF t

\* A sequence without its last element.
LEMMA FrontFacts ==
  ASSUME NEW s, IsSeq(s), s # <<>>
  PROVE  /\ IsSeq(Front(s)) /\ Len(Front(s)) = Len(s) - 1
         /\ \A i \in DOMAIN Front(s) : i \in DOMAIN s /\ Front(s)[i] = s[i] /\ i # Len(s)
         /\ Last(s) = s[Len(s)] /\ Len(s) \in DOMAIN s
         /\ ToSet(s) = ToSet(Front(s)) \cup {Last(s)}
<1> DEFINE S == ToSet(s)
           t == Front(s)
<1>0. s \in Seq(S)
  BY DEF IsSeq
<1> HIDE DEF S
<1>1. /\ t \in Seq(S) /\ Len(t) = Len(s) - 1 /\ DOMAIN t = 1 .. Len(s) - 1
      /\ Len(s) \in Nat \ {0} /\ DOMAIN s = 1 .. Len(s) /\ Last(s) = s[Len(s)]
  <2>1. Len(s) \in Nat \ {0} /\ DOMAIN s = 1 .. Len(s)
    BY <1>0
  <2>2. t = SubSeq(s, 1, Len(s) - 1) /\ Last(s) = s[Len(s)]
    BY DEF Front, Last
  <2> HIDE DEF t
  <2>3. Len(s) - 1 \in 0 .. Len(s) /\ 1 + Len(s) - 1 = Len(s)
    BY <2>1
  <2>q. QED  BY <1>0, <2>1, <2>2, <2>3
<1>2. \A i \in 1 .. Len(s) - 1 : t[i] = s[i]
  BY <1>0 DEF Front
<1> HIDE DEF t
<1>3. /\ Len(s) \in 1 .. Len(s)
      /\ \A i \in 1 .. Len(s) - 1 : i \in 1 .. Len(s) /\ i # Len(s)
      /\ \A i \in 1 .. Len(s) : i = Len(s) \/ i \in 1 .. Len(s) - 1
  BY <1>1
<1>4. ToSet(s) = ToSet(t) \cup {Last(s)}
  BY <1>1, <1>2, <1>3 DEF ToSet
<1>5. IsSeq(t)
  BY <1>1, SeqIsSeq
<1>q. QED  BY <1>1, <1>2, <1>3, <1>4, <1>5 DEF t

\* The beginning of a sequence.
LEMMA PrefixFacts ==
  ASSUME NEW s, IsSeq(s), NEW n \in 0 .. Len(s)
  PROVE  /\ IsSeq(SubSeq(s, 1, n)) /\ Len(SubSeq(s, 1, n)) = n
         /\ \A i \in DOMAIN SubSeq(s, 1, n) : i \in DOMAIN s /\ SubSeq(s, 1, n)[i] = s[i]
         /\ n = Len(s) => SubSeq(s, 1, n) = s
<1> DEFINE S == ToSet(s)
           t == SubSeq(s, 1, n)
<1>0. s \in Seq(S)
  BY DEF IsSeq
<1> HIDE DEF S
<1>1. Len(s) \in Nat /\ DOMAIN s = 1 .. Len(s) /\ n \in Nat /\ n <= Len(s)
  BY <1>0
<1>2. t \in Seq(S) /\ Len(t) = n /\ DOMAIN t = 1 .. n
  BY <1>0, <1>1
<1>3. \A i \in 1 .. n : t[i] = s[i]
  BY <1>0, <1>1
<1>4. n = Len(s) => t = s
  BY <1>0, <1>1, <1>2, <1>3
<1> HIDE DEF t
<1>5. \A i \in 1 .. n : i \in 1 .. Len(s)
  BY <1>1
<1>6. IsSeq(t)
  BY <1>2, SeqIsSeq
<1>q. QED  BY <1>1, <1>2, <1>3, <1>4, <1>5, <1>6 DEF t

\* The numbers of a set in order: each of them, once.
LEMMA AscendingFacts ==
  ASSUME NEW I \in SUBSET Nat, IsFiniteSet(I)
  PROVE  /\ Cardinality(I) \in Nat
         /\ Ascending(I) \in [1 .. Cardinality(I) -> I]
         /\ \A i \in I : \E n \in 1 .. Cardinality(I) : Ascending(I)[n] = i
         /\ \A m, n \in 1 .. Cardinality(I) : Ascending(I)[m] = Ascending(I)[n] => m = n
<1> DEFINE UpTo(i) == {j \in I : j <= i}
           rank == [i \in I |-> Cardinality(UpTo(i))]
           N == Cardinality(I)
<1>1. N \in Nat
  BY FS_CardinalityType
<1>2. ASSUME NEW i \in I
      PROVE  /\ IsFiniteSet(UpTo(i)) /\ Cardinality(UpTo(i)) \in 1 .. N
  <2>1. UpTo(i) \in SUBSET I /\ i \in UpTo(i)
    OBVIOUS
  <2>2. IsFiniteSet(UpTo(i)) /\ Cardinality(UpTo(i)) <= N
    BY <2>1, FS_Subset, Zenon
  <2>3. Cardinality(UpTo(i)) \in Nat
    BY <2>2, FS_CardinalityType, Zenon
  <2>4. Cardinality(UpTo(i)) # 0
    BY <2>1, <2>2, FS_EmptySet, Zenon
  <2> HIDE DEF UpTo, N
  <2>q. QED  BY <1>1, <2>2, <2>3, <2>4
<1>3. ASSUME NEW i \in I, NEW k \in I, i < k
      PROVE  Cardinality(UpTo(i)) # Cardinality(UpTo(k))
  <2>1. UpTo(i) \in SUBSET UpTo(k) /\ k \in UpTo(k) /\ k \notin UpTo(i)
    <3>1. i \in Nat /\ k \in Nat /\ \A j \in Nat : j <= i => j <= k
      BY <1>3
    <3>2. UpTo(i) \in SUBSET UpTo(k)
      BY <3>1
    <3>q. QED  BY <1>3, <3>1, <3>2
  <2>2. IsFiniteSet(UpTo(k))
    BY <1>2
  <2>3. Cardinality(UpTo(k)) = Cardinality(UpTo(i)) => UpTo(k) = UpTo(i)
    BY <2>1, <2>2, FS_Subset, Zenon
  <2>q. QED  BY <2>1, <2>3, Zenon
<1>4. rank \in Injection(I, 1 .. N)
  <2>1. rank \in [I -> 1 .. N]
    BY <1>2
  <2>2. ASSUME NEW i \in I, NEW k \in I, rank[i] = rank[k]  PROVE i = k
    <3>1. i < k \/ k < i \/ i = k
      OBVIOUS
    <3>2. Cardinality(UpTo(i)) = Cardinality(UpTo(k))
      BY <2>2
    <3> HIDE DEF UpTo
    <3>q. QED  BY <1>3, <3>1, <3>2
  <2> HIDE DEF rank
  <2>q. QED  BY <2>1, <2>2 DEF Injection, IsInjective
<1>5. rank \in Surjection(I, 1 .. N)
  <2>1. IsFiniteSet(1 .. N) /\ Cardinality(1 .. N) = N
    <3> HIDE DEF N
    <3>1. 1 \in Int /\ N \in Int
      BY <1>1
    <3>2. IsFiniteSet(1 .. N) /\ Cardinality(1 .. N) = IF 1 > N THEN 0 ELSE N - 1 + 1
      BY <3>1, FS_Interval, Zenon
    <3>q. QED  BY <1>1, <3>2
  <2> HIDE DEF rank
  <2>2. Cardinality(I) = Cardinality(1 .. N)
    BY <2>1
  <2>q. QED  BY <1>4, <2>1, <2>2, FS_Injection, Zenon
<1>6. ASSUME NEW n \in 1 .. N
      PROVE  Ascending(I)[n] \in I /\ rank[Ascending(I)[n]] = n
  <2>1. PICK i \in I : rank[i] = n
    <3> HIDE DEF rank
    <3>q. QED  BY <1>5 DEF Surjection
  <2>2. \E j \in I : Cardinality(UpTo(j)) = n
    BY <2>1
  <2>3. Ascending(I)[n] = CHOOSE j \in I : Cardinality(UpTo(j)) = n
    BY DEF Ascending
  <2> HIDE DEF UpTo
  <2>4. Ascending(I)[n] \in I /\ Cardinality(UpTo(Ascending(I)[n])) = n
    BY <2>2, <2>3, Zenon
  <2>q. QED  BY <2>4
<1>7. Ascending(I) = [n \in 1 .. N |-> Ascending(I)[n]]
  <2> DEFINE Place(n) == CHOOSE i \in I : Cardinality({j \in I : j <= i}) = n
  <2>1. Ascending(I) = [n \in 1 .. N |-> Place(n)]
    BY DEF Ascending
  <2> HIDE DEF Place
  <2>q. QED  BY <2>1
<1>8. \A i \in I : \E n \in 1 .. N : Ascending(I)[n] = i
  <2>1. TAKE i \in I
  <2>2. rank[i] \in 1 .. N
    BY <1>2
  <2> HIDE DEF rank
  <2>3. rank[Ascending(I)[rank[i]]] = rank[i] /\ Ascending(I)[rank[i]] \in I
    BY <1>6, <2>2
  <2>4. Ascending(I)[rank[i]] = i
    BY <1>4, <2>3 DEF Injection, IsInjective
  <2>q. QED  BY <2>2, <2>4
<1> HIDE DEF rank, N
<1>9. \A m, n \in 1 .. N : Ascending(I)[m] = Ascending(I)[n] => m = n
  BY <1>6
<1>10. Ascending(I) \in [1 .. N -> I]
  BY <1>6, <1>7
<1>q. QED  BY <1>1, <1>8, <1>9, <1>10 DEF N

\* What is picked from a sequence: its elements at these places, each of them once.
Picks(t, s, I) ==
  \E p \in [DOMAIN t -> I] :
    /\ \A n \in DOMAIN t : t[n] = s[p[n]]
    /\ \A i \in I : \E n \in DOMAIN t : p[n] = i
    /\ \A m, n \in DOMAIN t : p[m] = p[n] => m = n

\* The elements at some places: each place once.
LEMMA InOrderFacts ==
  ASSUME NEW s, IsSeq(s), NEW I, I \subseteq DOMAIN s
  PROVE  /\ IsSeq(InOrder(s, I))
         /\ IsFiniteSet(I) /\ Len(InOrder(s, I)) = Cardinality(I)
         /\ Picks(InOrder(s, I), s, I)
<1> DEFINE S == ToSet(s)
<1>0. s \in Seq(S) /\ I \in SUBSET DOMAIN s
  BY DEF IsSeq
<1> HIDE DEF S
<1>1. I \in SUBSET Nat /\ DOMAIN s = 1 .. Len(s) /\ Len(s) \in Nat
  BY <1>0
<1>2. IsFiniteSet(I)
  <2>1. \A i \in I : i <= Len(s)
    BY <1>1
  <2>q. QED  BY <1>1, <2>1, FS_BoundedSetOfNaturals, Zenon
<1> DEFINE p == Ascending(I)
           N == Cardinality(I)
<1>3. /\ N \in Nat /\ p \in [1 .. N -> I]
      /\ \A i \in I : \E n \in 1 .. N : p[n] = i
      /\ \A m, n \in 1 .. N : p[m] = p[n] => m = n
  BY <1>1, <1>2, AscendingFacts, Zenon
<1>4. InOrder(s, I) = [n \in DOMAIN p |-> s[p[n]]]
  BY DEF InOrder
<1> HIDE DEF p, N
<1>5. DOMAIN p = 1 .. N
  BY <1>3
<1>6. \A n \in 1 .. N : s[p[n]] \in S
  BY <1>0, <1>3
<1>7. InOrder(s, I) \in Seq(S) /\ DOMAIN InOrder(s, I) = 1 .. N /\ Len(InOrder(s, I)) = N
  BY <1>3, <1>4, <1>5, <1>6
<1>8. \A n \in 1 .. N : InOrder(s, I)[n] = s[p[n]]
  BY <1>4, <1>5
<1> DEFINE t == InOrder(s, I)
<1>9. /\ p \in [DOMAIN t -> I]
      /\ \A n \in DOMAIN t : t[n] = s[p[n]]
      /\ \A i \in I : \E n \in DOMAIN t : p[n] = i
      /\ \A m, n \in DOMAIN t : p[m] = p[n] => m = n
  BY <1>3, <1>7, <1>8
<1> HIDE DEF t
<1>10. Picks(t, s, I)
  BY <1>9 DEF Picks
<1>11. Len(t) = Cardinality(I)
  BY <1>7 DEF N, t
<1>12. IsSeq(t)
  BY <1>7, SeqIsSeq DEF t
<1>q. QED  BY <1>2, <1>10, <1>11, <1>12 DEF t

\* How sequences are put one after the other.
LEMMA FlattenBuilds ==
  ASSUME NEW s, Len(s) \in Nat \ {0}
  PROVE  \E fl : /\ FlattenSeq(s) = fl[Len(s)]
                 /\ \A i \in 1 .. Len(s) : fl[i] = IF i = 1 THEN s[i] ELSE fl[i - 1] \o s[i]
<1> DEFINE Step(f, i) == IF i = 1 THEN s[i] ELSE f[i - 1] \o s[i]
           Made(f, m) == f = [i \in 1 .. m |-> Step(f, i)]
           n == Len(s)
<1>1. n # 0
  OBVIOUS
<1>2. FlattenSeq(s) = LET flatten[i \in 1 .. n] == Step(flatten, i) IN flatten[n]
  BY <1>1 DEF FlattenSeq
<1>3. n \in Nat \ {0}
  OBVIOUS
<1> HIDE DEF n
<1>4. \E f : Made(f, n)
  <2> DEFINE Bad == {m \in Nat \ {0} : ~\E f : Made(f, m)}
  <2>1. SUFFICES ASSUME Bad # {}  PROVE FALSE
    BY <1>3, Zenon
  <2>2. PICK m \in Bad : \A k \in Bad : m <= k
    <3>1. Bad \in SUBSET Nat
      OBVIOUS
    <3> HIDE DEF Bad
    <3>q. QED  BY <2>1, <3>1, LeastOne, Zenon
  <2>3. m \in Nat \ {0} /\ ~\E f : Made(f, m)
    OBVIOUS
  <2>4. CASE m = 1
    <3> DEFINE g == [i \in 1 .. 1 |-> s[i]]
    <3>1. g = [i \in 1 .. 1 |-> Step(g, i)]
      OBVIOUS
    <3>q. QED  BY <2>3, <2>4, <3>1
  <2>5. CASE m # 1
    <3>1. m - 1 \in Nat \ {0} /\ m - 1 \notin Bad
      <4>1. m - 1 \in Nat \ {0} /\ ~(m <= m - 1)
        BY <2>3, <2>5
      <4> HIDE DEF Bad
      <4>q. QED  BY <2>2, <4>1
    <3>2. PICK f : Made(f, m - 1)
      BY <3>1
    <3> DEFINE g == [i \in 1 .. m |-> IF i < m THEN f[i] ELSE f[m - 1] \o s[m]]
    <3>3. ASSUME NEW i \in 1 .. m  PROVE g[i] = Step(g, i)
      <4>1. CASE i = m
        <5>0. m \in 1 .. m /\ ~(m < m) /\ i # 1 /\ m - 1 \in 1 .. m /\ m - 1 < m
          BY <2>3, <2>5, <4>1
        <5>1. g[i] = f[m - 1] \o s[m] /\ i # 1 /\ m - 1 \in 1 .. m /\ m - 1 < m
          BY <5>0, <4>1
        <5>2. g[i - 1] = f[m - 1]
          BY <4>1, <5>1
        <5>q. QED  BY <4>1, <5>1, <5>2
      <4>2. CASE i # m
        <5>1. i \in 1 .. m - 1 /\ i < m
          BY <2>3, <4>2
        <5>2. g[i] = f[i] /\ f[i] = Step(f, i)
          BY <3>2, <5>1
        <5>3. i # 1 => g[i - 1] = f[i - 1]
          BY <2>3, <5>1
        <5>q. QED  BY <5>2, <5>3
      <4>q. QED  BY <4>1, <4>2
    <3>4. DOMAIN g = 1 .. m /\ g = [i \in DOMAIN g |-> g[i]]
      OBVIOUS
    <3> HIDE DEF g
    <3>5. g = [i \in 1 .. m |-> Step(g, i)]
      BY <3>3, <3>4
    <3>q. QED  BY <2>3, <3>5
  <2>q. QED  BY <2>4, <2>5
<1> DEFINE fl == CHOOSE f : Made(f, n)
<1>5. FlattenSeq(s) = fl[n]
  BY <1>2
<1>6. Made(fl, n)
  BY <1>4
<1> HIDE DEF fl
<1>7. \A i \in 1 .. n : fl[i] = Step(fl, i)
  BY <1>6
<1>q. QED  BY <1>5, <1>7 DEF n

\* What is picked are the elements at the places.
LEMMA PickedSet ==
  ASSUME NEW s, IsSeq(s), NEW I, I \subseteq DOMAIN s
  PROVE  ToSet(InOrder(s, I)) = {s[i] : i \in I}
<1> DEFINE t == InOrder(s, I)
<1>1. PICK p \in [DOMAIN t -> I] : /\ \A n \in DOMAIN t : t[n] = s[p[n]]
                                   /\ \A i \in I : \E n \in DOMAIN t : p[n] = i
  <2>1. Picks(t, s, I)
    BY InOrderFacts, Zenon
  <2> HIDE DEF t
  <2>q. QED  BY <2>1 DEF Picks
<1> HIDE DEF t
<1>2. \A n \in DOMAIN t : t[n] \in {s[i] : i \in I}
  BY <1>1
<1>3. \A i \in I : \E n \in DOMAIN t : t[n] = s[i]
  BY <1>1
<1>4. ToSet(t) = {s[i] : i \in I}
  BY <1>2, <1>3 DEF ToSet
<1>q. QED  BY <1>4 DEF t

\* Sequences one after the other have the elements of each.
LEMMA FlattenFacts ==
  ASSUME NEW S, NEW s \in Seq(Seq(S))
  PROVE  /\ FlattenSeq(s) \in Seq(S)
         /\ ToSet(FlattenSeq(s)) = UNION {ToSet(s[i]) : i \in DOMAIN s}
<1> DEFINE n == Len(s)
<1>1. CASE n = 0
  <2>1. s = <<>>
    BY <1>1
  <2>2. FlattenSeq(s) = <<>>
    BY <2>1 DEF FlattenSeq
  <2>3. DOMAIN s = {} /\ <<>> \in Seq(S) /\ ToSet(<<>>) = {}
    BY <2>1 DEF ToSet
  <2>4. UNION {ToSet(s[i]) : i \in DOMAIN s} = {}
    BY <2>3, Zenon
  <2>q. QED  BY <2>2, <2>3, <2>4
<1>2. CASE n # 0
  <2>1. n \in Nat \ {0} /\ DOMAIN s = 1 .. n /\ \A i \in 1 .. n : s[i] \in Seq(S)
    BY <1>2
  <2>2. PICK fl : /\ FlattenSeq(s) = fl[n]
                  /\ \A i \in 1 .. n : fl[i] = IF i = 1 THEN s[i] ELSE fl[i - 1] \o s[i]
    BY <2>1, FlattenBuilds
  <2> HIDE DEF n
  <2>3. FlattenSeq(s) = fl[n]
    BY <2>2
  <2>5. \A i \in 1 .. n : fl[i] = IF i = 1 THEN s[i] ELSE fl[i - 1] \o s[i]
    BY <2>2
  <2> DEFINE Parts(i) == UNION {ToSet(s[j]) : j \in 1 .. i}
             Holds(i) == fl[i] \in Seq(S) /\ ToSet(fl[i]) = Parts(i)
             Wrong == {i \in 1 .. n : ~Holds(i)}
  <2>6. Wrong = {}
    <3>1. SUFFICES ASSUME Wrong # {}  PROVE FALSE
      BY Zenon
    <3>2. PICK m \in Wrong : \A k \in Wrong : m <= k
      <4>1. Wrong \in SUBSET Nat
        BY <2>1
      <4> HIDE DEF Wrong
      <4>q. QED  BY <3>1, <4>1, LeastOne, Zenon
    <3>3. m \in 1 .. n /\ ~Holds(m)
      OBVIOUS
    <3>4. m \in Nat /\ m >= 1 /\ s[m] \in Seq(S)
      BY <2>1, <3>3
    <3>5. CASE m = 1
      <4>1. fl[m] = s[m] /\ Parts(m) = ToSet(s[m])
        <5>1. 1 .. m = {m}
          BY <3>5
        <5>2. fl[m] = s[m]
          BY <2>5, <3>3, <3>5
        <5>q. QED  BY <5>1, <5>2
      <4>q. QED  BY <3>3, <3>4, <4>1
    <3>6. CASE m # 1
      <4>1. m - 1 \in 1 .. n /\ m - 1 \notin Wrong
        <5>1. m - 1 \in 1 .. n /\ ~(m <= m - 1)
          BY <2>1, <3>3, <3>4, <3>6
        <5> HIDE DEF Wrong
        <5>q. QED  BY <3>2, <5>1
      <4>2. Holds(m - 1)
        BY <4>1
      <4>3. fl[m] = fl[m - 1] \o s[m]
        BY <2>5, <3>3, <3>6
      <4>4. fl[m] \in Seq(S) /\ ToSet(fl[m]) = ToSet(fl[m - 1]) \cup ToSet(s[m])
        <5>1. fl[m - 1] \in Seq(S)
          BY <4>2
        <5>2. \A a, b \in Seq(S) : a \o b \in Seq(S) /\ ToSet(a \o b) = ToSet(a) \cup ToSet(b)
          <6>1. TAKE a, b \in Seq(S)
          <6>2. a \o b \in Seq(S) /\ DOMAIN (a \o b) = 1 .. Len(a) + Len(b)
            OBVIOUS
          <6>3. \A i \in 1 .. Len(a) : (a \o b)[i] = a[i]
            OBVIOUS
          <6>4. \A i \in 1 .. Len(b) : (a \o b)[Len(a) + i] = b[i]
            OBVIOUS
          <6>5. \A i \in 1 .. Len(a) + Len(b) : i \in 1 .. Len(a) \/ \E j \in 1 .. Len(b) : i = Len(a) + j
            <7>1. TAKE i \in 1 .. Len(a) + Len(b)
            <7>2. i > Len(a) => i - Len(a) \in 1 .. Len(b) /\ i = Len(a) + (i - Len(a))
              OBVIOUS
            <7>q. QED  BY <7>2
          <6>6. ToSet(a \o b) \subseteq ToSet(a) \cup ToSet(b)
            <7>1. ASSUME NEW i \in 1 .. Len(a) + Len(b)
                  PROVE  (a \o b)[i] \in ToSet(a) \cup ToSet(b)
              <8>1. CASE i \in 1 .. Len(a)
                BY <6>3, <8>1 DEF ToSet
              <8>2. CASE \E j \in 1 .. Len(b) : i = Len(a) + j
                BY <6>4, <8>2 DEF ToSet
              <8>q. QED  BY <6>5, <8>1, <8>2
            <7>q. QED  BY <6>2, <7>1 DEF ToSet
          <6>7. ToSet(a) \subseteq ToSet(a \o b) /\ ToSet(b) \subseteq ToSet(a \o b)
            <7>1. \A i \in 1 .. Len(b) : Len(a) + i \in 1 .. Len(a) + Len(b)
              OBVIOUS
            <7>2. \A i \in 1 .. Len(a) : i \in 1 .. Len(a) + Len(b)
              OBVIOUS
            <7>3. DOMAIN a = 1 .. Len(a) /\ DOMAIN b = 1 .. Len(b)
              OBVIOUS
            <7> DEFINE N == 1 .. Len(a) + Len(b)
            <7>4. ToSet(a \o b) = {(a \o b)[i] : i \in N}
              BY <6>2 DEF ToSet
            <7> HIDE DEF N
            <7>5. ToSet(a) \subseteq ToSet(a \o b)
              BY <6>3, <7>2, <7>3, <7>4 DEF ToSet, N
            <7>6. ToSet(b) \subseteq ToSet(a \o b)
              BY <6>4, <7>1, <7>3, <7>4 DEF ToSet, N
            <7>q. QED  BY <7>5, <7>6
          <6>q. QED  BY <6>2, <6>6, <6>7
        <5>q. QED  BY <3>4, <4>3, <5>1, <5>2
      <4>5. Parts(m) = Parts(m - 1) \cup ToSet(s[m])
        <5>1. 1 .. m = (1 .. m - 1) \cup {m}
          BY <3>4, <3>6
        <5>q. QED  BY <5>1
      <4>q. QED  BY <3>3, <4>2, <4>4, <4>5
    <3>q. QED  BY <3>5, <3>6
  <2>7. Holds(n)
    <3>1. n \in 1 .. n /\ n \notin Wrong
      <4>1. n \in 1 .. n
        BY <2>1
      <4> HIDE DEF Wrong
      <4>q. QED  BY <2>6, <4>1
    <3>q. QED  BY <3>1, Zenon
  <2>q. QED  BY <2>1, <2>3, <2>7
<1>q. QED  BY <1>1, <1>2

\* One function has the values of another, each as often.
Rearranged(f, g) ==
  \E p \in [DOMAIN f -> DOMAIN g] :
    /\ \A x \in DOMAIN f : f[x] = g[p[x]]
    /\ \A y \in DOMAIN g : \E x \in DOMAIN f : p[x] = y
    /\ \A x, y \in DOMAIN f : p[x] = p[y] => x = y

\* The places in sequences of sequences.
Spots(s) == UNION {{i} \X DOMAIN s[i] : i \in DOMAIN s}

\* Each place has its own when the sequences are put one after the other.
LEMMA FlattenPlaces ==
  ASSUME NEW S, NEW s \in Seq(Seq(S))
  PROVE  Rearranged([q \in Spots(s) |-> s[q[1]][q[2]]], FlattenSeq(s))
<1> DEFINE n == Len(s)
           To(m) == {q \in Spots(s) : q[1] <= m}
           Of(m) == [q \in To(m) |-> s[q[1]][q[2]]]
<1>0. n \in Nat /\ DOMAIN s = 1 .. n /\ \A i \in 1 .. n : s[i] \in Seq(S) /\ IsSeq(s[i])
  <2>1. \A i \in 1 .. n : s[i] \in Seq(S)
    OBVIOUS
  <2>2. \A i \in 1 .. n : IsSeq(s[i])
    BY <2>1, SeqIsSeq
  <2>q. QED  BY <2>1, <2>2
<1>00. \A q \in Spots(s) : q[1] \in 1 .. n /\ q[2] \in DOMAIN s[q[1]] /\ q = <<q[1], q[2]>>
  BY <1>0 DEF Spots
<1>01. \A i \in 1 .. n : \A k \in DOMAIN s[i] :
         <<i, k>> \in Spots(s) /\ <<i, k>>[1] = i /\ <<i, k>>[2] = k
  BY <1>0 DEF Spots
<1>1. CASE n = 0
  <2>1. s = <<>> /\ FlattenSeq(s) = <<>> /\ Spots(s) = {}
    BY <1>0, <1>00, <1>1 DEF FlattenSeq
  <2> DEFINE p == [q \in {} |-> 0]
             f == [q \in Spots(s) |-> s[q[1]][q[2]]]
  <2>2. DOMAIN f = {} /\ DOMAIN FlattenSeq(s) = {}
    BY <2>1
  <2>3. p \in [{} -> {}]
    OBVIOUS
  <2> HIDE DEF f, p
  <2>4. Rearranged(f, FlattenSeq(s))
    BY <2>2, <2>3 DEF Rearranged
  <2>q. QED  BY <2>4 DEF f
<1>2. CASE n # 0
  <2>1. PICK fl : /\ FlattenSeq(s) = fl[n]
                  /\ \A i \in 1 .. n : fl[i] = IF i = 1 THEN s[i] ELSE fl[i - 1] \o s[i]
    <3>1. Len(s) \in Nat \ {0}
      BY <1>0, <1>2
    <3>q. QED  BY <3>1, FlattenBuilds
  <2> HIDE DEF n
  <2> DEFINE Holds(m) == IsSeq(fl[m]) /\ Rearranged(Of(m), fl[m])
             Wrong == {m \in 1 .. n : ~Holds(m)}
  <2>2. Wrong = {}
    <3>1. SUFFICES ASSUME Wrong # {}  PROVE FALSE
      BY Zenon
    <3>2. PICK m \in Wrong : \A k \in Wrong : m <= k
      <4>1. Wrong \in SUBSET Nat
        BY <1>0
      <4> HIDE DEF Wrong
      <4>q. QED  BY <3>1, <4>1, LeastOne, Zenon
    <3>3. m \in 1 .. n /\ ~Holds(m)
      OBVIOUS
    <3>4. m \in Nat /\ m >= 1 /\ IsSeq(s[m])
      BY <1>0, <3>3
    <3>5. CASE m = 1
      <4> DEFINE f == Of(m)
                 p == [q \in To(m) |-> q[2]]
      <4>1. fl[m] = s[m]
        BY <2>1, <3>3, <3>5
      <4>2. \A q \in To(m) : q[1] = m /\ q[2] \in DOMAIN s[m] /\ q = <<m, q[2]>>
        BY <1>0, <1>00, <3>5
      <4>3. \A k \in DOMAIN s[m] : <<m, k>> \in To(m) /\ p[<<m, k>>] = k
        BY <1>01, <3>3
      <4>4. /\ DOMAIN f = To(m) /\ \A q \in To(m) : f[q] = s[m][p[q]]
            /\ p \in [To(m) -> DOMAIN s[m]]
            /\ \A q, r \in To(m) : p[q] = p[r] => q = r
        BY <4>2
      <4> HIDE DEF f, p, To
      <4>5. \A k \in DOMAIN s[m] : \E q \in To(m) : p[q] = k
        BY <4>3
      <4>6. /\ p \in [DOMAIN f -> DOMAIN s[m]]
            /\ \A q \in DOMAIN f : f[q] = s[m][p[q]]
            /\ \A k \in DOMAIN s[m] : \E q \in DOMAIN f : p[q] = k
            /\ \A q, r \in DOMAIN f : p[q] = p[r] => q = r
        BY <4>4, <4>5
      <4>7. Rearranged(f, s[m])
        BY <4>6, Zenon DEF Rearranged
      <4>q. QED  BY <3>3, <3>4, <4>1, <4>7 DEF f
    <3>6. CASE m # 1
      <4>1. m - 1 \in 1 .. n /\ m - 1 \notin Wrong
        <5>1. m - 1 \in 1 .. n /\ ~(m <= m - 1)
          BY <1>0, <3>3, <3>4, <3>6
        <5> HIDE DEF Wrong
        <5>q. QED  BY <3>2, <5>1
      <4>2. Holds(m - 1)
        BY <4>1
      <4> DEFINE a == fl[m - 1]
                 b == s[m]
                 f == Of(m)
      <4>3. fl[m] = a \o b
        BY <2>1, <3>3, <3>6
      <4>4. PICK g \in [To(m - 1) -> DOMAIN a] :
              /\ \A q \in To(m - 1) : Of(m - 1)[q] = a[g[q]]
              /\ \A y \in DOMAIN a : \E q \in To(m - 1) : g[q] = y
              /\ \A q, r \in To(m - 1) : g[q] = g[r] => q = r
        <5>1. DOMAIN Of(m - 1) = To(m - 1)
          OBVIOUS
        <5>2. Rearranged(Of(m - 1), a)
          BY <4>2
        <5> HIDE DEF Of, To, a
        <5>q. QED  BY <5>1, <5>2 DEF Rearranged
      <4>5. /\ \A q \in To(m) : q \in To(m - 1) \/ (q[1] = m /\ q[2] \in DOMAIN b /\ q = <<m, q[2]>>)
            /\ To(m - 1) \subseteq To(m) /\ \A q \in To(m - 1) : q[1] < m
        BY <1>0, <1>00, <3>3, <3>4, <4>1
      <4>6. \A k \in DOMAIN b : <<m, k>> \in To(m) /\ <<m, k>>[1] = m /\ <<m, k>>[2] = k
        BY <1>01, <3>3, <3>4
      <4> DEFINE p == [q \in To(m) |-> IF q[1] < m THEN g[q] ELSE Len(a) + q[2]]
      <4>7. \A q \in To(m - 1) : p[q] = g[q] /\ f[q] = a[g[q]] /\ g[q] \in DOMAIN a
        <5>1. TAKE q \in To(m - 1)
        <5>2. q \in To(m) /\ q[1] < m
          BY <4>5
        <5>3. Of(m - 1)[q] = s[q[1]][q[2]] /\ Of(m)[q] = s[q[1]][q[2]] /\ p[q] = g[q]
          BY <5>2
        <5>q. QED  BY <4>4, <5>3
      <4>8. \A k \in DOMAIN b : p[<<m, k>>] = Len(a) + k /\ f[<<m, k>>] = b[k]
        <5>1. TAKE k \in DOMAIN b
        <5>2. <<m, k>> \in To(m) /\ <<m, k>>[1] = m /\ <<m, k>>[2] = k /\ ~(m < m)
          BY <3>4, <4>6
        <5> DEFINE q == <<m, k>>
        <5> HIDE DEF To, q
        <5>3. q \in To(m) /\ q[1] = m /\ q[2] = k /\ ~(q[1] < m)
          BY <5>2 DEF q
        <5>4. p[q] = Len(a) + k /\ f[q] = b[k]
          BY <5>3
        <5>q. QED  BY <5>4 DEF q
      <4>9. DOMAIN f = To(m) /\ DOMAIN p = To(m)
        OBVIOUS
      <4>0. p = [q \in To(m) |-> p[q]]
        OBVIOUS
      <4>10. IsSeq(a) /\ IsSeq(b)
        BY <3>4, <4>2
      <4> HIDE DEF f, p, To, a, b, Holds, Wrong
      <4>11. /\ IsSeq(a \o b) /\ Len(a) \in Nat /\ DOMAIN a = 1 .. Len(a)
             /\ \A i \in DOMAIN a : i \in DOMAIN (a \o b) /\ (a \o b)[i] = a[i]
             /\ \A i \in DOMAIN b : Len(a) + i \in DOMAIN (a \o b) /\ (a \o b)[Len(a) + i] = b[i]
             /\ \A i \in DOMAIN (a \o b) : i \in DOMAIN a \/ \E j \in DOMAIN b : i = Len(a) + j
             /\ \A j \in DOMAIN b : j \in Nat /\ j >= 1
        <5>1. IsSeq(a \o b)
          BY <4>10, JoinedFacts, Zenon
        <5>6. Len(a) \in Nat /\ DOMAIN a = 1 .. Len(a)
          BY <4>10, SeqFacts, Zenon
        <5>2. \A i \in DOMAIN a : i \in DOMAIN (a \o b) /\ (a \o b)[i] = a[i]
          BY <4>10, JoinedFacts, Zenon
        <5>3. \A i \in DOMAIN b : Len(a) + i \in DOMAIN (a \o b) /\ (a \o b)[Len(a) + i] = b[i]
          <6>1. \A i \in DOMAIN b : Len(a) + i \in DOMAIN (a \o b)
            BY <4>10, JoinedFacts, Zenon
          <6>2. ASSUME NEW i \in DOMAIN b  PROVE (a \o b)[Len(a) + i] = b[i]
            BY <4>10, JoinedFacts, Z3
          <6>q. QED  BY <6>1, <6>2
        <5>4. \A i \in DOMAIN (a \o b) : i \in DOMAIN a \/ \E j \in DOMAIN b : i = Len(a) + j
          BY <4>10, JoinedFacts, Zenon
        <5>5. \A j \in DOMAIN b : j \in Nat /\ j >= 1
          <6>1. DOMAIN b = 1 .. Len(b) /\ Len(b) \in Nat
            BY <4>10, SeqFacts, Zenon
          <6>q. QED  BY <6>1
        <5>q. QED  BY <5>1, <5>2, <5>3, <5>4, <5>5, <5>6
      <4>12. \A q \in To(m) : p[q] \in DOMAIN (a \o b) /\ f[q] = (a \o b)[p[q]]
        BY <4>5, <4>7, <4>8, <4>11
      <4>13. ASSUME NEW y \in DOMAIN (a \o b)  PROVE \E q \in To(m) : p[q] = y
        <5>1. CASE y \in DOMAIN a
          <6>1. PICK q \in To(m - 1) : g[q] = y
            BY <4>4, <5>1
          <6>q. QED  BY <4>5, <4>7, <6>1
        <5>2. CASE \E j \in DOMAIN b : y = Len(a) + j
          <6>1. PICK j \in DOMAIN b : y = Len(a) + j
            BY <5>2
          <6>2. <<m, j>> \in To(m) /\ p[<<m, j>>] = y
            BY <4>6, <4>8, <6>1
          <6>q. QED  BY <6>2, Zenon
        <5>q. QED  BY <4>11, <5>1, <5>2
      <4>14. ASSUME NEW q \in To(m), NEW r \in To(m), p[q] = p[r]  PROVE q = r
        <5>1. \A x \in To(m) : \/ x \in To(m - 1) /\ p[x] = g[x] /\ p[x] \in 1 .. Len(a)
                               \/ \E k \in DOMAIN b : x = <<m, k>> /\ p[x] = Len(a) + k
          BY <4>5, <4>7, <4>8, <4>11
        <5>2. \A k \in DOMAIN b : Len(a) + k \notin 1 .. Len(a)
          BY <4>11
        <5>3. \A j, k \in DOMAIN b : Len(a) + j = Len(a) + k => j = k
          BY <4>11
        <5>4. CASE q \in To(m - 1) /\ r \in To(m - 1)
          BY <4>4, <4>7, <4>14, <5>4
        <5>5. CASE q \notin To(m - 1) \/ r \notin To(m - 1)
          BY <4>14, <5>1, <5>2, <5>3, <5>5
        <5>q. QED  BY <5>4, <5>5
      <4>15. p \in [To(m) -> DOMAIN (a \o b)]
        BY <4>0, <4>12
      <4>16. Rearranged(f, a \o b)
        <5>1. /\ p \in [DOMAIN f -> DOMAIN (a \o b)]
              /\ \A q \in DOMAIN f : f[q] = (a \o b)[p[q]]
              /\ \A y \in DOMAIN (a \o b) : \E q \in DOMAIN f : p[q] = y
              /\ \A q, r \in DOMAIN f : p[q] = p[r] => q = r
          BY <4>9, <4>12, <4>13, <4>14, <4>15
        <5>q. QED  BY <5>1, Zenon DEF Rearranged
      <4>17. Holds(m)
        BY <4>3, <4>11, <4>16 DEF f, Holds
      <4>q. QED  BY <3>3, <4>17
    <3>q. QED  BY <3>5, <3>6
  <2>3. Holds(n)
    <3>1. n \in 1 .. n /\ n \notin Wrong
      <4>1. n \in 1 .. n
        BY <1>0, <1>2
      <4> HIDE DEF Wrong
      <4>q. QED  BY <2>2, <4>1
    <3>q. QED  BY <3>1, Zenon
  <2>4. To(n) = Spots(s)
    BY <1>0, <1>00
  <2>q. QED  BY <2>1, <2>3, <2>4
<1>q. QED  BY <1>1, <1>2

-----------------------------------------------------------------------------
(* Sums *)

\* Of some subsets of a finite set, one is left by whatever is taken from it.
LEMMA LeastSet ==
  ASSUME NEW D, IsFiniteSet(D), NEW W \in SUBSET SUBSET D, W # {}
  PROVE  \E s \in W : \A x \in s : s \ {x} \notin W
<1> DEFINE Sizes == {Cardinality(s) : s \in W}
<1>1. \A s \in SUBSET D : IsFiniteSet(s) /\ Cardinality(s) \in Nat
  BY FS_Subset, FS_CardinalityType, Zenon
<1>2. Sizes \in SUBSET Nat /\ Sizes # {}
  BY <1>1
<1>3. PICK m \in Sizes : \A n \in Sizes : m <= n
  <2> HIDE DEF Sizes
  <2>q. QED  BY <1>2, LeastOne
<1>4. PICK s \in W : Cardinality(s) = m
  OBVIOUS
<1>5. ASSUME NEW x \in s, s \ {x} \in W  PROVE FALSE
  <2>1. IsFiniteSet(s) /\ Cardinality(s) \in Nat /\ Cardinality(s \ {x}) \in Nat
    BY <1>1, <1>5
  <2>2. Cardinality(s \ {x}) = IF x \in s THEN Cardinality(s) - 1 ELSE Cardinality(s)
    BY <2>1, FS_RemoveElement, Zenon
  <2>3. m <= Cardinality(s \ {x})
    BY <1>3, <1>5
  <2>q. QED  BY <1>4, <2>1, <2>2, <2>3
<1>q. QED  BY <1>5

\* What the sums over the parts of a function's domain are: any element may come first.
Adds(sum, f) ==
  /\ sum[{}] = 0
  /\ \A s \in SUBSET DOMAIN f : sum[s] \in Nat
  /\ \A s \in SUBSET DOMAIN f : \A x \in s : sum[s] = f[x] + sum[s \ {x}]

LEMMA SumFacts ==
  ASSUME NEW f, IsFiniteSet(DOMAIN f), \A x \in DOMAIN f : f[x] \in Nat
  PROVE  \E sum : Adds(sum, f) /\ SumFunction(f) = sum[DOMAIN f]
<1> DEFINE D == DOMAIN f
           First(s) == CHOOSE x \in s : TRUE
           Step(g, s) == IF s = {} THEN 0 ELSE f[First(s)] + g[s \ {First(s)}]
           Small(n) == {s \in SUBSET D : Cardinality(s) <= n}
           Made(g, n) == g = [s \in Small(n) |-> Step(g, s)]
<1>1. /\ \A s \in SUBSET D : IsFiniteSet(s) /\ Cardinality(s) \in Nat
      /\ \A s \in SUBSET D : Cardinality(s) <= Cardinality(D)
      /\ \A s \in SUBSET D : Cardinality(s) = 0 <=> s = {}
      /\ \A s \in SUBSET D : \A x \in s : Cardinality(s \ {x}) = Cardinality(s) - 1
  <2>1. \A s \in SUBSET D : IsFiniteSet(s) /\ Cardinality(s) <= Cardinality(D)
    BY FS_Subset, Zenon
  <2>2. \A s \in SUBSET D : Cardinality(s) \in Nat /\ (Cardinality(s) = 0 <=> s = {})
    BY <2>1, FS_CardinalityType, FS_EmptySet, Zenon
  <2>3. ASSUME NEW s \in SUBSET D, NEW x \in s  PROVE Cardinality(s \ {x}) = Cardinality(s) - 1
    BY <2>1, FS_RemoveElement, Zenon
  <2>q. QED  BY <2>1, <2>2, <2>3
<1>2. \A s : s # {} => First(s) \in s
  OBVIOUS
<1> HIDE DEF First, D
<1>3. \A n \in Nat : \E g : Made(g, n)
  <2> DEFINE Bad == {n \in Nat : ~\E g : Made(g, n)}
  <2>1. SUFFICES ASSUME Bad # {}  PROVE FALSE
    BY Zenon
  <2>2. PICK n \in Bad : \A k \in Bad : n <= k
    <3>1. Bad \in SUBSET Nat
      OBVIOUS
    <3> HIDE DEF Bad
    <3>q. QED  BY <2>1, <3>1, LeastOne, Zenon
  <2>3. n \in Nat /\ ~\E g : Made(g, n)
    OBVIOUS
  <2>4. CASE n = 0
    <3> DEFINE g == [s \in Small(0) |-> 0]
    <3>1. \A s \in Small(0) : s = {}
      BY <1>1
    <3>2. g = [s \in Small(0) |-> Step(g, s)]
      BY <3>1
    <3>q. QED  BY <2>3, <2>4, <3>2
  <2>5. CASE n # 0
    <3>1. n - 1 \in Nat /\ n - 1 \notin Bad
      <4>1. n - 1 \in Nat /\ ~(n <= n - 1)
        BY <2>3, <2>5
      <4> HIDE DEF Bad
      <4>q. QED  BY <2>2, <4>1
    <3>2. PICK h : Made(h, n - 1)
      BY <3>1
    <3> DEFINE g == [s \in Small(n) |-> IF s \in Small(n - 1) THEN h[s] ELSE Step(h, s)]
    <3>3. ASSUME NEW s \in Small(n)  PROVE g[s] = Step(g, s)
      <4>1. g[s] = Step(h, s)
        <5>1. CASE s \in Small(n - 1)
          <6>1. h[s] = Step(h, s)
            <7> HIDE DEF Step, Small
            <7>q. QED  BY <3>2, <5>1
          <6>q. QED  BY <5>1, <6>1
        <5>q. QED  BY <5>1
      <4>2. ASSUME s # {}  PROVE g[s \ {First(s)}] = h[s \ {First(s)}]
        <5>1. s \in SUBSET D /\ Cardinality(s) <= n /\ First(s) \in s
          BY <1>2, <4>2
        <5>2. s \ {First(s)} \in SUBSET D /\ Cardinality(s \ {First(s)}) = Cardinality(s) - 1
          BY <1>1, <5>1
        <5>3. Cardinality(s) - 1 <= n - 1 /\ Cardinality(s) - 1 <= n
          BY <1>1, <2>3, <5>1
        <5>4. s \ {First(s)} \in Small(n - 1) /\ s \ {First(s)} \in Small(n)
          BY <5>2, <5>3
        <5>q. QED  BY <5>4
      <4> HIDE DEF g
      <4>q. QED  BY <4>1, <4>2
    <3>4. g = [s \in Small(n) |-> g[s]]
      OBVIOUS
    <3> HIDE DEF g, Step, Small
    <3>5. Made(g, n)
      BY <3>3, <3>4
    <3>q. QED  BY <2>3, <3>5
  <2>q. QED  BY <2>4, <2>5
<1> DEFINE sum == CHOOSE g : g = [s \in SUBSET D |-> Step(g, s)]
<1>4. sum = [s \in SUBSET D |-> Step(sum, s)]
  <2>1. Cardinality(D) \in Nat
    BY FS_CardinalityType, Zenon DEF D
  <2>2. Small(Cardinality(D)) = SUBSET D
    BY <1>1
  <2>3. \E g : g = [s \in SUBSET D |-> Step(g, s)]
    <3>1. PICK g : Made(g, Cardinality(D))
      BY <1>3, <2>1
    <3> HIDE DEF Step, Small
    <3>q. QED  BY <2>2, <3>1
  <2> HIDE DEF Step
  <2>q. QED  BY <2>3, Zenon
<1>5. SumFunction(f) = sum[D]
  BY Zenon DEF SumFunction, SumFunctionOnSet, FoldFunctionOnSet, MapThenFoldSet, D, First
<1> HIDE DEF sum
<1>6. /\ sum[{}] = 0
      /\ \A s \in SUBSET D : s # {} => sum[s] = f[First(s)] + sum[s \ {First(s)}]
  <2>1. \A s \in SUBSET D : sum[s] = Step(sum, s)
    <3> HIDE DEF Step
    <3>q. QED  BY <1>4
  <2>q. QED  BY <2>1
<1>7. \A s \in SUBSET D : sum[s] \in Nat
  <2> DEFINE W == {s \in SUBSET D : sum[s] \notin Nat}
  <2>1. SUFFICES ASSUME W # {}  PROVE FALSE
    OBVIOUS
  <2>2. PICK s \in W : \A x \in s : s \ {x} \notin W
    <3>1. IsFiniteSet(D) /\ W \in SUBSET SUBSET D
      BY DEF D
    <3> HIDE DEF W
    <3>q. QED  BY <2>1, <3>1, LeastSet, Zenon
  <2>3. s \in SUBSET D /\ sum[s] \notin Nat
    OBVIOUS
  <2> HIDE DEF W, Step, Small
  <2>4. s # {}
    <3>1. sum[{}] \in Nat
      BY <1>6
    <3>q. QED  BY <2>3, <3>1
  <2>5. First(s) \in s /\ s \ {First(s)} \in SUBSET D
    BY <1>2, <2>3, <2>4
  <2>6. sum[s \ {First(s)}] \in Nat /\ f[First(s)] \in Nat
    BY <2>2, <2>3, <2>5 DEF D, W
  <2>7. sum[s] = f[First(s)] + sum[s \ {First(s)}]
    BY <1>6, <2>3, <2>4
  <2>q. QED  BY <2>3, <2>6, <2>7
<1>8. \A s \in SUBSET D : \A x \in s : sum[s] = f[x] + sum[s \ {x}]
  <2> DEFINE W == {s \in SUBSET D : \E x \in s : sum[s] # f[x] + sum[s \ {x}]}
  <2>1. SUFFICES ASSUME W # {}  PROVE FALSE
    OBVIOUS
  <2>2. PICK s \in W : \A x \in s : s \ {x} \notin W
    <3>1. IsFiniteSet(D) /\ W \in SUBSET SUBSET D
      BY DEF D
    <3> HIDE DEF W
    <3>q. QED  BY <2>1, <3>1, LeastSet, Zenon
  <2>3. PICK x \in s : sum[s] # f[x] + sum[s \ {x}]
    OBVIOUS
  <2> DEFINE y == First(s)
  <2>4. s \in SUBSET D /\ s # {} /\ y \in s
    BY <1>2, <2>3
  <2>5. sum[s] = f[y] + sum[s \ {y}]
    BY <1>6, <2>4
  <2> HIDE DEF y
  <2>6. x # y
    BY <2>3, <2>5
  <2>7. /\ s \ {x} \in SUBSET D /\ s \ {y} \in SUBSET D /\ s \ {x, y} \in SUBSET D
        /\ y \in s \ {x} /\ x \in s \ {y}
        /\ (s \ {x}) \ {y} = s \ {x, y} /\ (s \ {y}) \ {x} = s \ {x, y}
    BY <2>4, <2>6
  <2>8. sum[s \ {x}] = f[y] + sum[s \ {x, y}] /\ sum[s \ {y}] = f[x] + sum[s \ {x, y}]
    BY <2>2, <2>4, <2>7
  <2>9. f[x] \in Nat /\ f[y] \in Nat /\ sum[s \ {x, y}] \in Nat
    BY <1>7, <2>4, <2>7 DEF D
  <2>q. QED  BY <2>3, <2>5, <2>8, <2>9
<1>q. QED  BY <1>5, <1>6, <1>7, <1>8 DEF Adds, D

\* Two sums are one when what counts in the first is what the second adds up.
LEMMA SameSum ==
  ASSUME NEW f, IsFiniteSet(DOMAIN f), \A x \in DOMAIN f : f[x] \in Nat,
         NEW g, IsFiniteSet(DOMAIN g), \A y \in DOMAIN g : g[y] \in Nat,
         NEW D \in SUBSET DOMAIN f, \A x \in DOMAIN f \ D : f[x] = 0,
         NEW h \in [D -> DOMAIN g], \A x \in D : f[x] = g[h[x]],
         \A x, y \in D : h[x] = h[y] => x = y,
         \A y \in DOMAIN g : \E x \in D : h[x] = y
  PROVE  SumFunction(f) = SumFunction(g)
<1>1. PICK sf : Adds(sf, f) /\ SumFunction(f) = sf[DOMAIN f]
  BY SumFacts, Zenon
<1>2. PICK sg : Adds(sg, g) /\ SumFunction(g) = sg[DOMAIN g]
  BY SumFacts, Zenon
<1> DEFINE Image(s) == {h[x] : x \in s \cap D}
           W == {s \in SUBSET DOMAIN f : sf[s] # sg[Image(s)]}
<1>3. W = {}
  <2>1. SUFFICES ASSUME W # {}  PROVE FALSE
    OBVIOUS
  <2>2. PICK s \in W : \A x \in s : s \ {x} \notin W
    <3>1. W \in SUBSET SUBSET DOMAIN f
      OBVIOUS
    <3> HIDE DEF W
    <3>q. QED  BY <2>1, <3>1, LeastSet, Zenon
  <2>3. s \in SUBSET DOMAIN f /\ sf[s] # sg[Image(s)]
    OBVIOUS
  <2>4. s # {}
    <3>1. ASSUME s = {}  PROVE FALSE
      <4>1. Image(s) = {}
        BY <3>1
      <4>2. sf[{}] = 0 /\ sg[{}] = 0
        BY <1>1, <1>2 DEF Adds
      <4> HIDE DEF Image
      <4>q. QED  BY <2>3, <3>1, <4>1, <4>2
    <3>q. QED  BY <3>1
  <2>5. PICK x \in s : TRUE
    BY <2>4
  <2>6. sf[s] = f[x] + sf[s \ {x}] /\ sf[s \ {x}] = sg[Image(s \ {x})] /\ sf[s \ {x}] \in Nat
    <3>1. s \ {x} \in SUBSET DOMAIN f
      BY <2>3
    <3>2. sf[s \ {x}] = sg[Image(s \ {x})]
      BY <2>2, <3>1
    <3>q. QED  BY <1>1, <2>3, <3>1, <3>2 DEF Adds
  <2>7. CASE x \in D
    <3>1. Image(s) \in SUBSET DOMAIN g /\ h[x] \in Image(s)
      BY <2>7
    <3>2. Image(s) \ {h[x]} = Image(s \ {x})
      BY <2>7
    <3> HIDE DEF Image
    <3>3. sg[Image(s)] = g[h[x]] + sg[Image(s) \ {h[x]}]
      BY <1>2, <3>1 DEF Adds
    <3>q. QED  BY <2>3, <2>6, <2>7, <3>2, <3>3
  <2>8. CASE x \notin D
    <3>1. Image(s) = Image(s \ {x}) /\ f[x] = 0
      BY <2>3, <2>8
    <3> HIDE DEF Image
    <3>q. QED  BY <2>3, <2>6, <3>1
  <2>q. QED  BY <2>7, <2>8
<1>4. Image(DOMAIN f) = DOMAIN g
  OBVIOUS
<1>5. sf[DOMAIN f] = sg[Image(DOMAIN f)]
  BY <1>3
<1> HIDE DEF Image
<1>q. QED  BY <1>1, <1>2, <1>4, <1>5
=============================================================================
