------------------------------ MODULE DataFacts ------------------------------
(***************************************************************************)
(* What the proofs cite about data whatever the system does with it: what  *)
(* Append and Tail do to a queue and to the elements it holds, which sets  *)
(* have a least, a greatest or a minimal element, that a finite set can be *)
(* sorted, what a sum over a finite set is and that a recursive definition *)
(* over an interval defines something.                                     *)
(***************************************************************************)
EXTENDS Integers, Sequences, FiniteSets, Functions, SequenceTheorems, FiniteSetTheorems,
        WellFoundedInduction, TLAPS

(* The elements of a sequence, and no element twice.                       *)
Elements(q) == {q[i] : i \in 1 .. Len(q)}
NoRepeats(q) == \A i, j \in 1 .. Len(q) : q[i] = q[j] => i = j

(* What taking the head of a queue returns and leaves.                     *)
LEMMA TailFacts ==
    ASSUME NEW S, NEW q \in Seq(S), q # <<>>
    PROVE  /\ Head(q) \in S
           /\ Head(q) = q[1]
           /\ Tail(q) \in Seq(S)
           /\ Len(Tail(q)) = Len(q) - 1
           /\ Len(q) \in Nat /\ Len(q) >= 1
           /\ \A i \in 1 .. Len(q) - 1 : Tail(q)[i] = q[i + 1]
  OBVIOUS

(* What appending keeps and adds.                                          *)
LEMMA AppendFacts ==
    ASSUME NEW S, NEW q \in Seq(S), NEW e \in S
    PROVE  /\ Append(q, e) \in Seq(S)
           /\ Len(Append(q, e)) = Len(q) + 1
           /\ \A i \in 1 .. Len(q) : Append(q, e)[i] = q[i]
           /\ Append(q, e)[Len(q) + 1] = e
  OBVIOUS

(* Appending adds one element, and repeats nothing that was not there.     *)
LEMMA AppendElements ==
    ASSUME NEW S, NEW q \in Seq(S), NEW e \in S
    PROVE  /\ Elements(Append(q, e)) = Elements(q) \cup {e}
           /\ NoRepeats(q) /\ e \notin Elements(q) => NoRepeats(Append(q, e))
<1> DEFINE r == Append(q, e)
<1>1. /\ Len(q) \in Nat
      /\ Len(r) = Len(q) + 1
      /\ \A i \in 1 .. Len(q) : r[i] = q[i]
      /\ r[Len(q) + 1] = e
  BY AppendFacts
<1> HIDE DEF r
<1>2. Elements(r) = Elements(q) \cup {e}
  <2>1. \A x \in Elements(r) : x \in Elements(q) \cup {e}
    BY <1>1 DEF Elements
  <2>2. \A x \in Elements(q) : x \in Elements(r)
    BY <1>1 DEF Elements
  <2>3. e \in Elements(r)
    BY <1>1 DEF Elements
  <2>4. QED
    BY <2>1, <2>2, <2>3
<1>3. ASSUME NoRepeats(q), e \notin Elements(q),
             NEW i \in 1 .. Len(r), NEW j \in 1 .. Len(r), r[i] = r[j]
      PROVE  i = j
  BY <1>1, <1>3 DEF Elements, NoRepeats
<1>4. QED
  BY <1>2, <1>3 DEF r, NoRepeats

(* Taking the head removes just that element.                              *)
LEMMA TailElements ==
    ASSUME NEW S, NEW q \in Seq(S), q # <<>>, NoRepeats(q)
    PROVE  /\ Elements(Tail(q)) = Elements(q) \ {Head(q)}
           /\ Head(q) \in Elements(q)
           /\ NoRepeats(Tail(q))
<1> DEFINE r == Tail(q)
<1>1. /\ Len(q) \in Nat /\ Len(q) >= 1
      /\ Len(r) = Len(q) - 1
      /\ Head(q) = q[1]
      /\ \A i \in 1 .. Len(q) - 1 : r[i] = q[i + 1]
  BY TailFacts
<1> HIDE DEF r
<1>2. \A x \in Elements(r) : x \in Elements(q) \ {Head(q)}
  BY <1>1 DEF Elements, NoRepeats
<1>3. ASSUME NEW x \in Elements(q), x # Head(q)
      PROVE  x \in Elements(r)
  <2>1. PICK i \in 1 .. Len(q) : x = q[i]
    BY DEF Elements
  <2>2. i # 1 /\ i - 1 \in 1 .. Len(r) /\ r[i - 1] = q[i]
    BY <1>1, <1>3, <2>1
  <2>3. QED
    BY <2>1, <2>2 DEF Elements
<1>4. NoRepeats(r)
  BY <1>1 DEF NoRepeats
<1>5. QED
  BY <1>1, <1>2, <1>3, <1>4 DEF r, Elements

(* The same for a queue that may hold an element twice.                    *)
LEMMA TailCovers ==
    ASSUME NEW S, NEW q \in Seq(S), q # <<>>
    PROVE  /\ Head(q) \in Elements(q)
           /\ Elements(Tail(q)) \subseteq Elements(q)
           /\ Elements(q) \subseteq Elements(Tail(q)) \cup {Head(q)}
<1> DEFINE r == Tail(q)
<1>1. /\ Len(q) \in Nat /\ Len(q) >= 1
      /\ Len(r) = Len(q) - 1
      /\ Head(q) = q[1]
      /\ \A i \in 1 .. Len(q) - 1 : r[i] = q[i + 1]
  BY TailFacts
<1> HIDE DEF r
<1>2. Head(q) \in Elements(q)
  BY <1>1 DEF Elements
<1>3. Elements(r) \subseteq Elements(q)
  BY <1>1 DEF Elements
<1>4. ASSUME NEW x \in Elements(q), x # Head(q)
      PROVE  x \in Elements(r)
  <2>1. PICK i \in 1 .. Len(q) : x = q[i]
    BY DEF Elements
  <2>2. i # 1 /\ i - 1 \in 1 .. Len(r) /\ r[i - 1] = q[i]
    BY <1>1, <1>4, <2>1
  <2>3. QED
    BY <2>1, <2>2 DEF Elements
<1>5. Elements(q) \subseteq Elements(r) \cup {Head(q)}
  BY <1>4
<1>6. QED
  BY <1>2, <1>3, <1>5 DEF r

(* Nothing is left of an empty queue.                                      *)
LEMMA NoElements ==
    ASSUME NEW q, q = <<>>
    PROVE  Elements(q) = {}
  BY DEF Elements

(* Moving the head of a queue to the end of what was taken before it.      *)
LEMMA HeadMovesOver ==
    ASSUME NEW S, NEW b \in Seq(S), NEW q \in Seq(S), q # <<>>
    PROVE  Append(b, Head(q)) \o Tail(q) = b \o q
<1>1. Head(q) \in S /\ Tail(q) \in Seq(S) /\ <<Head(q)>> \in Seq(S)
  BY TailFacts
<1>2. <<Head(q)>> \o Tail(q) = q
  BY <1>1
<1>3. Append(b, Head(q)) = b \o <<Head(q)>>
  BY <1>1, AppendIsConcat
<1>4. (b \o <<Head(q)>>) \o Tail(q) = b \o (<<Head(q)>> \o Tail(q))
  BY <1>1, ConcatAssociative
<1>5. QED
  BY <1>2, <1>3, <1>4

(* Moving what is carried to the end of a queue.                           *)
LEMMA CarriedMovesOver ==
    ASSUME NEW S, NEW b \in Seq(S), NEW q \in Seq(S), NEW p \in S
    PROVE  /\ (b \o Append(q, p)) \o <<>> = (b \o q) \o <<p>>
           /\ (b \o q) \o <<p>> = Append((b \o q) \o <<>>, p)
           /\ (b \o q) \o <<>> \in Seq(S)
<1>1. <<p>> \in Seq(S) /\ b \o q \in Seq(S) /\ Append(q, p) = q \o <<p>>
  BY AppendIsConcat, ConcatProperties
<1>2. (b \o q) \o <<>> = b \o q
  BY <1>1, ConcatEmptySeq
<1>3. b \o (q \o <<p>>) = (b \o q) \o <<p>>
  BY <1>1, ConcatAssociative
<1>4. b \o Append(q, p) \in Seq(S)
  BY <1>1, ConcatProperties
<1>5. (b \o Append(q, p)) \o <<>> = b \o Append(q, p)
  BY <1>4, ConcatEmptySeq
<1>6. (b \o q) \o <<p>> = Append(b \o q, p)
  BY <1>1, AppendIsConcat
<1>7. QED
  BY <1>1, <1>2, <1>3, <1>5, <1>6

(* Taking the first of what was taken from a queue.                        *)
LEMMA FirstOfAll ==
    ASSUME NEW S, NEW b \in Seq(S), NEW q \in Seq(S), b # <<>>
    PROVE  /\ b \o q \in Seq(S) /\ b \o q # <<>>
           /\ (b \o q)[1] = Head(b)
           /\ Tail(b \o q) = Tail(b) \o q
<1>1. /\ Len(b) \in Nat /\ Len(b) >= 1 /\ Head(b) = b[1]
      /\ Tail(b) \in Seq(S) /\ Len(Tail(b)) = Len(b) - 1
      /\ \A i \in 1 .. Len(b) - 1 : Tail(b)[i] = b[i + 1]
  BY TailFacts
<1>2. /\ b \o q \in Seq(S) /\ Len(b \o q) = Len(b) + Len(q) /\ Len(q) \in Nat
      /\ \A i \in 1 .. Len(b) + Len(q) :
            (b \o q)[i] = IF i <= Len(b) THEN b[i] ELSE q[i - Len(b)]
  BY ConcatProperties, LenProperties
<1>3. b \o q # <<>> /\ (b \o q)[1] = Head(b)
  <2>1. 1 \in 1 .. Len(b) + Len(q) /\ 1 <= Len(b)
    BY <1>1, <1>2
  <2>2. (b \o q)[1] = b[1]
    BY <1>2, <2>1
  <2>3. Len(b \o q) # 0
    BY <1>1, <1>2
  <2>4. QED
    BY <1>1, <2>2, <2>3, <1>2, EmptySeq
<1>4. /\ Tail(b \o q) \in Seq(S) /\ Len(Tail(b \o q)) = Len(b) + Len(q) - 1
      /\ \A i \in 1 .. Len(b) + Len(q) - 1 : Tail(b \o q)[i] = (b \o q)[i + 1]
  BY <1>2, <1>3, TailFacts
<1>5. /\ Tail(b) \o q \in Seq(S) /\ Len(Tail(b) \o q) = Len(b) - 1 + Len(q)
      /\ \A i \in 1 .. Len(b) - 1 + Len(q) :
            (Tail(b) \o q)[i] = IF i <= Len(b) - 1 THEN Tail(b)[i] ELSE q[i - (Len(b) - 1)]
  BY <1>1, ConcatProperties
<1> DEFINE m == Len(b)
           n == Len(q)
           r == b \o q
           t == Tail(r)
           h == Tail(b)
           v == h \o q
<1> HIDE DEF m, n, r, t, h, v
<1>6. \A i \in 1 .. m + n - 1 : t[i] = v[i]
  <2>1. SUFFICES ASSUME NEW i \in 1 .. m + n - 1 PROVE t[i] = v[i]
    OBVIOUS
  <2>2. i + 1 \in 1 .. m + n /\ i \in 1 .. m - 1 + n /\ i \in Nat /\ i >= 1
        /\ m \in Nat /\ m >= 1
    BY <1>1, <1>2 DEF m, n
  <2>3. t[i] = r[i + 1] /\ r[i + 1] = IF i + 1 <= m THEN b[i + 1] ELSE q[i + 1 - m]
    BY <1>2, <1>4, <2>2 DEF m, n, r, t
  <2>4. v[i] = IF i <= m - 1 THEN h[i] ELSE q[i - (m - 1)]
    BY <1>5, <2>2 DEF m, n, v, h
  <2>5. i <= m - 1 => h[i] = b[i + 1]
    BY <1>1, <2>2 DEF m, h
  <2>6. i - (m - 1) = i + 1 - m /\ (i <= m - 1 <=> i + 1 <= m)
    BY <2>2
  <2>7. QED
    BY <2>3, <2>4, <2>5, <2>6
<1>7. t \in Seq(S) /\ v \in Seq(S) /\ Len(t) = m + n - 1 /\ Len(v) = m + n - 1
  BY <1>1, <1>2, <1>4, <1>5 DEF m, n, r, t, h, v
<1>8. t = v
  BY <1>6, <1>7, SeqEqual
<1>9. QED
  BY <1>2, <1>3, <1>8 DEF r, t, h, v

-----------------------------------------------------------------------------
(* Parts of sequences                                                      *)

Joins(u, s, t) ==
    /\ \A n \in 1 .. Len(s) : n \in DOMAIN u /\ u[n] = s[n]
    /\ \A n \in DOMAIN u : n \notin 1 .. Len(s) =>
          n - Len(s) \in 1 .. Len(t) /\ u[n] = t[n - Len(s)]

(* What two sequences make when one is put behind the other.               *)
LEMMA ConcatParts ==
    ASSUME NEW T, NEW s \in Seq(T), NEW t \in Seq(T)
    PROVE  s \o t \in Seq(T) /\ Joins(s \o t, s, t)
<1>1. s \o t \in Seq(T) /\ Len(s \o t) = Len(s) + Len(t) /\ Len(s) \in Nat /\ Len(t) \in Nat
    OBVIOUS
<1>2. \A n \in 1 .. Len(s) : n \in 1 .. (Len(s) + Len(t)) /\ (s \o t)[n] = s[n]
    OBVIOUS
<1>3. ASSUME NEW n \in 1 .. (Len(s) + Len(t)), n \notin 1 .. Len(s)
      PROVE  n - Len(s) \in 1 .. Len(t) /\ (s \o t)[n] = t[n - Len(s)]
    BY <1>1, <1>3
<1>4. DOMAIN (s \o t) = 1 .. (Len(s) + Len(t))
    BY <1>1
<1> QED
    BY <1>1, <1>2, <1>3, <1>4 DEF Joins

LeftAfter(t, s, k) ==
    /\ DOMAIN t = 1 .. (Len(s) - k)
    /\ \A n \in 1 .. (Len(s) - k) : t[n] = s[n + k] /\ n + k \in DOMAIN s

(* What is left of a sequence after its first k elements.                  *)
LEMMA SubSeqParts ==
    ASSUME NEW T, NEW s \in Seq(T), NEW k \in 0 .. Len(s)
    PROVE  SubSeq(s, k + 1, Len(s)) \in Seq(T) /\ LeftAfter(SubSeq(s, k + 1, Len(s)), s, k)
<1>1. Len(s) \in Nat /\ k \in Nat /\ k <= Len(s)
    OBVIOUS
<1> DEFINE t == SubSeq(s, k + 1, Len(s))
<1>2. t \in Seq(T) /\ Len(t) = Len(s) - k
    BY <1>1, SubSeqProperties
<1>3. \A n \in 1 .. (Len(s) - k) : t[n] = s[n + k] /\ n + k \in DOMAIN s
    BY <1>1, SubSeqProperties
<1> QED
    BY <1>1, <1>2, <1>3 DEF LeftAfter

-----------------------------------------------------------------------------
(* Elements of sets                                                        *)

(* A set of natural numbers that is not empty has a least element.         *)
LEMMA LeastNat ==
    ASSUME NEW S \in SUBSET Nat, S # {}
    PROVE  \E m \in S : \A n \in S : m <= n
<1> DEFINE R == OpToRel(<, Nat)
<1>1. \A x, y \in Nat : y < x => <<y, x>> \in R
    BY DEF OpToRel
<1>2. IsWellFoundedOn(R, Nat)
    BY NatLessThanWellFounded
<1> HIDE DEF R
<1>3. PICK m \in S : \A n \in S : ~ (<<n, m>> \in R)
    BY <1>2, WFMin
<1>4. ASSUME NEW n \in S PROVE m <= n
    <2>1. n \in Nat /\ m \in Nat /\ ~ (n < m)
        BY <1>1, <1>3
    <2> QED
        BY <2>1
<1> QED
    BY <1>4

(* A set of natural numbers that is bounded has a greatest element.        *)
LEMMA GreatestNat ==
    ASSUME NEW S \in SUBSET Nat, S # {}, NEW b \in Nat, \A n \in S : n <= b
    PROVE  \E m \in S : \A n \in S : n <= m
<1> DEFINE D == {b - n : n \in S}
<1>1. \A n \in S : b - n \in Nat
    OBVIOUS
<1>2. D \in SUBSET Nat /\ D # {}
    BY <1>1
<1>3. PICK d \in D : \A e \in D : d <= e
    <2> HIDE DEF D
    <2> QED
        BY <1>2, LeastNat
<1>4. PICK m \in S : d = b - m
    BY <1>3
<1>5. ASSUME NEW n \in S PROVE n <= m
    <2>1. b - m <= b - n
        BY <1>3, <1>4
    <2>2. m \in Nat /\ n \in Nat
        OBVIOUS
    <2> QED
        BY <2>1, <2>2
<1> QED
    BY <1>5

(* A finite set that is not empty has an element none is before, in any    *)
(* transitive order R (a set of pairs) in which nothing is before itself.  *)
LEMMA MinimalElement ==
    ASSUME NEW V, IsFiniteSet(V), V # {}, NEW R,
           \A x \in V : <<x, x>> \notin R,
           \A x, y, z \in V : <<x, y>> \in R /\ <<y, z>> \in R => <<x, z>> \in R
    PROVE  \E x \in V : \A y \in V : <<y, x>> \notin R
<1> DEFINE Before(x) == {y \in V : <<y, x>> \in R}
           rank(x) == Cardinality(Before(x))
           Ranks == {rank(x) : x \in V}
<1>1. \A x \in V : IsFiniteSet(Before(x)) /\ rank(x) \in Nat
  BY FS_Subset, FS_CardinalityType
<1>2. ASSUME NEW x \in V, NEW y \in V, <<y, x>> \in R
      PROVE  rank(y) < rank(x)
  <2>1. Before(y) \subseteq Before(x) /\ Before(y) # Before(x)
    BY <1>2
  <2> HIDE DEF Before
  <2>2. /\ rank(y) <= rank(x)
        /\ rank(y) = rank(x) => Before(y) = Before(x)
    BY <1>1, <2>1, FS_Subset
  <2> QED
    BY <1>1, <2>1, <2>2
<1> HIDE DEF rank, Before
<1>3. Ranks \subseteq Nat /\ Ranks # {}
  BY <1>1
<1>4. PICK n \in Ranks : \A m \in Ranks : n <= m
  <2> HIDE DEF Ranks
  <2> QED
    BY <1>3, LeastNat
<1>5. PICK x \in V : n = rank(x)
  OBVIOUS
<1>6. \A y \in V : rank(x) <= rank(y)
  BY <1>4, <1>5
<1> QED
  <2>1. ASSUME NEW y \in V, <<y, x>> \in R PROVE FALSE
    BY <1>1, <1>2, <1>6, <2>1
  <2> QED
    BY <2>1

(* There are no more values of a function than arguments.                  *)
LEMMA FewValues ==
    ASSUME NEW S, IsFiniteSet(S), NEW T, NEW g,
           \A x \in S : g[x] \in T, \A y \in T : \E x \in S : g[x] = y
    PROVE  /\ IsFiniteSet(T)
           /\ Cardinality(T) \in Nat /\ Cardinality(S) \in Nat
           /\ Cardinality(T) <= Cardinality(S)
<1> DEFINE h == [x \in S |-> g[x]]
<1>1. h \in Surjection(S, T)
    BY DEF Surjection
<1> HIDE DEF h
<1>2. IsFiniteSet(T) /\ Cardinality(T) <= Cardinality(S)
    BY <1>1, FS_Surjection, Zenon
<1> QED
    BY <1>2, FS_CardinalityType

-----------------------------------------------------------------------------
(* Lists, sums and recursion                                               *)

(* A function that lists a finite set without repeating lists all of it.   *)
LEMMA ListingCovers ==
    ASSUME NEW S, IsFiniteSet(S), NEW s \in [1 .. Cardinality(S) -> S],
           \A i, j \in 1 .. Cardinality(S) : i # j => s[i] # s[j]
    PROVE  \A x \in S : \E i \in 1 .. Cardinality(S) : s[i] = x
<1>1. Cardinality(S) \in Nat
    BY FS_CardinalityType
<1>2. IsFiniteSet(1 .. Cardinality(S)) /\ Cardinality(1 .. Cardinality(S)) = Cardinality(S)
    <2>1. /\ 1 \in Int /\ Cardinality(S) \in Int
          /\ Cardinality(S) - 1 + 1 = Cardinality(S)
          /\ (1 > Cardinality(S) => Cardinality(S) = 0)
        BY <1>1
    <2> QED
        BY <2>1, FS_Interval
<1>3. s \in Injection(1 .. Cardinality(S), S)
    BY DEF Injection, IsInjective
<1>4. s \in Surjection(1 .. Cardinality(S), S)
    <2> PICK D : D = 1 .. Cardinality(S)
        OBVIOUS
    <2> QED
        BY <1>2, <1>3, FS_Injection, Zenon
<1> QED
    BY <1>4 DEF Surjection

(* A finite set can be listed in any strict order, given as a set of pairs,*)
(* in which all its elements are.                                          *)
LEMMA SortingExists ==
    ASSUME NEW V, IsFiniteSet(V), NEW R,
           \A x \in V : <<x, x>> \notin R,
           \A x, y, z \in V : <<x, y>> \in R /\ <<y, z>> \in R => <<x, z>> \in R,
           \A x, y \in V : x # y => <<x, y>> \in R \/ <<y, x>> \in R
    PROVE  \E s \in [1 .. Cardinality(V) -> V] :
              /\ \A i, j \in 1 .. Cardinality(V) : i # j => s[i] # s[j]
              /\ \A i, j \in 1 .. Cardinality(V) : i < j => <<s[i], s[j]>> \in R
<1> DEFINE n == Cardinality(V)
           Before(x) == {y \in V : <<y, x>> \in R}
           rank(x) == Cardinality(Before(x))
<1>1. n \in Nat
    BY FS_CardinalityType
<1>2. ASSUME NEW x \in V
      PROVE  /\ IsFiniteSet(Before(x)) /\ rank(x) \in Nat /\ rank(x) < n
    <2>1. Before(x) \subseteq V /\ Before(x) # V
        OBVIOUS
    <2> HIDE DEF Before
    <2>2. IsFiniteSet(Before(x)) /\ rank(x) <= n /\ (rank(x) = n => Before(x) = V)
        BY <2>1, FS_Subset
    <2>3. rank(x) \in Nat
        BY <2>2, FS_CardinalityType
    <2> HIDE DEF rank
    <2> QED
        BY <1>1, <2>1, <2>2, <2>3
<1>3. ASSUME NEW x \in V, NEW y \in V, <<y, x>> \in R
      PROVE  rank(y) < rank(x)
    <2>1. Before(y) \subseteq Before(x) /\ Before(y) # Before(x)
        BY <1>3
    <2> HIDE DEF Before
    <2>2. rank(y) <= rank(x) /\ (rank(y) = rank(x) => Before(y) = Before(x))
        BY <1>2, <2>1, FS_Subset
    <2> HIDE DEF rank
    <2> QED
        BY <1>2, <2>1, <2>2
<1> HIDE DEF rank, Before
<1> DEFINE place == [x \in V |-> rank(x) + 1]
<1>4. place \in [V -> 1 .. n]
    BY <1>1, <1>2
<1>5. ASSUME NEW x \in V, NEW y \in V, x # y
      PROVE  place[x] # place[y]
    <2>1. place[x] = rank(x) + 1 /\ place[y] = rank(y) + 1
        OBVIOUS
    <2>2. rank(x) \in Nat /\ rank(y) \in Nat
        BY <1>2
    <2>3. rank(x) < rank(y) \/ rank(y) < rank(x)
        BY <1>3, <1>5
    <2> HIDE DEF place
    <2> QED
        BY <2>1, <2>2, <2>3
<1>6. IsFiniteSet(1 .. n) /\ Cardinality(1 .. n) = n
    <2>1. 1 \in Int /\ n \in Int /\ n - 1 + 1 = n /\ (1 > n => n = 0)
        BY <1>1
    <2> HIDE DEF n
    <2> QED
        BY <2>1, FS_Interval
<1>7. \A i \in 1 .. n : \E x \in V : place[x] = i
    <2> HIDE DEF place
    <2>1. place \in Injection(V, 1 .. n)
        BY <1>4, <1>5 DEF Injection, IsInjective
    <2>2. place \in Surjection(V, 1 .. n)
        <3> PICK D : D = 1 .. n
            OBVIOUS
        <3> QED
            BY <1>6, <2>1, FS_Injection, Zenon
    <2> QED
        BY <2>2 DEF Surjection
<1> DEFINE s == [i \in 1 .. n |-> CHOOSE x \in V : place[x] = i]
<1>8. \A i \in 1 .. n : s[i] \in V /\ place[s[i]] = i
    <2> HIDE DEF place
    <2> QED
        BY <1>7
<1>9. s \in [1 .. n -> V]
    BY <1>8
<1>10. ASSUME NEW i \in 1 .. n, NEW j \in 1 .. n, i < j
       PROVE  <<s[i], s[j]>> \in R
    <2> HIDE DEF s
    <2>1. s[i] \in V /\ s[j] \in V /\ place[s[i]] = i /\ place[s[j]] = j /\ i # j
        <3> HIDE DEF place
        <3> QED
            BY <1>1, <1>8, <1>10
    <2>2. place[s[i]] = rank(s[i]) + 1 /\ place[s[j]] = rank(s[j]) + 1
        BY <2>1
    <2>3. rank(s[i]) \in Nat /\ rank(s[j]) \in Nat /\ rank(s[i]) < rank(s[j])
        BY <1>2, <1>8, <1>10, <2>1, <2>2
    <2>4. <<s[j], s[i]>> \notin R
        BY <1>3, <2>1, <2>3
    <2>5. s[i] # s[j]
        <3> HIDE DEF place
        <3> QED
            BY <2>1
    <2> QED
        BY <2>1, <2>4, <2>5
<1>11. \A i, j \in 1 .. n : i # j => s[i] # s[j]
    <2> HIDE DEF s, place
    <2> QED
        BY <1>8
<1> QED
    <2> HIDE DEF s
    <2> QED
        BY <1>9, <1>10, <1>11

(* The numbers from a to b are no gaps, and what is next to them is.       *)
BetweenGaps(gaps, n, a, b) ==
    /\ a = 1 \/ a \in gaps
    /\ b = n \/ b + 1 \in gaps
    /\ \A k \in a + 1 .. b : k \notin gaps

(* Between its gaps a sequence falls into spans; one of them holds p.      *)
LEMMA SpanAround ==
    ASSUME NEW n \in Nat, NEW A, NEW p \in 1 .. n
    PROVE  \E a, b \in 1 .. n : a <= p /\ p <= b /\ BetweenGaps(A, n, a, b)
<1> DEFINE Starts == {i \in 1 .. p : i = 1 \/ i \in A}
           Ends == {i \in p .. n : i = n \/ i + 1 \in A}
<1>1. PICK a \in Starts : \A i \in Starts : i <= a
    <2>1. /\ Starts \in SUBSET Nat /\ Starts # {} /\ p \in Nat
          /\ \A i \in Starts : i <= p
        <3>1. 1 \in Starts
            OBVIOUS
        <3> QED
            BY <3>1
    <2> HIDE DEF Starts
    <2> QED
        BY <2>1, GreatestNat
<1>2. PICK b \in Ends : \A i \in Ends : b <= i
    <2>1. Ends \in SUBSET Nat /\ n \in Ends
        OBVIOUS
    <2> HIDE DEF Ends
    <2> QED
        BY <2>1, LeastNat
<1>3. a \in 1 .. n /\ b \in 1 .. n /\ a <= p /\ p <= b
    OBVIOUS
<1>4. ASSUME NEW k \in a + 1 .. b, k \in A
      PROVE  FALSE
    <2>1. CASE k <= p
        <3>1. k \in Starts
            BY <1>3, <1>4, <2>1
        <3> QED
            BY <1>1, <1>3, <3>1
    <2>2. CASE k > p
        <3>1. k - 1 \in Ends
            BY <1>3, <1>4, <2>2
        <3> QED
            BY <1>2, <1>3, <3>1
    <2> QED
        BY <1>3, <2>1, <2>2
<1>5. BetweenGaps(A, n, a, b)
    BY <1>4 DEF BetweenGaps
<1> QED
    BY <1>3, <1>5

(* Where no step of an ascending function is wider than W, a value below   *)
(* the last is followed by one at most W above it.                         *)
LEMMA NoGapAcross ==
    ASSUME NEW n \in Nat, NEW f \in [1 .. n -> Nat], NEW W \in Nat,
           \A k, l \in 1 .. n : k < l => f[k] <= f[l],
           NEW i \in 1 .. n, NEW j \in 1 .. n,
           \A k \in i + 1 .. j : f[k] - f[k - 1] <= W,
           NEW v \in 1 .. n, f[i] <= f[v], f[v] < f[j]
    PROVE  \E q \in 1 .. n : f[v] < f[q] /\ f[q] <= f[v] + W
<1> DEFINE After == {k \in 1 .. n : f[k] > f[v]}
<1>1. PICK q \in After : \A k \in After : q <= k
    <2>1. After \in SUBSET Nat /\ j \in After
        OBVIOUS
    <2> HIDE DEF After
    <2> QED
        BY <2>1, LeastNat
<1>2. q \in 1 .. n /\ f[q] > f[v] /\ f[q] > f[i] /\ q <= j
    <2>1. q \in 1 .. n /\ f[q] > f[v]
        OBVIOUS
    <2>2. j \in After
        OBVIOUS
    <2>3. q <= j
        BY <1>1, <2>2
    <2>4. f[q] \in Nat /\ f[v] \in Nat /\ f[i] \in Nat
        BY <2>1
    <2> QED
        BY <2>1, <2>3, <2>4
<1>3. i < q
    BY <1>2
<1>4. q - 1 \in 1 .. n /\ q \in i + 1 .. j /\ q - 1 \notin After
    BY <1>1, <1>2, <1>3
<1>5. f[q] \in Nat /\ f[q - 1] \in Nat /\ f[v] \in Nat
    BY <1>2, <1>4
<1>6. f[q - 1] <= f[v] /\ f[q] - f[q - 1] <= W
    BY <1>4, <1>5
<1>7. f[q] <= f[v] + W
    BY <1>5, <1>6
<1> QED
    BY <1>2, <1>7

(* Where a step of an ascending function is wider than W, nothing follows  *)
(* the value before it within W.                                           *)
LEMMA GapSeparates ==
    ASSUME NEW n \in Nat, NEW f \in [1 .. n -> Nat], NEW W \in Nat,
           \A k, l \in 1 .. n : k < l => f[k] <= f[l],
           NEW k \in 2 .. n, f[k] - f[k - 1] > W
    PROVE  \A q \in 1 .. n : ~ (f[k - 1] < f[q] /\ f[q] <= f[k - 1] + W)
<1>1. k \in 1 .. n /\ k - 1 \in 1 .. n
    OBVIOUS
<1>2. SUFFICES ASSUME NEW q \in 1 .. n, f[k - 1] < f[q], f[q] <= f[k - 1] + W
               PROVE  FALSE
    OBVIOUS
<1>3. f[q] \in Nat /\ f[k] \in Nat /\ f[k - 1] \in Nat
    BY <1>1
<1>4. f[q] < f[k]
    BY <1>2, <1>3
<1>5. q > k - 1
    BY <1>1, <1>2, <1>3
<1>6. q < k
    BY <1>1, <1>3, <1>4
<1> QED
    BY <1>5, <1>6

(* c is the part of s from a to b.                                         *)
IsPart(c, s, a, b, S) ==
    /\ c \in [1 .. b - a + 1 -> S]
    /\ \A k \in 1 .. b - a + 1 : a + k - 1 \in a .. b /\ c[k] = s[a + k - 1]
    /\ \A m \in a .. b : m - a + 1 \in 1 .. b - a + 1 /\ c[m - a + 1] = s[m]

(* A part of a sequence holds its elements from a to b, in their order.    *)
LEMMA ClusterMembers ==
    ASSUME NEW S, NEW n \in Nat, NEW s \in [1 .. n -> S],
           NEW a \in 1 .. n, NEW b \in 1 .. n, a <= b
    PROVE  IsPart(SubSeq(s, a, b), s, a, b, S)
<1>1. s \in Seq(S) /\ Len(s) = n /\ DOMAIN s = 1 .. n
    OBVIOUS
<1>2. SubSeq(s, a, b) = [i \in 1 .. b - a + 1 |-> s[a + i - 1]]
    BY <1>1
<1>3. \A k \in 1 .. b - a + 1 : a + k - 1 \in a .. b /\ a + k - 1 \in 1 .. n
    OBVIOUS
<1>4. \A m \in a .. b : m - a + 1 \in 1 .. b - a + 1 /\ a + (m - a + 1) - 1 = m
    OBVIOUS
<1> QED
    BY <1>2, <1>3, <1>4 DEF IsPart

(* The units that the terms of a sum consist of, to count them.            *)
Units(f, S) == {p \in S \X Nat : p[2] \in 1 .. f[p[1]]}

(* One more term adds as many units as it counts.                          *)
LEMMA UnitsOfOneMore ==
    ASSUME NEW S, IsFiniteSet(S), NEW x, x \notin S, NEW f,
           \A y \in S \cup {x} : f[y] \in Nat, IsFiniteSet(Units(f, S))
    PROVE  /\ IsFiniteSet(Units(f, S \cup {x}))
           /\ Cardinality(Units(f, S)) \in Nat
           /\ Cardinality(Units(f, S \cup {x})) = f[x] + Cardinality(Units(f, S))
<1>1. PICK k \in Nat : k = f[x]
    OBVIOUS
<1>2. PICK A : A = Units(f, S)
    OBVIOUS
<1>3. PICK B : B = {x} \X (1 .. k)
    OBVIOUS
<1>4. Units(f, S \cup {x}) = A \cup B
    BY <1>1, <1>2, <1>3 DEF Units
<1>5. IsFiniteSet(B) /\ Cardinality(B) = k
    <2>1. IsFiniteSet(1 .. k) /\ Cardinality(1 .. k) = k
        <3>1. 1 \in Int /\ k \in Int /\ k - 1 + 1 = k /\ (1 > k => k = 0)
            OBVIOUS
        <3> QED
            BY <3>1, FS_Interval
    <2>2. IsFiniteSet({x}) /\ Cardinality({x}) = 1
        BY FS_Singleton
    <2>3. IsFiniteSet({x} \X (1 .. k)) /\ Cardinality({x} \X (1 .. k)) = 1 * k
        <3> PICK D : D = 1 .. k
            OBVIOUS
        <3> QED
            BY <2>1, <2>2, FS_Product
    <2> QED
        BY <1>3, <2>3
<1>6. A \cap B = {}
    BY <1>2, <1>3 DEF Units
<1>7. IsFiniteSet(A)
    BY <1>2
<1>8. /\ IsFiniteSet(A \cup B)
      /\ Cardinality(A \cup B) = Cardinality(A) + Cardinality(B) - Cardinality(A \cap B)
    BY <1>5, <1>7, FS_Union
<1>9. Cardinality(A \cap B) = 0 /\ Cardinality(A) \in Nat
    BY <1>6, <1>7, FS_EmptySet, FS_CardinalityType
<1>10. Cardinality(A \cup B) = k + Cardinality(A)
    <2>1. Cardinality(A \cup B) = Cardinality(A) + k - 0
        BY <1>5, <1>8, <1>9
    <2> QED
        BY <1>9, <2>1
<1>11. Cardinality(Units(f, S \cup {x})) = k + Cardinality(Units(f, S))
    BY <1>2, <1>4, <1>10
<1> QED
    BY <1>1, <1>2, <1>4, <1>8, <1>9, <1>11

(* Finitely many terms have finitely many units.                           *)
LEMMA UnitsFinite ==
    ASSUME NEW S, IsFiniteSet(S), NEW f, \A y \in S : f[y] \in Nat
    PROVE  IsFiniteSet(Units(f, S))
<1> DEFINE Bad == {Cardinality(T) : T \in {T \in SUBSET S : ~ IsFiniteSet(Units(f, T))}}
<1>1. SUFFICES ASSUME ~ IsFiniteSet(Units(f, S))
               PROVE  FALSE
    OBVIOUS
<1>2. \A T \in SUBSET S : IsFiniteSet(T) /\ Cardinality(T) \in Nat
    BY FS_Subset, FS_CardinalityType
<1>3. Bad \in SUBSET Nat /\ Bad # {}
    BY <1>1, <1>2
<1>4. PICK m \in Bad : \A n \in Bad : m <= n
    <2> HIDE DEF Bad
    <2> QED
        BY <1>3, LeastNat
<1>5. PICK T \in SUBSET S : m = Cardinality(T) /\ ~ IsFiniteSet(Units(f, T))
    OBVIOUS
<1>6. T # {}
    <2>1. SUFFICES ASSUME T = {} PROVE FALSE
        OBVIOUS
    <2>2. Units(f, T) = {}
        BY <2>1 DEF Units
    <2> QED
        BY <1>5, <2>2, FS_EmptySet
<1>7. PICK x \in T : TRUE
    BY <1>6
<1>8. PICK V : V = T \ {x}
    OBVIOUS
<1>9. V \in SUBSET S /\ x \notin V /\ V \cup {x} = T /\ Cardinality(V) < Cardinality(T)
    <2>1. V \in SUBSET S /\ x \notin V /\ V \cup {x} = T
        BY <1>8
    <2>2. Cardinality(T \ {x}) = Cardinality(T) - 1
        BY <1>2, <1>7, FS_RemoveElement
    <2> QED
        BY <1>2, <1>8, <2>1, <2>2
<1>10. IsFiniteSet(Units(f, V))
    <2>1. Cardinality(V) \notin Bad
        BY <1>2, <1>3, <1>4, <1>5, <1>9
    <2> QED
        BY <1>9, <2>1
<1>11. \A y \in V \cup {x} : f[y] \in Nat
    BY <1>9
<1>12. IsFiniteSet(V)
    BY <1>2, <1>9
<1> HIDE DEF Bad
<1>13. IsFiniteSet(Units(f, V \cup {x}))
    BY <1>9, <1>10, <1>11, <1>12, UnitsOfOneMore
<1> QED
    BY <1>5, <1>9, <1>13

(* What a sum over a finite set is.                                        *)
LEMMA SumIsCount ==
    ASSUME NEW S, IsFiniteSet(S), NEW f, \A y \in S : f[y] \in Nat
    PROVE  SumFunctionOnSet(f, S) = Cardinality(Units(f, S))
<1> DEFINE c(T) == Cardinality(Units(f, T))
           Body(g) == [s \in SUBSET S |->
                         IF s = {} THEN 0
                         ELSE f[CHOOSE x \in s : TRUE] + g[s \ {CHOOSE x \in s : TRUE}]]
           sums == CHOOSE g : g = Body(g)
<1>1. SumFunctionOnSet(f, S) = sums[S]
    BY DEF SumFunctionOnSet, FoldFunctionOnSet, MapThenFoldSet
<1>2. \A T \in SUBSET S : IsFiniteSet(T) /\ Cardinality(T) \in Nat
    BY FS_Subset, FS_CardinalityType
<1>3. \A T \in SUBSET S : IsFiniteSet(Units(f, T)) /\ c(T) \in Nat
    BY <1>2, UnitsFinite, FS_CardinalityType
<1>4. c({}) = 0
    <2>1. Units(f, {}) = {}
        BY DEF Units
    <2> QED
        BY <2>1, FS_EmptySet
<1>5. ASSUME NEW T \in SUBSET S, NEW x \in T
      PROVE  c(T) = f[x] + c(T \ {x})
    <2>1. PICK V : V = T \ {x}
        OBVIOUS
    <2>2. V \in SUBSET S /\ x \notin V /\ V \cup {x} = T /\ \A y \in V \cup {x} : f[y] \in Nat
        BY <2>1
    <2>3. IsFiniteSet(V) /\ IsFiniteSet(Units(f, V))
        BY <1>2, <1>3, <2>2
    <2>4. c(V \cup {x}) = f[x] + c(V)
        BY <2>2, <2>3, UnitsOfOneMore
    <2> QED
        BY <2>1, <2>2, <2>4
<1> HIDE DEF c
<1> DEFINE h == [s \in SUBSET S |-> c(s)]
<1>6. h = Body(h)
    <2>1. ASSUME NEW s \in SUBSET S
          PROVE  h[s] = IF s = {} THEN 0
                        ELSE f[CHOOSE x \in s : TRUE] + h[s \ {CHOOSE x \in s : TRUE}]
        <3>1. CASE s = {}
            BY <1>4, <3>1
        <3>2. CASE s # {}
            <4>1. PICK x \in s : x = CHOOSE e \in s : TRUE
                BY <3>2
            <4>2. s \ {x} \in SUBSET S
                OBVIOUS
            <4>3. h[s] = c(s) /\ h[s \ {x}] = c(s \ {x})
                BY <4>2
            <4> HIDE DEF h
            <4> QED
                BY <1>5, <3>2, <4>1, <4>3
        <3> QED
            BY <3>1, <3>2
    <2> QED
        BY <2>1
<1>7. sums = Body(sums)
    <2> HIDE DEF h, Body
    <2>1. \E g : g = Body(g)
        BY <1>6
    <2> QED
        BY <2>1
<1> HIDE DEF sums, h
<1>8. \A s \in SUBSET S : sums[s] = IF s = {} THEN 0
                        ELSE f[CHOOSE x \in s : TRUE] + sums[s \ {CHOOSE x \in s : TRUE}]
    BY <1>7
<1> DEFINE Bad == {Cardinality(T) : T \in {T \in SUBSET S : sums[T] # c(T)}}
<1>9. SUFFICES ASSUME sums[S] # c(S)
               PROVE  FALSE
    BY <1>1 DEF c
<1>10. Bad \in SUBSET Nat /\ Bad # {}
    BY <1>2, <1>9
<1>11. PICK m \in Bad : \A n \in Bad : m <= n
    <2> HIDE DEF Bad
    <2> QED
        BY <1>10, LeastNat
<1>12. PICK T \in SUBSET S : m = Cardinality(T) /\ sums[T] # c(T)
    OBVIOUS
<1>13. T # {}
    BY <1>4, <1>8, <1>12
<1>14. PICK x \in T : x = CHOOSE e \in T : TRUE
    BY <1>13
<1>15. PICK V : V = T \ {x}
    OBVIOUS
<1>16. V \in SUBSET S /\ Cardinality(V) < Cardinality(T)
    <2>1. Cardinality(T \ {x}) = Cardinality(T) - 1
        BY <1>2, <1>14, FS_RemoveElement
    <2> QED
        BY <1>2, <1>15, <2>1
<1>17. sums[V] = c(V)
    <2>1. Cardinality(V) \notin Bad
        BY <1>2, <1>10, <1>11, <1>12, <1>16
    <2> QED
        BY <1>16, <2>1
<1>18. sums[T] = f[x] + sums[V]
    BY <1>8, <1>12, <1>13, <1>14, <1>15
<1>19. c(T) = f[x] + c(V)
    BY <1>5, <1>15
<1> QED
    BY <1>12, <1>17, <1>18, <1>19

(* A sum of natural numbers is one, it grows by the term that is added,    *)
(* and it depends on nothing but its terms.                                *)
LEMMA SumFacts ==
    ASSUME NEW S, IsFiniteSet(S), NEW f, \A y \in S : f[y] \in Nat
    PROVE  /\ SumFunctionOnSet(f, S) \in Nat
           /\ \A x : x \notin S /\ f[x] \in Nat =>
                 SumFunctionOnSet(f, S \cup {x}) = f[x] + SumFunctionOnSet(f, S)
           /\ \A g : (\A y \in S : g[y] = f[y]) => SumFunctionOnSet(g, S) = SumFunctionOnSet(f, S)
<1>1. IsFiniteSet(Units(f, S)) /\ SumFunctionOnSet(f, S) = Cardinality(Units(f, S))
    BY UnitsFinite, SumIsCount
<1>2. SumFunctionOnSet(f, S) \in Nat
    BY <1>1, FS_CardinalityType
<1>3. ASSUME NEW x, x \notin S, f[x] \in Nat
      PROVE  SumFunctionOnSet(f, S \cup {x}) = f[x] + SumFunctionOnSet(f, S)
    <2>1. PICK V : V = S \cup {x}
        OBVIOUS
    <2>2. IsFiniteSet(V)
        BY <2>1, FS_AddElement
    <2>3. \A y \in V : f[y] \in Nat
        BY <1>3, <2>1
    <2>4. SumFunctionOnSet(f, V) = Cardinality(Units(f, V))
        BY <2>2, <2>3, SumIsCount
    <2>5. Cardinality(Units(f, S \cup {x})) = f[x] + Cardinality(Units(f, S))
        BY <1>1, <1>3, <2>1, <2>3, UnitsOfOneMore
    <2> QED
        BY <1>1, <2>1, <2>4, <2>5
<1>4. ASSUME NEW g, \A y \in S : g[y] = f[y]
      PROVE  SumFunctionOnSet(g, S) = SumFunctionOnSet(f, S)
    <2>1. Units(g, S) = Units(f, S)
        BY <1>4 DEF Units
    <2>2. SumFunctionOnSet(g, S) = Cardinality(Units(g, S))
        BY <1>4, SumIsCount
    <2> QED
        BY <1>1, <2>1, <2>2
<1> QED
    BY <1>2, <1>3, <1>4

(* What a recursive definition over 0 .. N makes.                          *)
Unrolls(h, S, base, N, step) ==
    /\ h \in [0 .. N -> S] /\ h[0] = base
    /\ \A i \in 1 .. N : h[i] = step[<<h[i - 1], i>>]

(* A recursive definition over 0 .. N, and what equals it.                 *)
LEMMA RecursionExists ==
    ASSUME NEW S, NEW base \in S, NEW N \in Nat, NEW step \in [S \X (1 .. N) -> S]
    PROVE  \E h : Unrolls(h, S, base, N, step)
<1> DEFINE Good(n) == \E h \in [0 .. n -> S] :
                         h[0] = base /\ \A i \in 1 .. n : h[i] = step[<<h[i - 1], i>>]
           Bad == {n \in 0 .. N : ~ Good(n)}
<1>1. SUFFICES ASSUME ~ Good(N)
               PROVE  FALSE
    BY DEF Unrolls
<1> HIDE DEF Good
<1>2. Bad \in SUBSET Nat /\ N \in Bad
    BY <1>1
<1>3. PICK m \in Bad : \A n \in Bad : m <= n
    <2> HIDE DEF Bad
    <2> QED
        BY <1>2, LeastNat
<1>4. m \in 0 .. N /\ ~ Good(m)
    OBVIOUS
<1>5. Good(0)
    <2> DEFINE h == [i \in 0 .. 0 |-> base]
    <2>1. h \in [0 .. 0 -> S] /\ h[0] = base /\ \A i \in 1 .. 0 : h[i] = step[<<h[i - 1], i>>]
        OBVIOUS
    <2> HIDE DEF h
    <2> QED
        BY <2>1 DEF Good
<1>6. m \in 1 .. N /\ m - 1 \in 0 .. N
    BY <1>4, <1>5
<1>7. Good(m - 1)
    BY <1>3, <1>6
<1>8. PICK h \in [0 .. m - 1 -> S] :
         h[0] = base /\ \A i \in 1 .. m - 1 : h[i] = step[<<h[i - 1], i>>]
    BY <1>7 DEF Good
<1> DEFINE g == [i \in 0 .. m |-> IF i = m THEN step[<<h[m - 1], m>>] ELSE h[i]]
<1>9. h[m - 1] \in S /\ <<h[m - 1], m>> \in S \X (1 .. N)
    BY <1>6
<1>10. g \in [0 .. m -> S]
    <2>1. step[<<h[m - 1], m>>] \in S
        BY <1>9
    <2>2. \A i \in 0 .. m : i # m => i \in 0 .. m - 1
        BY <1>6
    <2> QED
        BY <2>1, <2>2
<1>11. g[0] = base
    BY <1>6, <1>8
<1>12. ASSUME NEW i \in 1 .. m
       PROVE  g[i] = step[<<g[i - 1], i>>]
    <2>1. i - 1 \in 0 .. m /\ i - 1 # m /\ i \in 0 .. m
        BY <1>6
    <2>2. g[i - 1] = h[i - 1]
        BY <2>1
    <2>3. CASE i = m
        BY <2>1, <2>2, <2>3
    <2>4. CASE i # m
        <3>1. i \in 1 .. m - 1
            BY <1>6, <2>4
        <3> QED
            BY <1>8, <2>1, <2>2, <2>4, <3>1
    <2> QED
        BY <2>3, <2>4
<1> HIDE DEF g
<1> QED
    BY <1>4, <1>10, <1>11, <1>12 DEF Good

(* Whatever starts and steps like a recursive definition stays in the set  *)
(* that it steps through.                                                  *)
LEMMA RecursionIsUnique ==
    ASSUME NEW S, NEW base \in S, NEW N \in Nat, NEW step \in [S \X (1 .. N) -> S],
           NEW g, g[0] = base, \A i \in 1 .. N : g[i - 1] \in S => g[i] = step[<<g[i - 1], i>>]
    PROVE  \A i \in 0 .. N : g[i] \in S
<1> DEFINE Bad == {i \in 0 .. N : g[i] \notin S}
<1>1. SUFFICES ASSUME NEW n \in Bad
               PROVE  FALSE
    OBVIOUS
<1>2. PICK m \in Bad : \A i \in Bad : m <= i
    <2>1. Bad \in SUBSET Nat /\ Bad # {}
        BY <1>1
    <2> HIDE DEF Bad
    <2> QED
        BY <2>1, LeastNat
<1>3. m \in 1 .. N /\ m - 1 \in 0 .. N
    <2>1. m # 0
        OBVIOUS
    <2> QED
        BY <2>1
<1>4. g[m - 1] \in S
    BY <1>2, <1>3
<1>5. g[m] = step[<<g[m - 1], m>>] /\ <<g[m - 1], m>> \in S \X (1 .. N)
    BY <1>3, <1>4
<1> QED
    BY <1>5
=============================================================================
