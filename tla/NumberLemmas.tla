---------------------------- MODULE NumberLemmas ----------------------------
(***************************************************************************)
(* Facts about numbers, finite sets of numbers and sequences that the      *)
(* proofs about the client and its links rest on.                          *)
(***************************************************************************)
EXTENDS Integers, Sequences, FiniteSets, FiniteSetTheorems,
        WellFoundedInduction, TLAPS

\* The order of the natural numbers as a set of pairs.
Less == {p \in Nat \X Nat : p[1] < p[2]}

\* A set of natural numbers that is not empty has a least element: the
\* induction principle in the form of a fact about sets.
LEMMA LeastElement ==
    ASSUME NEW T \in SUBSET Nat, T # {}
    PROVE  \E m \in T : \A y \in T : m <= y
<1>1. IsWellFoundedOn(Less, Nat)
    BY NatLessThanWellFounded, Zenon DEF OpToRel, Less
<1>2. PICK m \in T : \A y \in T : <<y, m>> \notin Less
    BY <1>1, WFMin, Zenon
<1>3. \A y \in T : ~(y < m)
    BY <1>2 DEF Less
<1> QED
    BY <1>3

\* Counting modulo M leaves the numbers below M alone and stays below M.
LEMMA ModRange ==
    ASSUME NEW M \in Nat \ {0}, NEW x \in Int
    PROVE  x % M \in 0 .. M - 1
OBVIOUS

LEMMA ModSmall ==
    ASSUME NEW M \in Nat \ {0}, NEW x \in 0 .. M - 1
    PROVE  x % M = x
OBVIOUS

LEMMA ModAtMost ==
    ASSUME NEW M \in Nat \ {0}, NEW x \in Nat
    PROVE  x % M <= x
OBVIOUS

\* The remainder is unique, so a period more does not change it.
LEMMA QuotientRemainder ==
    ASSUME NEW M \in Nat \ {0}, NEW x \in Nat
    PROVE  \E q \in Int : x = M * q + (x % M)
<1>1. x = M * (x \div M) + (x % M) /\ x \div M \in Int
    OBVIOUS
<1> QED
    BY <1>1

LEMMA RemainderUnique ==
    ASSUME NEW M \in Nat \ {0}, NEW q \in Int, NEW p \in Int,
           NEW r \in 0 .. M - 1, NEW s \in 0 .. M - 1,
           M * q + r = M * p + s
    PROVE  r = s
<1>1. CASE q > p
    <2>1. M * q >= M * (p + 1)
        BY <1>1
    <2> QED
        BY <2>1
<1>2. CASE p > q
    <2>1. M * p >= M * (q + 1)
        BY <1>2
    <2> QED
        BY <2>1
<1> QED
    BY <1>1, <1>2

LEMMA ModPeriod ==
    ASSUME NEW M \in Nat \ {0}, NEW x \in Nat
    PROVE  (x + M) % M = x % M
<1> DEFINE y == x + M
           r == x % M
           s == y % M
<1>1. PICK q \in Int : x = M * q + r
    BY QuotientRemainder
<1>2. y \in Nat
    OBVIOUS
<1> HIDE DEF y
<1>3. PICK p \in Int : y = M * p + s
    BY <1>2, QuotientRemainder
<1>4. r \in 0 .. M - 1 /\ s \in 0 .. M - 1
    BY <1>2, ModRange
<1> HIDE DEF r, s
<1>5. y = M * (q + 1) + r
    BY <1>1, <1>4 DEF y
<1>6. q + 1 \in Int /\ M * (q + 1) + r = M * p + s
    BY <1>3, <1>5
<1>7. r = s
    BY <1>4, <1>6, RemainderUnique
<1> QED
    BY <1>7 DEF r, s, y

\* A difference of two numbers that fit in a word, added to the lesser, is the
\* greater, though both are counted modulo the size of the word.
LEMMA DifferenceAddsUp ==
    ASSUME NEW m \in Nat \ {0}, NEW a \in 0 .. m - 1, NEW b \in 0 .. m - 1
    PROVE  (b + ((a - b) % m)) % m = a
OBVIOUS

\* The least number below M missing from a set that holds the first b numbers.
LEMMA FirstMissing ==
    ASSUME NEW M \in Nat, NEW R \in SUBSET (0 .. M - 1), R # 0 .. M - 1,
           NEW b \in Nat, \A s \in 0 .. b - 1 : s \in R
    PROVE  \E c \in b .. M - 1 : c \notin R /\ \A d \in 0 .. c - 1 : d \in R
<1> DEFINE T == (0 .. M - 1) \ R
<1>1. PICK c \in T : \A y \in T : c <= y
    <2>1. \E x \in 0 .. M - 1 : x \notin R
        OBVIOUS
    <2>2. T \in SUBSET Nat
        OBVIOUS
    <2>3. T # {}
        BY <2>1
    <2> HIDE DEF T
    <2> QED
        BY <2>2, <2>3, LeastElement
<1>2. c \in b .. M - 1
    OBVIOUS
<1>3. \A d \in 0 .. c - 1 : d \in R
    BY <1>1
<1> QED
    BY <1>1, <1>2, <1>3

\* The members of a finite set of natural numbers can be listed in ascending
\* order.
LEMMA Listing ==
    \A n \in Nat : \A S \in SUBSET Nat :
        IsFiniteSet(S) /\ Cardinality(S) = n =>
            \E f \in [1 .. n -> S] : \A i, j \in 1 .. n : i < j => f[i] < f[j]
<1> DEFINE Listed(n) ==
        \A S \in SUBSET Nat :
            IsFiniteSet(S) /\ Cardinality(S) = n =>
                \E f \in [1 .. n -> S] : \A i, j \in 1 .. n : i < j => f[i] < f[j]
           Unlisted == {n \in Nat : ~Listed(n)}
<1>1. SUFFICES ASSUME Unlisted # {} PROVE FALSE
    OBVIOUS
<1>2. PICK n \in Unlisted : \A m \in Unlisted : n <= m
    <2>1. Unlisted \in SUBSET Nat
        OBVIOUS
    <2> HIDE DEF Unlisted
    <2> QED
        BY <1>1, <2>1, LeastElement
<1>3. PICK S \in SUBSET Nat :
        /\ IsFiniteSet(S)
        /\ Cardinality(S) = n
        /\ ~\E f \in [1 .. n -> S] : \A i, j \in 1 .. n : i < j => f[i] < f[j]
    BY <1>2
<1>4. n # 0
    <2>1. ASSUME n = 0 PROVE FALSE
        <3> DEFINE f == [i \in 1 .. n |-> 0]
        <3>1. f \in [1 .. n -> S]
            BY <2>1
        <3>2. \A i, j \in 1 .. n : i < j => f[i] < f[j]
            BY <2>1
        <3> QED
            BY <1>3, <3>1, <3>2
    <2> QED
        BY <2>1
<1>5. PICK m \in S : \A y \in S : m <= y
    <2>1. S # {}
        BY <1>3, <1>4, FS_EmptySet
    <2> QED
        BY <2>1, LeastElement
<1> DEFINE Rest == S \ {m}
<1>6. PICK g \in [1 .. n - 1 -> Rest] :
        \A i, j \in 1 .. n - 1 : i < j => g[i] < g[j]
    <2>1. IsFiniteSet(Rest) /\ Cardinality(Rest) = n - 1
        BY <1>3, FS_RemoveElement
    <2>2. n - 1 \in Nat /\ n - 1 \notin Unlisted
        BY <1>2, <1>4
    <2>3. Listed(n - 1)
        BY <2>2
    <2> QED
        BY <2>1, <2>3
<1> DEFINE f == [i \in 1 .. n |-> IF i = 1 THEN m ELSE g[i - 1]]
<1>7. f \in [1 .. n -> S]
    BY <1>6
<1>8. ASSUME NEW i \in 1 .. n, NEW j \in 1 .. n, i < j PROVE f[i] < f[j]
    <2>1. g[j - 1] \in Rest
        BY <1>6, <1>8
    <2>2. CASE i = 1
        <3>1. f[i] = m /\ f[j] = g[j - 1]
            BY <1>8, <2>2
        <3>2. m \in Nat /\ g[j - 1] \in Nat /\ m <= g[j - 1] /\ m # g[j - 1]
            BY <1>5, <2>1
        <3> QED
            BY <3>1, <3>2
    <2>3. CASE i # 1
        <3>1. i - 1 \in 1 .. n - 1 /\ j - 1 \in 1 .. n - 1 /\ i - 1 < j - 1
            BY <1>8, <2>3
        <3>2. g[i - 1] < g[j - 1]
            BY <1>6, <3>1
        <3> QED
            BY <1>8, <2>3, <3>2
    <2> QED
        BY <2>2, <2>3
<1> QED
    BY <1>3, <1>7, <1>8

\* A member joining a finite set makes it greater by one at most.
LEMMA AtMostOneMore ==
    ASSUME NEW S, IsFiniteSet(S), NEW x
    PROVE  /\ IsFiniteSet(S \cup {x})
           /\ Cardinality(S \cup {x}) \in Nat
           /\ Cardinality(S \cup {x}) <= Cardinality(S) + 1
<1>1. /\ IsFiniteSet(S \cup {x})
      /\ Cardinality(S \cup {x}) = IF x \in S THEN Cardinality(S)
                                              ELSE Cardinality(S) + 1
    BY FS_AddElement
<1>2. Cardinality(S) \in Nat
    BY FS_CardinalityType
<1> QED
    BY <1>1, <1>2

\* The members a set has beyond those of a part of it leave room for the image
\* of an injection.
LEMMA RoomFor ==
    ASSUME NEW B, IsFiniteSet(B), NEW A \in SUBSET B,
           NEW M, NEW f \in [M -> B \ A],
           \A i, j \in M : f[i] = f[j] => i = j
    PROVE  /\ IsFiniteSet(M)
           /\ Cardinality(A) + Cardinality(M) <= Cardinality(B)
<1>1. /\ IsFiniteSet(B \ A)
      /\ Cardinality(B \ A) = Cardinality(B) - Cardinality(B \cap A)
    BY FS_Difference
<1>2. B \cap A = A
    OBVIOUS
<1>3. f \in Injection(M, B \ A)
    BY DEF Injection, IsInjective
<1>4. IsFiniteSet(M) /\ Cardinality(M) <= Cardinality(B \ A)
    BY <1>1, <1>3, FS_Injection
<1>5. IsFiniteSet(A)
    BY FS_Subset
<1>6. /\ Cardinality(A) \in Nat /\ Cardinality(B) \in Nat
      /\ Cardinality(M) \in Nat
    BY <1>4, <1>5, FS_CardinalityType
<1> QED
    BY <1>1, <1>2, <1>4, <1>6

----------------------------------------------------------------------------
(* How often a sequence lists a member.                                    *)

Times(t, s) == {i \in 1 .. Len(t) : t[i] = s}
Often(t, s) == Cardinality(Times(t, s))

LEMMA OftenType ==
    ASSUME NEW S, NEW t \in Seq(S), NEW s
    PROVE  IsFiniteSet(Times(t, s)) /\ Often(t, s) \in Nat
<1>1. Len(t) \in Nat
    OBVIOUS
<1>2. IsFiniteSet(1 .. Len(t))
    BY <1>1, FS_Interval
<1>3. Times(t, s) \in SUBSET (1 .. Len(t))
    BY DEF Times
<1>4. IsFiniteSet(Times(t, s))
    BY <1>2, <1>3, FS_Subset
<1> QED
    BY <1>4, FS_CardinalityType DEF Often

\* The members of a set of numbers moved up by k are as many.
LEMMA MovedUp ==
    ASSUME NEW B \in SUBSET Nat, IsFiniteSet(B), NEW k \in Nat
    PROVE  /\ IsFiniteSet({k + j : j \in B})
           /\ Cardinality({k + j : j \in B}) = Cardinality(B)
<1> DEFINE C == {k + j : j \in B}
           f == [j \in B |-> k + j]
<1>1. f \in [B -> C]
    OBVIOUS
<1>2. \A i, j \in B : f[i] = f[j] => i = j
    OBVIOUS
<1>3. \A c \in C : \E j \in B : f[j] = c
    OBVIOUS
<1> HIDE DEF f, C
<1>4. f \in Bijection(B, C)
    BY <1>1, <1>2, <1>3 DEF Bijection, Injection, Surjection, IsInjective
<1>5. ExistsBijection(B, C)
    BY <1>4 DEF ExistsBijection
<1>6. IsFiniteSet(C) /\ Cardinality(C) = Cardinality(B)
    BY <1>5, FS_Bijection
<1> QED
    BY <1>6 DEF C

\* Joined sequences list a packet as often as both do.
LEMMA OftenJoined ==
    ASSUME NEW S, NEW t \in Seq(S), NEW u \in Seq(S), NEW s
    PROVE  Often(t \o u, s) = Often(t, s) + Often(u, s)
<1> DEFINE A == Times(t, s)
           B == Times(u, s)
           C == {Len(t) + j : j \in B}
<1>1. /\ Len(t) \in Nat /\ Len(u) \in Nat
      /\ Len(t \o u) = Len(t) + Len(u)
      /\ \A i \in 1 .. Len(t) : (t \o u)[i] = t[i]
      /\ \A i \in 1 .. Len(u) : (t \o u)[Len(t) + i] = u[i]
    OBVIOUS
<1>2. Times(t \o u, s) = A \cup C
    <2>1. ASSUME NEW i \in Times(t \o u, s) PROVE i \in A \cup C
        <3>1. i \in 1 .. Len(t) + Len(u) /\ (t \o u)[i] = s
            BY <1>1 DEF Times
        <3>2. CASE i <= Len(t)
            BY <1>1, <3>1, <3>2 DEF Times
        <3>3. CASE i > Len(t)
            <4>1. i - Len(t) \in 1 .. Len(u) /\ i = Len(t) + (i - Len(t))
                BY <1>1, <3>1, <3>3
            <4>2. i - Len(t) \in B
                BY <1>1, <3>1, <4>1 DEF Times
            <4> QED
                BY <4>1, <4>2
        <3> QED
            BY <1>1, <3>1, <3>2, <3>3
    <2>2. A \subseteq Times(t \o u, s)
        BY <1>1 DEF Times
    <2>3. ASSUME NEW j \in B PROVE Len(t) + j \in Times(t \o u, s)
        <3>1. j \in 1 .. Len(u) /\ u[j] = s
            BY DEF Times
        <3>2. /\ Len(t) + j \in 1 .. Len(t \o u)
              /\ (t \o u)[Len(t) + j] = s
            BY <1>1, <3>1
        <3> QED
            BY <3>2 DEF Times
    <2> QED
        BY <2>1, <2>2, <2>3
<1>3. A \cap C = {}
    BY <1>1 DEF Times
<1>4. /\ IsFiniteSet(A) /\ IsFiniteSet(B)
      /\ Cardinality(A) \in Nat /\ Cardinality(B) \in Nat
    BY OftenType, FS_CardinalityType
<1>5. IsFiniteSet(C) /\ Cardinality(C) = Cardinality(B)
    <2>1. B \in SUBSET Nat
        BY DEF Times
    <2> HIDE DEF B
    <2> QED
        BY <1>1, <1>4, <2>1, MovedUp
<1> HIDE DEF A, B, C
<1>6. Cardinality(A \cup C) = Cardinality(A) + Cardinality(B)
    <2>1. Cardinality(A \cup C) =
              Cardinality(A) + Cardinality(C) - Cardinality(A \cap C)
        BY <1>4, <1>5, FS_Union
    <2>2. Cardinality(A \cap C) = 0
        BY <1>3, FS_EmptySet
    <2> QED
        BY <1>4, <1>5, <2>1, <2>2
<1> QED
    BY <1>2, <1>6 DEF Often, A, B

LEMMA OftenOne ==
    ASSUME NEW a, NEW s
    PROVE  Often(<<a>>, s) = IF s = a THEN 1 ELSE 0
<1>1. Times(<<a>>, s) = IF s = a THEN {1} ELSE {}
    BY DEF Times
<1> QED
    BY <1>1, FS_EmptySet, FS_Singleton DEF Often

LEMMA OftenTail ==
    ASSUME NEW S, NEW t \in Seq(S), t # <<>>, NEW s
    PROVE  /\ Tail(t) \in Seq(S) /\ Head(t) \in S
           /\ Often(t, s) = (IF s = Head(t) THEN 1 ELSE 0) + Often(Tail(t), s)
<1>1. Tail(t) \in Seq(S) /\ Head(t) \in S /\ <<Head(t)>> \in Seq(S)
    OBVIOUS
<1>2. t = <<Head(t)>> \o Tail(t)
    OBVIOUS
<1>3. Often(<<Head(t)>> \o Tail(t), s) =
          Often(<<Head(t)>>, s) + Often(Tail(t), s)
    BY <1>1, OftenJoined
<1> QED
    BY <1>1, <1>2, <1>3, OftenOne

\* A sequence lists what it holds at some position, and nothing else.
LEMMA OftenListed ==
    ASSUME NEW S, NEW t \in Seq(S), NEW s
    PROVE  Often(t, s) # 0 <=> \E i \in 1 .. Len(t) : t[i] = s
<1>1. Often(t, s) = 0 <=> Times(t, s) = {}
    BY OftenType, FS_EmptySet DEF Often
<1> QED
    BY <1>1 DEF Times
=============================================================================
