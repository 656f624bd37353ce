----------------------------- MODULE QueueLemmas -----------------------------
(***************************************************************************)
(* What Append and Tail do to a sequence used as a queue: its elements,    *)
(* whether one of them occurs twice, and how many of them lie in a set.    *)
(* What changing one value does to a sum over a finite set (SumFunction).  *)
(***************************************************************************)
EXTENDS Integers, Sequences, Functions, FiniteSetTheorems,
        WellFoundedInduction, TLAPS

\* Append adds one element to the range, at the end.
LEMMA AppendRange ==
    ASSUME NEW S, NEW q \in Seq(S), NEW x \in S
    PROVE  /\ Append(q, x) \in Seq(S)
           /\ Range(Append(q, x)) = Range(q) \cup {x}
           /\ Append(q, x) # <<>>
<1>1. Append(q, x) \in Seq(S)
  OBVIOUS
<1>2. Len(Append(q, x)) = Len(q) + 1 /\ Append(q, x)[Len(q) + 1] = x
  OBVIOUS
<1>6. Append(q, x) # <<>>
  BY <1>2
<1>3. \A k \in 1 .. Len(q) : Append(q, x)[k] = q[k]
  OBVIOUS
<1>4. DOMAIN q = 1 .. Len(q) /\ DOMAIN Append(q, x) = 1 .. Len(q) + 1
  OBVIOUS
<1>5. Range(Append(q, x)) = Range(q) \cup {x}
  BY <1>2, <1>3, <1>4 DEF Range
<1> QED
  BY <1>1, <1>5, <1>6

\* Append of a new element keeps a queue without repetition.
LEMMA AppendKeepsInjective ==
    ASSUME NEW S, NEW q \in Seq(S), NEW x \in S,
           IsInjective(q), x \notin Range(q)
    PROVE  IsInjective(Append(q, x))
<1>1. Len(Append(q, x)) = Len(q) + 1 /\ Append(q, x)[Len(q) + 1] = x
  OBVIOUS
<1>2. \A k \in 1 .. Len(q) : Append(q, x)[k] = q[k]
  OBVIOUS
<1>3. DOMAIN q = 1 .. Len(q) /\ DOMAIN Append(q, x) = 1 .. Len(q) + 1
  OBVIOUS
<1> QED
  BY <1>1, <1>2, <1>3 DEF Range, IsInjective

\* Taking the head of a queue.
LEMMA TailRange ==
    ASSUME NEW S, NEW q \in Seq(S), q # <<>>
    PROVE  /\ Head(q) \in S /\ Head(q) \in Range(q)
           /\ Tail(q) \in Seq(S)
           /\ Range(q) = Range(Tail(q)) \cup {Head(q)}
           /\ Len(Tail(q)) = Len(q) - 1
<1>1. Head(q) \in S /\ Tail(q) \in Seq(S) /\ Len(Tail(q)) = Len(q) - 1
  OBVIOUS
<1>2. \A k \in 1 .. Len(q) - 1 : Tail(q)[k] = q[k + 1]
  OBVIOUS
<1>3. DOMAIN q = 1 .. Len(q) /\ DOMAIN Tail(q) = 1 .. Len(q) - 1 /\ Len(q) > 0
  OBVIOUS
<1>4. Head(q) = q[1]
  OBVIOUS
<1>5. ASSUME NEW k \in 1 .. Len(q), k # 1
      PROVE  k - 1 \in 1 .. Len(q) - 1 /\ q[k] = Tail(q)[k - 1]
  <2>1. Len(q) \in Nat
    OBVIOUS
  <2>2. k - 1 \in 1 .. Len(q) - 1 /\ (k - 1) + 1 = k
    BY <2>1, <1>5
  <2> QED
    BY <1>2, <2>2
<1>6. ASSUME NEW k \in 1 .. Len(q)
      PROVE  q[k] \in Range(Tail(q)) \cup {Head(q)}
  <2>1. CASE k = 1
    BY <2>1, <1>4
  <2>2. CASE k # 1
    BY <2>2, <1>3, <1>5 DEF Range
  <2> QED
    BY <2>1, <2>2
<1>7. Range(Tail(q)) \cup {Head(q)} \subseteq Range(q)
  BY <1>2, <1>3, <1>4 DEF Range
<1>8. Range(q) \subseteq Range(Tail(q)) \cup {Head(q)}
  BY <1>3, <1>6 DEF Range
<1>9. Head(q) \in Range(q)
  BY <1>3, <1>4 DEF Range
<1> QED
  BY <1>1, <1>7, <1>8, <1>9

\* A queue without repetition loses its head for good.
LEMMA TailInjective ==
    ASSUME NEW S, NEW q \in Seq(S), q # <<>>, IsInjective(q)
    PROVE  IsInjective(Tail(q)) /\ Head(q) \notin Range(Tail(q))
<1>1. \A k \in 1 .. Len(q) - 1 : Tail(q)[k] = q[k + 1]
  OBVIOUS
<1>2. DOMAIN q = 1 .. Len(q) /\ DOMAIN Tail(q) = 1 .. Len(q) - 1 /\ Len(q) > 0
  OBVIOUS
<1>3. Head(q) = q[1]
  OBVIOUS
<1> QED
  BY <1>1, <1>2, <1>3 DEF Range, IsInjective
\* The head of a queue goes to its end: the same elements, none twice.
LEMMA Rotate ==
    ASSUME NEW S, NEW q \in Seq(S), q # <<>>
    PROVE  /\ Append(Tail(q), Head(q)) \in Seq(S)
           /\ Append(Tail(q), Head(q)) # <<>>
           /\ Range(Append(Tail(q), Head(q))) = Range(q)
           /\ IsInjective(q) => IsInjective(Append(Tail(q), Head(q)))
<1>1. Head(q) \in S /\ Tail(q) \in Seq(S) /\ Range(q) = Range(Tail(q)) \cup {Head(q)}
  BY TailRange
<1>2. \A t \in Seq(S), x \in S :
          /\ Append(t, x) \in Seq(S)
          /\ Append(t, x) # <<>>
          /\ Range(Append(t, x)) = Range(t) \cup {x}
  BY AppendRange
<1>3. \A t \in Seq(S), x \in S :
          IsInjective(t) /\ x \notin Range(t) => IsInjective(Append(t, x))
  BY AppendKeepsInjective
<1>4. IsInjective(q) => IsInjective(Tail(q)) /\ Head(q) \notin Range(Tail(q))
  BY TailInjective
<1> QED
  BY <1>1, <1>2, <1>3, <1>4
-----------------------------------------------------------------------------
(***************************************************************************)
(* Induction, from the least element of what is left, and sums over finite *)
(* sets, which SumFunction takes in the order of CHOOSE.                   *)
(***************************************************************************)
\* A set of natural numbers with 0, and with n + 1 if it has n, has them all.
LEMMA NatInduct ==
    ASSUME NEW S \in SUBSET Nat, 0 \in S, \A n \in S : n + 1 \in S
    PROVE  S = Nat
<1> DEFINE T == Nat \ S
<1> SUFFICES ASSUME T # {} PROVE FALSE
  OBVIOUS
<1>1. PICK x \in T : \A y \in T : ~(<<y, x>> \in OpToRel(<, Nat))
  BY NatLessThanWellFounded, WFMin
<1>2. x # 0 /\ x \in Nat
  OBVIOUS
<1>3. x - 1 \in Nat /\ x - 1 < x /\ (x - 1) + 1 = x
  BY <1>2
<1>4. <<x - 1, x>> \in OpToRel(<, Nat)
  BY <1>2, <1>3 DEF OpToRel
<1>5. x - 1 \in S
  BY <1>1, <1>3, <1>4
<1> QED
  BY <1>1, <1>3, <1>5

\* The element a fold takes first.
Pick(s) == CHOOSE x \in s : TRUE

LEMMA PickIn == ASSUME NEW s, s # {} PROVE Pick(s) \in s
BY DEF Pick

\* A set of subsets that holds {}, and a set whenever it holds what is left
\* of it without Pick, holds all of them.
LEMMA SubsetInduct ==
    ASSUME NEW D, IsFiniteSet(D), NEW P \in SUBSET SUBSET D, {} \in P,
           \A s \in SUBSET D : s # {} /\ s \ {Pick(s)} \in P => s \in P
    PROVE  P = SUBSET D
<1> DEFINE S == {n \in Nat : \A s \in SUBSET D : Cardinality(s) = n => s \in P}
<1>1. \A s \in SUBSET D : IsFiniteSet(s) /\ Cardinality(s) \in Nat
  BY FS_Subset, FS_CardinalityType
<1>2. 0 \in S
  BY <1>1, FS_EmptySet
<1>3. ASSUME NEW n \in S PROVE n + 1 \in S
  <2> SUFFICES ASSUME NEW s \in SUBSET D, Cardinality(s) = n + 1 PROVE s \in P
    OBVIOUS
  <2>1. n \in Nat /\ Cardinality(s) # 0
    OBVIOUS
  <2>2. s # {}
    BY <2>1, FS_EmptySet
  <2>3. Cardinality(s \ {Pick(s)}) = Cardinality(s) - 1
    BY <1>1, <2>2, PickIn, FS_RemoveElement
  <2>4. Cardinality(s \ {Pick(s)}) = n
    BY <2>1, <2>3
  <2> QED
    BY <2>2, <2>4
<1>4. S = Nat
  <2>1. S \in SUBSET Nat
    OBVIOUS
  <2> HIDE DEF S
  <2> QED
    BY <1>2, <1>3, <2>1, NatInduct
<1> QED
  BY <1>1, <1>4

\* The recursion of SumFunction over the subsets of a set.
Sums(f, D, sum) ==
    sum = [s \in D |-> IF s = {} THEN 0 ELSE f[Pick(s)] + sum[s \ {Pick(s)}]]

\* There is such a function if the set is finite.
LEMMA SumsExist ==
    ASSUME NEW f, NEW D, IsFiniteSet(D)
    PROVE  \E sum : Sums(f, SUBSET D, sum)
<1> DEFINE Small(n) == {s \in SUBSET D : Cardinality(s) <= n}
           S == {n \in Nat : \E sum : Sums(f, Small(n), sum)}
<1>1. \A s \in SUBSET D : IsFiniteSet(s) /\ Cardinality(s) \in Nat
  BY FS_Subset, FS_CardinalityType
<1>2. 0 \in S
  <2>1. \A s \in Small(0) : s = {}
    BY <1>1, FS_EmptySet
  <2>2. Sums(f, Small(0), [s \in Small(0) |-> 0])
    BY <2>1 DEF Sums
  <2> QED
    BY <2>2
<1>3. ASSUME NEW n \in S PROVE n + 1 \in S
  <2>1. PICK sum : Sums(f, Small(n), sum)
    OBVIOUS
  <2> DEFINE next == [s \in Small(n + 1) |->
                         IF s = {} THEN 0 ELSE f[Pick(s)] + sum[s \ {Pick(s)}]]
  <2>2. ASSUME NEW s \in Small(n + 1), s # {}
        PROVE  s \ {Pick(s)} \in Small(n) /\ s \ {Pick(s)} \in Small(n + 1)
    <3>1. Cardinality(s \ {Pick(s)}) = Cardinality(s) - 1
      BY <1>1, <2>2, PickIn, FS_RemoveElement
    <3>2. Cardinality(s) \in Nat /\ Cardinality(s) <= n + 1
      BY <1>1
    <3> QED
      BY <3>1, <3>2
  <2>3. \A s \in Small(n) : next[s] = sum[s]
    <3>1. \A s \in Small(n) : s \in Small(n + 1)
      BY <1>1
    <3>2. \A s \in Small(n) :
             sum[s] = IF s = {} THEN 0 ELSE f[Pick(s)] + sum[s \ {Pick(s)}]
      BY <2>1 DEF Sums
    <3> QED
      BY <3>1, <3>2
  <2>4. Sums(f, Small(n + 1), next)
    <3>1. \A s \in Small(n + 1) : next[s] =
             IF s = {} THEN 0 ELSE f[Pick(s)] + next[s \ {Pick(s)}]
      BY <2>2, <2>3
    <3> HIDE DEF Small
    <3> QED
      BY <3>1 DEF Sums
  <2>5. \E su : Sums(f, Small(n + 1), su)
    <3> HIDE DEF next, Small
    <3> QED
      BY <2>4
  <2>6. n + 1 \in Nat
    OBVIOUS
  <2> HIDE DEF next, Small
  <2> QED
    BY <2>5, <2>6
<1>4. S = Nat
  <2>1. S \in SUBSET Nat
    OBVIOUS
  <2> HIDE DEF S
  <2> QED
    BY <1>2, <1>3, <2>1, NatInduct
<1>5. Small(Cardinality(D)) = SUBSET D
  BY FS_Subset
<1>6. Cardinality(D) \in Nat
  BY FS_CardinalityType
<1> QED
  BY <1>4, <1>5, <1>6

\* SumFunction is the last value of that recursion.
LEMMA SumUnfold ==
    ASSUME NEW f, IsFiniteSet(DOMAIN f)
    PROVE  \E sum : Sums(f, SUBSET DOMAIN f, sum) /\ SumFunction(f) = sum[DOMAIN f]
<1>1. SumFunction(f) = (CHOOSE sum : Sums(f, SUBSET DOMAIN f, sum))[DOMAIN f]
  BY DEF SumFunction, SumFunctionOnSet, FoldFunctionOnSet, MapThenFoldSet, Sums, Pick
<1>2. \E sum : Sums(f, SUBSET DOMAIN f, sum)
  BY SumsExist
<1> QED
  BY <1>1, <1>2

\* g is f, changed at x only.
ChangedAt(f, g, D, T, x) ==
    /\ f \in [D -> T] /\ g \in [D -> T]
    /\ x \in D /\ \A y \in D : y # x => g[y] = f[y]

\* Two functions that differ at one place have sums that differ by as much.
LEMMA SumStep ==
    ASSUME NEW D, IsFiniteSet(D), NEW f, NEW g, NEW x, ChangedAt(f, g, D, Int, x)
    PROVE  /\ SumFunction(f) \in Int
           /\ SumFunction(g) = SumFunction(f) + g[x] - f[x]
<1>0. /\ f \in [D -> Int] /\ g \in [D -> Int]
      /\ x \in D /\ \A y \in D : y # x => g[y] = f[y]
  BY DEF ChangedAt
<1>1. PICK F : Sums(f, SUBSET D, F) /\ SumFunction(f) = F[D]
  BY <1>0, SumUnfold
<1>2. PICK G : Sums(g, SUBSET D, G) /\ SumFunction(g) = G[D]
  BY <1>0, SumUnfold
<1> DEFINE P == {s \in SUBSET D : F[s] \in Int /\ G[s] = IF x \in s THEN F[s] + g[x] - f[x]
                                                                   ELSE F[s]}
<1>3. \A s \in SUBSET D :
         /\ F[s] = IF s = {} THEN 0 ELSE f[Pick(s)] + F[s \ {Pick(s)}]
         /\ G[s] = IF s = {} THEN 0 ELSE g[Pick(s)] + G[s \ {Pick(s)}]
  BY <1>1, <1>2 DEF Sums
<1>4. {} \in P
  <2>1. {} \in SUBSET D
    OBVIOUS
  <2>2. F[{}] = 0 /\ G[{}] = 0
    BY <1>3, <2>1
  <2> QED
    BY <2>1, <2>2
<1>5. ASSUME NEW s \in SUBSET D, s # {}, s \ {Pick(s)} \in P PROVE s \in P
  <2>1. /\ Pick(s) \in D /\ Pick(s) \in s
        /\ f[Pick(s)] \in Int /\ g[Pick(s)] \in Int
        /\ Pick(s) # x => g[Pick(s)] = f[Pick(s)]
    BY <1>0, <1>5, PickIn
  <2>2. F[s] = f[Pick(s)] + F[s \ {Pick(s)}] /\ G[s] = g[Pick(s)] + G[s \ {Pick(s)}]
    BY <1>3, <1>5
  <2>3. CASE Pick(s) = x
    BY <1>0, <1>5, <2>1, <2>2, <2>3
  <2>4. CASE Pick(s) # x
    BY <1>0, <1>5, <2>1, <2>2, <2>4
  <2> QED
    BY <2>3, <2>4
<1>6. P = SUBSET D
  <2>1. P \in SUBSET SUBSET D
    OBVIOUS
  <2> HIDE DEF P
  <2> QED
    BY <1>4, <1>5, <2>1, SubsetInduct
<1>7. D \in P
  BY <1>6
<1> QED
  BY <1>0, <1>1, <1>2, <1>7

\* The sum of natural numbers is one, and zero only if they are all zero.
LEMMA SumNat ==
    ASSUME NEW D, IsFiniteSet(D), NEW f \in [D -> Nat]
    PROVE  /\ SumFunction(f) \in Nat
           /\ SumFunction(f) = 0 <=> \A y \in D : f[y] = 0
<1>1. PICK F : Sums(f, SUBSET D, F) /\ SumFunction(f) = F[D]
  BY SumUnfold
<1> DEFINE P == {s \in SUBSET D : F[s] \in Nat /\ (F[s] = 0 <=> \A y \in s : f[y] = 0)}
<1>2. \A s \in SUBSET D : F[s] = IF s = {} THEN 0 ELSE f[Pick(s)] + F[s \ {Pick(s)}]
  BY <1>1 DEF Sums
<1>3. {} \in P
  <2>1. {} \in SUBSET D
    OBVIOUS
  <2>2. F[{}] = 0
    BY <1>2, <2>1
  <2> QED
    BY <2>1, <2>2
<1>4. ASSUME NEW s \in SUBSET D, s # {}, s \ {Pick(s)} \in P PROVE s \in P
  <2>1. Pick(s) \in s /\ f[Pick(s)] \in Nat
    BY <1>4, PickIn
  <2>2. F[s] = f[Pick(s)] + F[s \ {Pick(s)}]
    BY <1>2, <1>4
  <2>3. F[s] = 0 <=> f[Pick(s)] = 0 /\ F[s \ {Pick(s)}] = 0
    BY <1>4, <2>1, <2>2
  <2>4. (\A y \in s : f[y] = 0) <=> f[Pick(s)] = 0 /\ \A y \in s \ {Pick(s)} : f[y] = 0
    BY <2>1
  <2> QED
    BY <1>4, <2>1, <2>2, <2>3, <2>4
<1>5. P = SUBSET D
  <2>1. P \in SUBSET SUBSET D
    OBVIOUS
  <2> HIDE DEF P
  <2> QED
    BY <1>3, <1>4, <2>1, SubsetInduct
<1>6. D \in P
  BY <1>5
<1> QED
  BY <1>1, <1>6
-----------------------------------------------------------------------------
(***************************************************************************)
(* Counts.                                                                 *)
(***************************************************************************)
\* How many elements of a sequence, or values of a function, lie in C.
CountIn(q, C) == Cardinality({k \in DOMAIN q : q[k] \in C})
One(x, C) == IF x \in C THEN 1 ELSE 0

\* Counts are natural numbers.
LEMMA CountType ==
    ASSUME NEW q, IsFiniteSet(DOMAIN q), NEW C
    PROVE  CountIn(q, C) \in Nat
<1>1. IsFiniteSet({k \in DOMAIN q : q[k] \in C})
  BY FS_Subset
<1> QED
  BY <1>1, FS_CardinalityType DEF CountIn

LEMMA CountSeqType ==
    ASSUME NEW S, NEW q \in Seq(S), NEW C
    PROVE  CountIn(q, C) \in Nat
<1>1. DOMAIN q = 1 .. Len(q) /\ Len(q) \in Int
  OBVIOUS
<1>2. IsFiniteSet(1 .. Len(q))
  BY <1>1, FS_Interval
<1> QED
  BY <1>1, <1>2, CountType

\* Append counts its element.
LEMMA CountAppend ==
    ASSUME NEW S, NEW q \in Seq(S), NEW x \in S, NEW C
    PROVE  /\ CountIn(q, C) \in Nat
           /\ CountIn(Append(q, x), C) = CountIn(q, C) + One(x, C)
<1> DEFINE n == Len(q)
           K == {k \in 1 .. n : q[k] \in C}
           L == {k \in 1 .. n + 1 : Append(q, x)[k] \in C}
<1>1. /\ n \in Nat /\ DOMAIN q = 1 .. n /\ DOMAIN Append(q, x) = 1 .. n + 1
      /\ \A k \in 1 .. n : Append(q, x)[k] = q[k]
      /\ Append(q, x)[n + 1] = x
  OBVIOUS
<1>2. IsFiniteSet(1 .. n)
  BY <1>1, FS_Interval
<1>3. IsFiniteSet(K) /\ Cardinality(K) \in Nat
  BY <1>2, FS_Subset, FS_CardinalityType
<1>4. n + 1 \notin K
  BY <1>1
<1>5. L = IF x \in C THEN K \cup {n + 1} ELSE K
  BY <1>1
<1>6. Cardinality(L) = Cardinality(K) + One(x, C)
  <2>1. CASE x \in C
    BY <1>3, <1>4, <1>5, <2>1, FS_AddElement DEF One
  <2>2. CASE x \notin C
    <3>1. L = K
      BY <1>5, <2>2
    <3> HIDE DEF K, L
    <3> QED
      BY <1>3, <2>2, <3>1 DEF One
  <2> QED
    BY <2>1, <2>2
<1>7. CountIn(q, C) = Cardinality(K) /\ CountIn(Append(q, x), C) = Cardinality(L)
  BY <1>1 DEF CountIn
<1> QED
  BY <1>3, <1>6, <1>7

\* The head no longer counts.
LEMMA CountTail ==
    ASSUME NEW S, NEW q \in Seq(S), q # <<>>, NEW C
    PROVE  /\ CountIn(q, C) \in Nat /\ CountIn(Tail(q), C) \in Nat
           /\ CountIn(q, C) = CountIn(Tail(q), C) + One(Head(q), C)
<1> DEFINE n == Len(q)
           K == {k \in 1 .. n : q[k] \in C}
           L == {k \in 1 .. n - 1 : Tail(q)[k] \in C}
           shift == [k \in L |-> k + 1]
<1>1. /\ n \in Nat \ {0} /\ DOMAIN q = 1 .. n /\ DOMAIN Tail(q) = 1 .. n - 1
      /\ \A k \in 1 .. n - 1 : Tail(q)[k] = q[k + 1]
      /\ Head(q) = q[1]
  OBVIOUS
<1>2. IsFiniteSet(1 .. n) /\ IsFiniteSet(1 .. n - 1)
  BY <1>1, FS_Interval
<1>3. /\ IsFiniteSet(K) /\ Cardinality(K) \in Nat
      /\ IsFiniteSet(L) /\ Cardinality(L) \in Nat
  BY <1>2, FS_Subset, FS_CardinalityType
<1>4. shift \in Bijection(L, K \ {1})
  <2>1. ASSUME NEW k \in L PROVE k + 1 \in K \ {1}
    <3>1. k \in 1 .. n - 1 /\ Tail(q)[k] \in C
      OBVIOUS
    <3>2. k + 1 \in 1 .. n /\ k + 1 # 1 /\ q[k + 1] \in C
      BY <1>1, <3>1
    <3> QED
      BY <3>2
  <2>2. ASSUME NEW k \in K \ {1} PROVE k - 1 \in L /\ (k - 1) + 1 = k
    <3>1. k \in 1 .. n /\ k # 1 /\ q[k] \in C
      OBVIOUS
    <3>2. k - 1 \in 1 .. n - 1 /\ (k - 1) + 1 = k
      BY <1>1, <3>1
    <3>3. Tail(q)[k - 1] = q[k]
      BY <1>1, <3>2
    <3> QED
      BY <3>1, <3>2, <3>3
  <2>3. \A j, k \in L : j + 1 = k + 1 => j = k
    BY <1>1
  <2> HIDE DEF L, K
  <2>4. shift \in [L -> K \ {1}]
    BY <2>1
  <2>5. \A j, k \in L : shift[j] = shift[k] => j = k
    BY <2>3
  <2>6. \A k \in K \ {1} : \E j \in L : shift[j] = k
    BY <2>2
  <2> QED
    BY <2>4, <2>5, <2>6 DEF Bijection, Injection, Surjection, IsInjective
<1>5. Cardinality(K \ {1}) = Cardinality(L)
  <2> HIDE DEF L, K, shift
  <2> QED
    BY <1>3, <1>4, FS_Bijection DEF ExistsBijection
<1>6. Cardinality(K) = Cardinality(L) + One(Head(q), C)
  <2>1. 1 \in K <=> Head(q) \in C
    BY <1>1
  <2>2. Cardinality(K \ {1}) = IF 1 \in K THEN Cardinality(K) - 1 ELSE Cardinality(K)
    BY <1>3, FS_RemoveElement
  <2> HIDE DEF L, K, shift
  <2> QED
    BY <1>3, <1>5, <2>1, <2>2 DEF One
<1>7. CountIn(q, C) = Cardinality(K) /\ CountIn(Tail(q), C) = Cardinality(L)
  BY <1>1 DEF CountIn
<1> QED
  BY <1>3, <1>6, <1>7

\* The length of a queue is the number of its elements.
LEMMA CountAll ==
    ASSUME NEW S, NEW q \in Seq(S)
    PROVE  CountIn(q, S) = Len(q)
<1>1. {k \in DOMAIN q : q[k] \in S} = 1 .. Len(q) /\ Len(q) \in Nat
  OBVIOUS
<1>2. Cardinality(1 .. Len(q)) = Len(q)
  <2>1. ASSUME NEW n \in Nat PROVE Cardinality(1 .. n) = n
    <3>1. Cardinality(1 .. n) = IF 1 > n THEN 0 ELSE n - 1 + 1
      BY FS_Interval
    <3> QED
      BY <3>1
  <2> QED
    BY <1>1, <2>1
<1> QED
  BY <1>1, <1>2 DEF CountIn

\* A function that changes at one place.
LEMMA CountStep ==
    ASSUME NEW D, IsFiniteSet(D), NEW T, NEW f, NEW g, NEW x,
           ChangedAt(f, g, D, T, x), NEW C
    PROVE  /\ CountIn(f, C) \in Nat
           /\ CountIn(g, C) = CountIn(f, C) + One(g[x], C) - One(f[x], C)
<1> DEFINE K == {k \in D : f[k] \in C}
           L == {k \in D : g[k] \in C}
<1>0. /\ DOMAIN f = D /\ DOMAIN g = D
      /\ x \in D /\ \A y \in D : y # x => g[y] = f[y]
  BY DEF ChangedAt
<1>1. IsFiniteSet(K) /\ IsFiniteSet(L)
  BY FS_Subset
<1>2. Cardinality(K) \in Nat /\ Cardinality(L) \in Nat
  BY <1>1, FS_CardinalityType
<1>3. K \ {x} = L \ {x} /\ (x \in K <=> f[x] \in C) /\ (x \in L <=> g[x] \in C)
  BY <1>0
<1>4. /\ Cardinality(K \ {x}) = Cardinality(K) - One(f[x], C)
      /\ Cardinality(L \ {x}) = Cardinality(L) - One(g[x], C)
  <2>1. /\ Cardinality(K \ {x}) = IF x \in K THEN Cardinality(K) - 1 ELSE Cardinality(K)
        /\ Cardinality(L \ {x}) = IF x \in L THEN Cardinality(L) - 1 ELSE Cardinality(L)
    BY <1>1, FS_RemoveElement
  <2> HIDE DEF K, L
  <2> QED
    BY <1>2, <1>3, <2>1 DEF One
<1>5. One(f[x], C) \in Nat /\ One(g[x], C) \in Nat
  BY DEF One
<1>6. CountIn(f, C) = Cardinality(K) /\ CountIn(g, C) = Cardinality(L)
  BY <1>0 DEF CountIn
<1>7. Cardinality(K \ {x}) = Cardinality(L \ {x})
  BY <1>3
<1> HIDE DEF K, L
<1> QED
  BY <1>2, <1>4, <1>5, <1>6, <1>7

\* The elements in C of a table of queues.
CountsIn(f, C) == SumFunction([y \in DOMAIN f |-> CountIn(f[y], C)])

LEMMA CountsType ==
    ASSUME NEW D, IsFiniteSet(D), NEW S, NEW f \in [D -> Seq(S)], NEW C
    PROVE  CountsIn(f, C) \in Nat
<1> DEFINE F == [y \in D |-> CountIn(f[y], C)]
<1>1. \A y \in D : CountIn(f[y], C) \in Nat
  BY CountSeqType
<1>2. F \in [D -> Nat] /\ CountsIn(f, C) = SumFunction(F)
  BY <1>1 DEF CountsIn
<1> HIDE DEF F
<1> QED
  BY <1>2, SumNat

\* One queue of the table changes.
LEMMA CountsStep ==
    ASSUME NEW D, IsFiniteSet(D), NEW S, NEW f, NEW g, NEW x,
           ChangedAt(f, g, D, Seq(S), x), NEW C
    PROVE  /\ CountsIn(f, C) \in Int
           /\ CountsIn(g, C) = CountsIn(f, C) + CountIn(g[x], C) - CountIn(f[x], C)
<1> DEFINE F == [y \in D |-> CountIn(f[y], C)]
           G == [y \in D |-> CountIn(g[y], C)]
<1>2. ASSUME NEW t \in Seq(S) PROVE CountIn(t, C) \in Int
  BY CountSeqType
<1>1. /\ f \in [D -> Seq(S)] /\ g \in [D -> Seq(S)]
      /\ x \in D /\ \A y \in D : y # x => g[y] = f[y]
  BY DEF ChangedAt
<1>3. F \in [D -> Int] /\ G \in [D -> Int]
  BY <1>1, <1>2
<1>4. ChangedAt(F, G, D, Int, x)
  BY <1>1, <1>3 DEF ChangedAt
<1>5. G[x] = CountIn(g[x], C) /\ F[x] = CountIn(f[x], C)
  BY <1>1
<1>6. DOMAIN f = D /\ DOMAIN g = D
  BY <1>1
<1>7. CountsIn(f, C) = SumFunction(F) /\ CountsIn(g, C) = SumFunction(G)
  BY <1>6 DEF CountsIn
<1>8. SumFunction(F) \in Int /\ SumFunction(G) = SumFunction(F) + G[x] - F[x]
  <2> HIDE DEF F, G
  <2> QED
    BY <1>4, SumStep
<1> QED
  BY <1>5, <1>7, <1>8

\* What can happen to one queue of a table.
AppendedAt(f, g, D, S, x, e) ==
    f \in [D -> Seq(S)] /\ x \in D /\ e \in S /\ g = [f EXCEPT ![x] = Append(@, e)]
TakenAt(f, g, D, S, x) ==
    f \in [D -> Seq(S)] /\ x \in D /\ f[x] # <<>> /\ g = [f EXCEPT ![x] = Tail(@)]
RotatedAt(f, g, D, S, x) ==
    /\ f \in [D -> Seq(S)] /\ x \in D /\ f[x] # <<>>
    /\ g = [f EXCEPT ![x] = Append(Tail(@), Head(f[x]))]

\* Append to one queue of the table, and taking its head.
LEMMA CountsAppend ==
    ASSUME NEW D, IsFiniteSet(D), NEW S, NEW f, NEW g, NEW x, NEW e,
           AppendedAt(f, g, D, S, x, e), NEW C
    PROVE  /\ CountsIn(f, C) \in Int
           /\ CountsIn(g, C) = CountsIn(f, C) + One(e, C)
<1>0. /\ f \in [D -> Seq(S)] /\ x \in D /\ e \in S
      /\ g = [f EXCEPT ![x] = Append(@, e)]
  BY DEF AppendedAt
<1>1. f[x] \in Seq(S) /\ Append(f[x], e) \in Seq(S)
  BY <1>0
<1>2. g[x] = Append(f[x], e) /\ ChangedAt(f, g, D, Seq(S), x)
  BY <1>0, <1>1 DEF ChangedAt
<1>3. CountIn(f[x], C) \in Nat /\ One(e, C) \in Nat
      /\ CountIn(Append(f[x], e), C) = CountIn(f[x], C) + One(e, C)
  BY <1>0, <1>1, CountAppend DEF One
<1>6. ChangedAt(f, g, D, Seq(S), x)
  BY <1>2
<1>4. /\ CountsIn(f, C) \in Int
      /\ CountsIn(g, C) = CountsIn(f, C) + CountIn(g[x], C) - CountIn(f[x], C)
  BY <1>6, CountsStep
<1>5. CountsIn(g, C) = CountsIn(f, C) + One(e, C)
  BY <1>2, <1>3, <1>4
<1> QED
  BY <1>4, <1>5

LEMMA CountsTail ==
    ASSUME NEW D, IsFiniteSet(D), NEW S, NEW f, NEW g, NEW x,
           TakenAt(f, g, D, S, x), NEW C
    PROVE  /\ CountsIn(f, C) \in Int
           /\ CountsIn(g, C) = CountsIn(f, C) - One(Head(f[x]), C)
<1>0. /\ f \in [D -> Seq(S)] /\ x \in D /\ f[x] # <<>>
      /\ g = [f EXCEPT ![x] = Tail(@)]
  BY DEF TakenAt
<1>1. f[x] \in Seq(S) /\ Tail(f[x]) \in Seq(S)
  BY <1>0, TailRange
<1>2. g[x] = Tail(f[x]) /\ ChangedAt(f, g, D, Seq(S), x)
  BY <1>0, <1>1 DEF ChangedAt
<1>3. CountIn(f[x], C) \in Nat /\ CountIn(Tail(f[x]), C) \in Nat
      /\ One(Head(f[x]), C) \in Nat
      /\ CountIn(f[x], C) = CountIn(Tail(f[x]), C) + One(Head(f[x]), C)
  BY <1>0, <1>1, CountTail DEF One
<1>6. ChangedAt(f, g, D, Seq(S), x)
  BY <1>2
<1>4. /\ CountsIn(f, C) \in Int
      /\ CountsIn(g, C) = CountsIn(f, C) + CountIn(g[x], C) - CountIn(f[x], C)
  BY <1>6, CountsStep
<1>5. CountsIn(g, C) = CountsIn(f, C) - One(Head(f[x]), C)
  BY <1>2, <1>3, <1>4
<1> QED
  BY <1>4, <1>5

\* A head that goes to the end of its queue changes no count.
LEMMA CountsRotate ==
    ASSUME NEW D, IsFiniteSet(D), NEW S, NEW f, NEW g, NEW x,
           RotatedAt(f, g, D, S, x), NEW C
    PROVE  CountsIn(g, C) = CountsIn(f, C)
<1>0. /\ f \in [D -> Seq(S)] /\ x \in D /\ f[x] # <<>>
      /\ g = [f EXCEPT ![x] = Append(Tail(@), Head(f[x]))]
  BY DEF RotatedAt
<1>1. /\ f[x] \in Seq(S) /\ Tail(f[x]) \in Seq(S) /\ Head(f[x]) \in S
      /\ Append(Tail(f[x]), Head(f[x])) \in Seq(S)
  BY <1>0, TailRange, AppendRange
<1>2. /\ g[x] = Append(Tail(f[x]), Head(f[x]))
      /\ ChangedAt(f, g, D, Seq(S), x)
  BY <1>0, <1>1 DEF ChangedAt
<1>3. /\ CountIn(f[x], C) \in Nat /\ CountIn(Tail(f[x]), C) \in Nat
      /\ One(Head(f[x]), C) \in Nat
      /\ CountIn(f[x], C) = CountIn(Tail(f[x]), C) + One(Head(f[x]), C)
  BY <1>0, <1>1, CountTail DEF One
<1>4. CountIn(g[x], C) = CountIn(Tail(f[x]), C) + One(Head(f[x]), C)
  <2>1. CountIn(Append(Tail(f[x]), Head(f[x])), C) = CountIn(Tail(f[x]), C) + One(Head(f[x]), C)
    BY <1>0, <1>1, CountAppend
  <2> QED
    BY <1>2, <2>1
<1>7. ChangedAt(f, g, D, Seq(S), x)
  BY <1>2
<1>5. /\ CountsIn(f, C) \in Int
      /\ CountsIn(g, C) = CountsIn(f, C) + CountIn(g[x], C) - CountIn(f[x], C)
  BY <1>7, CountsStep
<1>6. CountsIn(g, C) = CountsIn(f, C)
  BY <1>3, <1>4, <1>5
<1> QED
  BY <1>6

\* The count of all the elements is the sum of the lengths, and it is zero
\* only if every queue is empty.
LEMMA CountsAll ==
    ASSUME NEW D, IsFiniteSet(D), NEW S, NEW f \in [D -> Seq(S)]
    PROVE  /\ CountsIn(f, S) = SumFunction([y \in DOMAIN f |-> Len(f[y])])
           /\ CountsIn(f, S) \in Nat
           /\ CountsIn(f, S) = 0 => \A y \in D : f[y] = <<>>
<1> DEFINE L == [y \in D |-> Len(f[y])]
<1>1. \A y \in D : CountIn(f[y], S) = Len(f[y]) /\ Len(f[y]) \in Nat
  BY CountAll
<1>2. DOMAIN f = D
  OBVIOUS
<1>3. CountsIn(f, S) = SumFunction(L)
  BY <1>1, <1>2 DEF CountsIn
<1>4. L \in [D -> Nat] /\ \A y \in D : L[y] = Len(f[y])
  BY <1>1
<1>5. SumFunction(L) \in Nat /\ (SumFunction(L) = 0 <=> \A y \in D : L[y] = 0)
  <2> HIDE DEF L
  <2> QED
    BY <1>4, SumNat
<1>6. \A y \in D : Len(f[y]) = 0 => f[y] = <<>>
  OBVIOUS
<1> QED
  BY <1>2, <1>3, <1>4, <1>5, <1>6
=============================================================================
