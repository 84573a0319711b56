--------------------------- MODULE SequenceLemmas ---------------------------
(***************************************************************************)
(* Lemmas on sequences that the proofs share: which elements are in a list *)
(* that is put together from others, and that none is in it twice.  A      *)
(* recursive function over the natural numbers is reasoned about by        *)
(* induction in the form of sets of numbers.                               *)
(***************************************************************************)
EXTENDS Integers, SequencesExt, SequenceTheorems, FiniteSetTheorems, WellFoundedInduction, TLAPS

LEMMA NatSetInduction ==
    ASSUME NEW S, 0 \in S, \A n \in Nat : n \in S => n + 1 \in S
    PROVE  Nat \subseteq S
<1> DEFINE T == Nat \ S
<1> SUFFICES ASSUME T # {} PROVE FALSE
    OBVIOUS
<1>1. PICK k \in T : \A j \in T : ~(<<j, k>> \in OpToRel(<, Nat))
    <2>1. T \subseteq Nat /\ T # {}
        OBVIOUS
    <2> HIDE DEF T
    <2>2. QED BY <2>1, NatLessThanWellFounded, WFMin
<1>2. k \in Nat /\ k # 0 /\ k - 1 \in Nat /\ k - 1 < k
    OBVIOUS
<1>3. k - 1 \notin T
    BY <1>1, <1>2 DEF OpToRel
<1>4. QED BY <1>2, <1>3

-----------------------------------------------------------------------------
(* Elements of sequences.                                                   *)

LEMMA SeqFacts ==
    ASSUME NEW S, NEW s \in Seq(S)
    PROVE  /\ Len(s) \in Nat /\ DOMAIN s = 1..Len(s)
           /\ \A x : x \in ToSet(s) <=> \E i \in 1..Len(s) : x = s[i]
           /\ ToSet(s) \subseteq S /\ s \in Seq(ToSet(s))
           /\ ToSet(s) = {} <=> s = << >>
<1>1. Len(s) \in Nat /\ DOMAIN s = 1..Len(s) /\ s \in [1..Len(s) -> S]
    BY LenProperties
<1>2. ToSet(s) = {s[i] : i \in 1..Len(s)}
    BY <1>1 DEF ToSet
<1>3. s \in [1..Len(s) -> ToSet(s)]
    BY <1>1, <1>2
<1>4. s \in Seq(ToSet(s))
    BY <1>1, <1>3
<1>5. s # << >> => Len(s) \in Nat \ {0}
    BY EmptySeq
<1>6. s = << >> => Len(s) = 0
    OBVIOUS
<1>7. QED BY <1>1, <1>2, <1>4, <1>5, <1>6

LEMMA Empty == ToSet(<< >>) = {} /\ IsInjective(<< >>)
BY DEF ToSet, IsInjective

LEMMA ConcatFacts ==
    ASSUME NEW S, NEW s \in Seq(S), NEW t \in Seq(S)
    PROVE  /\ s \o t \in Seq(S)
           /\ ToSet(s \o t) = ToSet(s) \union ToSet(t)
           /\ IsInjective(s) /\ IsInjective(t) /\ ToSet(s) \intersect ToSet(t) = {}
                => IsInjective(s \o t)
<1> DEFINE st == s \o t
<1>1. /\ Len(s) \in Nat /\ DOMAIN s = 1..Len(s) /\ Len(t) \in Nat /\ DOMAIN t = 1..Len(t)
      /\ st \in Seq(S) /\ Len(st) = Len(s) + Len(t) /\ DOMAIN st = 1..(Len(s) + Len(t))
      /\ \A i \in 1..(Len(s) + Len(t)) : st[i] = IF i <= Len(s) THEN s[i] ELSE t[i - Len(s)]
    BY ConcatProperties, LenProperties
<1> HIDE DEF st
<1>2. \A i \in 1..Len(s) : i \in 1..(Len(s) + Len(t)) /\ st[i] = s[i]
    BY <1>1
<1>3. ASSUME NEW i \in 1..Len(t)
      PROVE  Len(s) + i \in 1..(Len(s) + Len(t)) /\ st[Len(s) + i] = t[i]
    <2>1. Len(s) + i \in 1..(Len(s) + Len(t)) /\ ~(Len(s) + i <= Len(s)) /\ (Len(s) + i) - Len(s) = i
        <3>1. Len(s) \in Nat /\ Len(t) \in Nat
            BY <1>1
        <3> HIDE <1>1
        <3>2. QED BY <3>1
    <2>2. QED BY <1>1, <2>1
<1>4. \A i \in 1..(Len(s) + Len(t)) :
         \/ i \in 1..Len(s) /\ st[i] = s[i]
         \/ i - Len(s) \in 1..Len(t) /\ st[i] = t[i - Len(s)] /\ i \notin 1..Len(s)
    BY <1>1
<1>5. /\ \A x : x \in ToSet(s) <=> \E i \in 1..Len(s) : x = s[i]
      /\ \A x : x \in ToSet(t) <=> \E i \in 1..Len(t) : x = t[i]
      /\ \A x : x \in ToSet(st) <=> \E i \in 1..(Len(s) + Len(t)) : x = st[i]
    BY <1>1, SeqFacts, ZenonT(60)
<1>6. ToSet(st) = ToSet(s) \union ToSet(t)
    <2>1. \A x : x \in ToSet(s) => x \in ToSet(st)
        BY <1>2, <1>5
    <2>2. \A x : x \in ToSet(t) => x \in ToSet(st)
        BY <1>3, <1>5
    <2>3. \A x : x \in ToSet(st) => x \in ToSet(s) \/ x \in ToSet(t)
        BY <1>4, <1>5
    <2>4. QED BY <2>1, <2>2, <2>3
<1>7. ASSUME IsInjective(s), IsInjective(t), ToSet(s) \intersect ToSet(t) = {}
      PROVE  IsInjective(st)
    <2> SUFFICES ASSUME NEW i \in 1..(Len(s) + Len(t)), NEW j \in 1..(Len(s) + Len(t)),
                        st[i] = st[j]
                 PROVE  i = j
        BY <1>1 DEF IsInjective
    <2>1. CASE i \in 1..Len(s) /\ j \in 1..Len(s)
        BY <1>1, <1>2, <1>7, <2>1 DEF IsInjective
    <2>2. CASE i \notin 1..Len(s) /\ j \notin 1..Len(s)
        <3>1. i - Len(s) \in 1..Len(t) /\ j - Len(s) \in 1..Len(t)
              /\ t[i - Len(s)] = t[j - Len(s)]
            BY <1>4, <2>2
        <3>2. i - Len(s) = j - Len(s)
            BY <1>1, <1>7, <3>1 DEF IsInjective
        <3>3. QED BY <1>1, <3>2
    <2>3. CASE i \in 1..Len(s) /\ j \notin 1..Len(s)
        BY <1>2, <1>4, <1>5, <1>7, <2>3
    <2>4. CASE i \notin 1..Len(s) /\ j \in 1..Len(s)
        BY <1>2, <1>4, <1>5, <1>7, <2>4
    <2>5. QED BY <2>1, <2>2, <2>3, <2>4
<1>8. QED BY <1>1, <1>6, <1>7 DEF st

\* What Head and Tail leave of a list without duplicates.
LEMMA HeadTailFacts ==
    ASSUME NEW S, NEW s \in Seq(S), s # << >>
    PROVE  /\ Head(s) \in S /\ Tail(s) \in Seq(S)
           /\ ToSet(s) = {Head(s)} \union ToSet(Tail(s))
           /\ IsInjective(s) => IsInjective(Tail(s)) /\ Head(s) \notin ToSet(Tail(s))
<1>1. /\ Len(s) \in Nat \ {0} /\ DOMAIN s = 1..Len(s) /\ Head(s) = s[1] /\ s[1] \in S
      /\ Tail(s) \in Seq(S) /\ Len(Tail(s)) = Len(s) - 1
      /\ \A i \in 1..Len(Tail(s)) : Tail(s)[i] = s[i + 1]
    BY EmptySeq, LenProperties, HeadTailProperties
<1> DEFINE t == Tail(s)
<1>2. DOMAIN t = 1..(Len(s) - 1)
    BY <1>1, LenProperties
<1> HIDE DEF t
<1>3. /\ \A x : x \in ToSet(s) <=> \E i \in 1..Len(s) : x = s[i]
      /\ \A x : x \in ToSet(t) <=> \E i \in 1..(Len(s) - 1) : x = s[i + 1]
    BY <1>1, <1>2 DEF t, ToSet
<1>4. \A i \in 1..Len(s) : i = 1 \/ (i - 1 \in 1..(Len(s) - 1) /\ (i - 1) + 1 = i)
    BY <1>1
<1>5. \A i \in 1..(Len(s) - 1) : i + 1 \in 1..Len(s) /\ i + 1 # 1
    BY <1>1
<1>6. 1 \in 1..Len(s)
    BY <1>1
<1>7. ToSet(s) = {Head(s)} \union ToSet(t)
    <2>1. \A x : x \in ToSet(s) => x = Head(s) \/ x \in ToSet(t)
        BY <1>1, <1>3, <1>4
    <2>2. \A x : x \in ToSet(t) => x \in ToSet(s)
        BY <1>3, <1>5
    <2>3. Head(s) \in ToSet(s)
        BY <1>1, <1>3, <1>6
    <2>4. QED BY <2>1, <2>2, <2>3
<1>8. ASSUME IsInjective(s) PROVE IsInjective(t) /\ Head(s) \notin ToSet(t)
    <2>1. \A i, j \in 1..Len(s) : s[i] = s[j] => i = j
        BY <1>1, <1>8 DEF IsInjective
    <2>2. Head(s) \notin ToSet(t)
        BY <1>1, <1>3, <1>5, <1>6, <2>1
    <2>3. \A i, j \in 1..(Len(s) - 1) : t[i] = t[j] => i = j
        <3> SUFFICES ASSUME NEW i \in 1..(Len(s) - 1), NEW j \in 1..(Len(s) - 1), t[i] = t[j]
                     PROVE  i = j
            OBVIOUS
        <3>1. s[i + 1] = s[j + 1]
            BY <1>1 DEF t
        <3>2. i + 1 = j + 1
            BY <1>5, <2>1, <3>1
        <3>3. QED BY <1>1, <3>2
    <2>4. QED BY <1>2, <2>2, <2>3 DEF IsInjective
<1>9. QED BY <1>1, <1>7, <1>8 DEF t

LEMMA AppendFacts ==
    ASSUME NEW S, NEW s \in Seq(S), NEW e \in S
    PROVE  /\ Append(s, e) \in Seq(S)
           /\ ToSet(Append(s, e)) = ToSet(s) \union {e}
           /\ IsInjective(s) /\ e \notin ToSet(s) => IsInjective(Append(s, e))
<1> DEFINE a == Append(s, e)
<1>1. /\ Len(s) \in Nat /\ DOMAIN s = 1..Len(s) /\ a \in Seq(S) /\ DOMAIN a = 1..(Len(s) + 1)
      /\ \A i \in 1..Len(s) : a[i] = s[i]
      /\ a[Len(s) + 1] = e
    BY AppendProperties, LenProperties
<1> HIDE DEF a
<1>2. /\ \A x : x \in ToSet(s) <=> \E i \in 1..Len(s) : x = s[i]
      /\ \A x : x \in ToSet(a) <=> \E i \in 1..(Len(s) + 1) : x = a[i]
    BY <1>1 DEF ToSet
<1>3. \A i : i \in 1..(Len(s) + 1) <=> i \in 1..Len(s) \/ i = Len(s) + 1
    BY <1>1
<1>4. \A x : x \in ToSet(a) <=> x \in ToSet(s) \/ x = e
    BY <1>1, <1>2, <1>3
<1>5. IsInjective(s) /\ e \notin ToSet(s) => IsInjective(a)
    BY <1>1, <1>2, <1>3 DEF IsInjective
<1>6. QED BY <1>1, <1>4, <1>5 DEF a

\* A list without duplicates is as long as it has elements.
LEMMA CountFacts ==
    ASSUME NEW S, NEW s \in Seq(S)
    PROVE  /\ IsFiniteSet(ToSet(s))
           /\ IsInjective(s) => Cardinality(ToSet(s)) = Len(s)
<1> DEFINE N == Len(s)
           T == ToSet(s)
<1>1. N \in Nat /\ DOMAIN s = 1..N /\ s \in [1..N -> S] /\ \A x : x \in T <=> \E i \in 1..N : x = s[i]
    BY LenProperties, SeqFacts
<1>2. IsFiniteSet(1..N) /\ Cardinality(1..N) = N
    BY <1>1, FS_Interval
<1> HIDE DEF N, T
<1>3. s \in Surjection(1..N, T)
    BY <1>1 DEF Surjection
<1>4. IsFiniteSet(T) /\ (Cardinality(T) = Cardinality(1..N) <=> s \in Injection(1..N, T))
    BY <1>2, <1>3, FS_Surjection
<1>5. IsInjective(s) => s \in Injection(1..N, T)
    BY <1>1, <1>3 DEF IsInjective, Injection, Surjection
<1>6. QED BY <1>2, <1>4, <1>5 DEF N, T

-----------------------------------------------------------------------------
(* Lists put together from lists.                                           *)

\* FlattenSeq chooses a function by its recursive equation; there is one.
LEMMA FlattenExists ==
    ASSUME NEW ss, NEW N \in Nat
    PROVE  \E f : f = [i \in 1..N |-> IF i = 1 THEN ss[i] ELSE f[i - 1] \o ss[i]]
<1> DEFINE Is(f, n) == f = [i \in 1..n |-> IF i = 1 THEN ss[i] ELSE f[i - 1] \o ss[i]]
           S == {n \in Nat : \E f : Is(f, n)}
<1>1. 0 \in S
    <2>1. Is([i \in 1..0 |-> 0], 0)
        OBVIOUS
    <2>2. QED BY <2>1
<1>2. \A n \in Nat : n \in S => n + 1 \in S
    <2> SUFFICES ASSUME NEW n \in Nat, NEW f, Is(f, n) PROVE \E g : Is(g, n + 1)
        <3> HIDE DEF Is
        <3>1. QED OBVIOUS
    <2> DEFINE Nx(h, i) == IF i = 1 THEN ss[i] ELSE h[i - 1] \o ss[i]
    <2>0. \A i \in 1..n : f[i] = Nx(f, i)
        <3> HIDE DEF Nx
        <3>1. f = [i \in 1..n |-> Nx(f, i)]
            BY Zenon DEF Nx
        <3>2. QED BY <3>1
    <2> DEFINE g == [i \in 1..(n + 1) |-> IF i = n + 1 THEN (IF i = 1 THEN ss[i] ELSE f[n] \o ss[i])
                                         ELSE f[i]]
    <2>1. \A i \in 1..n : g[i] = f[i] /\ f[i] = IF i = 1 THEN ss[i] ELSE f[i - 1] \o ss[i]
        <3>1. \A i \in 1..n : i \in 1..(n + 1) /\ i # n + 1
            OBVIOUS
        <3>2. \A i \in 1..n : g[i] = f[i]
            <4> HIDE <2>0
            <4>1. QED BY <3>1
        <3> HIDE DEF g
        <3>3. QED BY <2>0, <3>2
    <2>2. \A i \in 1..n : i # 1 => i - 1 \in 1..n
        OBVIOUS
    <2>3. g[n + 1] = IF n + 1 = 1 THEN ss[n + 1] ELSE f[n] \o ss[n + 1]
        OBVIOUS
    <2>4. n + 1 # 1 => n \in 1..n /\ (n + 1) - 1 = n
        OBVIOUS
    <2>5. \A i \in 1..(n + 1) : i \in 1..n \/ i = n + 1
        OBVIOUS
    <2>6. DOMAIN g = 1..(n + 1) /\ g = [i \in 1..(n + 1) |-> g[i]]
        OBVIOUS
    <2> HIDE DEF g
    <2>7. \A i \in 1..(n + 1) : g[i] = IF i = 1 THEN ss[i] ELSE g[i - 1] \o ss[i]
        BY <2>1, <2>2, <2>3, <2>4, <2>5, ZenonT(60)
    <2>8. g = [i \in 1..(n + 1) |-> Nx(g, i)]
        <3>1. \A i \in 1..(n + 1) : g[i] = Nx(g, i)
            BY <2>7
        <3> HIDE DEF Nx
        <3>2. [i \in 1..(n + 1) |-> g[i]] = [i \in 1..(n + 1) |-> Nx(g, i)]
            BY <3>1
        <3>3. QED BY <2>6, <3>2
    <2>9. QED BY <2>8
<1> HIDE DEF S
<1>3. N \in S
    BY <1>1, <1>2, NatSetInduction
<1>4. QED BY <1>3 DEF S

\* What FlattenSeq makes of a list of lists.
LEMMA FlattenFacts ==
    ASSUME NEW S, NEW ss \in Seq(Seq(S))
    PROVE  /\ FlattenSeq(ss) \in Seq(S)
           /\ \A x : x \in ToSet(FlattenSeq(ss)) <=> \E i \in 1..Len(ss) : x \in ToSet(ss[i])
           /\ /\ \A i \in 1..Len(ss) : IsInjective(ss[i])
              /\ \A i, j \in 1..Len(ss) : i # j => ToSet(ss[i]) \intersect ToSet(ss[j]) = {}
              => IsInjective(FlattenSeq(ss))
<1> DEFINE N == Len(ss)
           Is(f) == f = [i \in 1..N |-> IF i = 1 THEN ss[i] ELSE f[i - 1] \o ss[i]]
           F == CHOOSE f : Is(f)
           Apart == /\ \A i \in 1..N : IsInjective(ss[i])
                    /\ \A i, j \in 1..N : i # j => ToSet(ss[i]) \intersect ToSet(ss[j]) = {}
           Good(n) == /\ F[n] \in Seq(S)
                      /\ \A x : x \in ToSet(F[n]) <=> \E i \in 1..n : x \in ToSet(ss[i])
                      /\ Apart => IsInjective(F[n])
           P == {n \in Nat : n \in 1..N => Good(n)}
<1>1. N \in Nat /\ \A i \in 1..N : ss[i] \in Seq(S)
    BY LenProperties
<1>2. FlattenSeq(ss) = IF N = 0 THEN ss ELSE F[N]
    BY DEF FlattenSeq
<1>3. \E f : Is(f)
    BY <1>1, FlattenExists
<1>4. Is(F)
    BY <1>3
<1> HIDE DEF F
<1>5. \A i \in 1..N : F[i] = IF i = 1 THEN ss[i] ELSE F[i - 1] \o ss[i]
    BY <1>4
<1> HIDE DEF N
<1>6. 0 \in P
    OBVIOUS
<1>7. \A n \in Nat : n \in P => n + 1 \in P
    <2> SUFFICES ASSUME NEW n \in Nat, n \in P, n + 1 \in 1..N PROVE Good(n + 1)
        <3> HIDE DEF Good
        <3>1. QED OBVIOUS
    <2>1. CASE n = 0
        <3>1. F[n + 1] = ss[1] /\ ss[1] \in Seq(S) /\ 1 \in 1..N
            BY <1>1, <1>5, <2>1
        <3>2. \A i : i \in 1..(n + 1) <=> i = 1
            BY <2>1
        <3>3. QED BY <3>1, <3>2
    <2>2. CASE n # 0
        <3>1. n \in 1..N /\ n + 1 # 1 /\ (n + 1) - 1 = n
            BY <1>1, <2>2
        <3>2. Good(n)
            BY <3>1
        <3>3. F[n + 1] = F[n] \o ss[n + 1] /\ ss[n + 1] \in Seq(S)
            BY <1>1, <1>5, <3>1
        <3> DEFINE a == F[n]  b == ss[n + 1]
        <3>4. /\ a \o b \in Seq(S) /\ ToSet(a \o b) = ToSet(a) \union ToSet(b)
              /\ IsInjective(a) /\ IsInjective(b) /\ ToSet(a) \intersect ToSet(b) = {}
                   => IsInjective(a \o b)
            <4>1. a \in Seq(S) /\ b \in Seq(S)
                BY <3>2, <3>3
            <4> HIDE DEF a, b
            <4>2. QED BY <4>1, ConcatFacts, SMTT(60)
        <3>5. \A i : i \in 1..(n + 1) <=> i \in 1..n \/ i = n + 1
            OBVIOUS
        <3>6. \A i \in 1..n : i \in 1..N /\ i # n + 1
            BY <1>1, <3>1
        <3>7. ASSUME Apart PROVE IsInjective(a) /\ IsInjective(b) /\ ToSet(a) \intersect ToSet(b) = {}
            BY <3>2, <3>6, <3>7
        <3>8. \A x : x \in ToSet(a \o b) <=> \E i \in 1..(n + 1) : x \in ToSet(ss[i])
            BY <3>2, <3>4, <3>5
        <3>9. QED BY <3>3, <3>4, <3>7, <3>8
    <2>3. QED BY <2>1, <2>2
<1> HIDE DEF P
<1>8. Nat \subseteq P
    BY <1>6, <1>7, NatSetInduction
<1>9. CASE N = 0
    <2>1. ss = << >> /\ 1..N = {}
        BY <1>9, EmptySeq DEF N
    <2>2. << >> \in Seq(S) /\ ToSet(<< >>) = {} /\ IsInjective(<< >>)
        BY DEF ToSet, IsInjective
    <2>3. QED BY <1>2, <1>9, <2>1, <2>2 DEF N
<1>10. CASE N # 0
    <2>1. N \in 1..N /\ FlattenSeq(ss) = F[N]
        BY <1>1, <1>2, <1>10
    <2>2. Good(N)
        BY <1>1, <1>8, <2>1 DEF P
    <2>3. QED BY <2>1, <2>2 DEF N
<1>11. QED BY <1>9, <1>10

\* The list of the elements at the places D.
Picks(s, D) == FlattenSeq([i \in DOMAIN s |-> IF i \in D THEN << s[i] >> ELSE << >>])

LEMMA PickFacts ==
    ASSUME NEW S, NEW s \in Seq(S), NEW D, NEW p, p = Picks(s, D)
    PROVE  /\ p \in Seq(S)
           /\ \A x : x \in ToSet(p) <=> \E i \in 1..Len(s) : i \in D /\ x = s[i]
           /\ (\A i, j \in 1..Len(s) : i \in D /\ j \in D /\ s[i] = s[j] => i = j)
                => IsInjective(p)
<1> DEFINE Piece(i) == IF i \in D THEN << s[i] >> ELSE << >>
           ss == [i \in DOMAIN s |-> Piece(i)]
<1> SUFFICES /\ FlattenSeq(ss) \in Seq(S)
             /\ \A x : x \in ToSet(FlattenSeq(ss)) <=> \E i \in 1..Len(s) : i \in D /\ x = s[i]
             /\ (\A i, j \in 1..Len(s) : i \in D /\ j \in D /\ s[i] = s[j] => i = j)
                  => IsInjective(FlattenSeq(ss))
    BY Zenon DEF Picks
<1>1. Len(s) \in Nat /\ DOMAIN s = 1..Len(s) /\ \A i \in 1..Len(s) : s[i] \in S
    BY LenProperties
<1>2. \A i \in 1..Len(s) : Piece(i) \in Seq(S)
    BY <1>1
<1>3. ss \in Seq(Seq(S)) /\ Len(ss) = Len(s) /\ \A i \in 1..Len(s) : ss[i] = Piece(i)
    <2> HIDE DEF Piece
    <2>1. ss \in [1..Len(s) -> Seq(S)] /\ \A i \in 1..Len(s) : ss[i] = Piece(i)
        BY <1>1, <1>2
    <2>2. ss \in Seq(Seq(S))
        BY <1>1, <2>1, SeqDef
    <2>3. DOMAIN ss = 1..Len(s) /\ DOMAIN ss = 1..Len(ss) /\ Len(ss) \in Nat
        BY <1>1, <2>2, LenProperties
    <2>4. Len(ss) = Len(s)
        <3> HIDE DEF ss
        <3>1. QED BY <1>1, <2>3
    <2>5. QED BY <2>1, <2>2, <2>4
<1>4. \A x : ToSet(<< x >>) = {x} /\ IsInjective(<< x >>)
    BY DEF ToSet, IsInjective
<1>5. ToSet(<< >>) = {} /\ IsInjective(<< >>)
    BY DEF ToSet, IsInjective
<1>6. \A i \in 1..Len(s) : /\ ToSet(Piece(i)) = IF i \in D THEN {s[i]} ELSE {}
                           /\ IsInjective(Piece(i))
    BY <1>4, <1>5
<1> HIDE DEF ss, Piece
<1>7. /\ FlattenSeq(ss) \in Seq(S)
      /\ \A x : x \in ToSet(FlattenSeq(ss)) <=> \E i \in 1..Len(s) : x \in ToSet(ss[i])
      /\ /\ \A i \in 1..Len(s) : IsInjective(ss[i])
         /\ \A i, j \in 1..Len(s) : i # j => ToSet(ss[i]) \intersect ToSet(ss[j]) = {}
         => IsInjective(FlattenSeq(ss))
    BY <1>3, FlattenFacts
<1>8. \A x : x \in ToSet(FlattenSeq(ss)) <=> \E i \in 1..Len(s) : i \in D /\ x = s[i]
    BY <1>3, <1>6, <1>7, ZenonT(60)
<1>9. ASSUME \A i, j \in 1..Len(s) : i \in D /\ j \in D /\ s[i] = s[j] => i = j
      PROVE  IsInjective(FlattenSeq(ss))
    <2>0. \A i \in 1..Len(s) : ToSet(ss[i]) = IF i \in D THEN {s[i]} ELSE {}
        BY <1>3, <1>6
    <2>1. \A i, j \in 1..Len(s) : i # j => ToSet(ss[i]) \intersect ToSet(ss[j]) = {}
        <3> SUFFICES ASSUME NEW i \in 1..Len(s), NEW j \in 1..Len(s), i # j,
                            NEW x, x \in ToSet(ss[i]), x \in ToSet(ss[j])
                     PROVE  FALSE
            OBVIOUS
        <3>1. i \in D /\ j \in D /\ x = s[i] /\ x = s[j]
            BY <2>0
        <3>2. QED BY <1>9, <3>1
    <2>2. \A i \in 1..Len(s) : IsInjective(ss[i])
        BY <1>3, <1>6
    <2>3. QED BY <1>7, <2>1, <2>2
<1>10. QED BY <1>7, <1>8, <1>9 DEF ss, Piece
=============================================================================
