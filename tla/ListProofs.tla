----------------------------- MODULE ListProofs -----------------------------
(***************************************************************************)
(* Induction over numbers and sequences, and what Kept returns.  The       *)
(* induction theorems of the library take an operator, which the provers   *)
(* cannot instantiate; WFMin takes a set, and from it follows induction    *)
(* stated with sets.                                                       *)
(***************************************************************************)
EXTENDS Lists, Functions, SequenceTheorems, WellFoundedInduction, TLAPS

-----------------------------------------------------------------------------
(* Induction.                                                              *)

NatLess == {ss \in Nat \X Nat : ss[1] < ss[2]}

LEMMA NatLessWellFounded == IsWellFoundedOn(NatLess, Nat)
  BY NatLessThanWellFounded DEF NatLess, OpToRel

(* A set that has 0, and with a number the next one, has all.              *)
LEMMA SetInduction ==
  ASSUME NEW S, 0 \in S, \A n \in Nat : n \in S => n + 1 \in S
  PROVE  \A n \in Nat : n \in S
<1> DEFINE T == {n \in Nat : n \notin S}
<1> SUFFICES ASSUME T # {} PROVE FALSE
  OBVIOUS
<1>1. T \subseteq Nat
  OBVIOUS
<1>2. PICK x \in T : \A y \in T : ~(<<y, x>> \in NatLess)
  BY <1>1, NatLessWellFounded, WFMin
<1>3. x \in Nat /\ x \notin S /\ x # 0
  OBVIOUS
<1>4. x - 1 \in Nat /\ x - 1 + 1 = x
  BY <1>3
<1>5. x - 1 \in T
  BY <1>3, <1>4
<1>6. <<x - 1, x>> \in NatLess
  BY <1>3, <1>4 DEF NatLess
<1> QED
  BY <1>2, <1>5, <1>6

LEMMA AppendOfConcat ==
  ASSUME NEW A, NEW s \in Seq(A), NEW t \in Seq(A), NEW e \in A
  PROVE  s \o Append(t, e) = Append(s \o t, e)
<1>1. <<e>> \in Seq(A)
  OBVIOUS
<1>2. s \o (t \o <<e>>) = (s \o t) \o <<e>> /\ s \o t \in Seq(A)
  BY <1>1, ConcatAssociative, ConcatProperties
<1> QED
  BY <1>2, AppendIsConcat

(* A set that has the empty sequence, and with a sequence the longer ones, *)
(* has all.                                                                *)
LEMMA SequenceInduction ==
  ASSUME NEW A, NEW T, << >> \in T,
         \A s \in Seq(A), e \in A : s \in T => Append(s, e) \in T
  PROVE  Seq(A) \subseteq T
<1> DEFINE N == {n \in Nat : \A s \in Seq(A) : Len(s) = n => s \in T}
<1>1. 0 \in N
  <2>1. ASSUME NEW s \in Seq(A), Len(s) = 0 PROVE s = << >>
    BY <2>1, EmptySeq
  <2> QED
    BY <2>1
<1>2. ASSUME NEW n \in Nat, n \in N PROVE n + 1 \in N
  <2>1. ASSUME NEW s \in Seq(A), Len(s) = n + 1 PROVE s \in T
    <3>1. s # << >>
      BY <2>1, EmptySeq
    <3>2. PICK u \in Seq(A), e \in A : s = Append(u, e)
      BY <3>1, SequenceEmptyOrAppend
    <3>3. Len(s) = Len(u) + 1 /\ Len(u) \in Nat
      BY <3>2, AppendProperties, LenProperties
    <3>4. u \in T
      BY <3>3, <2>1, <1>2
    <3> QED
      BY <3>2, <3>4
  <2> QED
    BY <2>1
<1>3. \A n \in Nat : n \in N
  <2> HIDE DEF N
  <2> QED BY <1>1, <1>2, SetInduction
<1> QED
  BY <1>3, LenProperties

-----------------------------------------------------------------------------
(* Sequences.                                                              *)

LEMMA RangeOfAppend ==
  ASSUME NEW A, NEW s \in Seq(A), NEW e \in A
  PROVE  Range(Append(s, e)) = Range(s) \cup {e}
<1>1. <<e>> \in Seq(A) /\ Append(s, e) = s \o <<e>>
  BY AppendIsConcat
<1>2. Range(<<e>>) = {e}
  BY DEF Range
<1>3. Range(s \o <<e>>) = Range(s) \cup Range(<<e>>)
  <2> DEFINE f == <<e>>
  <2>1. f \in Seq(A)
    BY <1>1
  <2> HIDE DEF f
  <2>2. Range(s \o f) = Range(s) \cup Range(f)
    BY <2>1, RangeConcatenation
  <2> QED
    BY <2>2 DEF f
<1> QED
  BY <1>1, <1>2, <1>3, Zenon

LEMMA InjectiveAppend ==
  ASSUME NEW A, NEW s \in Seq(A), NEW e \in A
  PROVE  IsInjective(Append(s, e)) <=> IsInjective(s) /\ e \notin Range(s)
<1> DEFINE t == Append(s, e)  n == Len(s)
<1>1. /\ t \in Seq(A) /\ n \in Nat /\ Len(t) = n + 1 /\ DOMAIN s = 1 .. n /\ DOMAIN t = 1 .. n + 1
      /\ \A i \in 1 .. n : t[i] = s[i]
      /\ t[n + 1] = e
  BY AppendProperties, LenProperties
<1> HIDE DEF t, n
<1>2. IsInjective(t) => IsInjective(s) /\ e \notin Range(s)
  BY <1>1 DEF IsInjective, Range
<1>3. IsInjective(s) /\ e \notin Range(s) => IsInjective(t)
  BY <1>1 DEF IsInjective, Range
<1> QED
  BY <1>2, <1>3 DEF t

LEMMA HeadAndTail ==
  ASSUME NEW A, NEW s \in Seq(A), s # << >>
  PROVE  /\ Head(s) \in A /\ Tail(s) \in Seq(A) /\ <<Head(s)>> \in Seq(A)
         /\ s = <<Head(s)>> \o Tail(s)
<1> DEFINE e == Head(s)  r == Tail(s)  t == <<e>> \o r
<1>1. e \in A /\ r \in Seq(A) /\ Len(r) = Len(s) - 1 /\ Len(s) \in Nat \ {0} /\ s[1] = e
      /\ \A i \in 1 .. Len(r) : r[i] = s[i + 1]
  BY HeadTailProperties, EmptySeq
<1>2. <<e>> \in Seq(A) /\ Len(<<e>>) = 1 /\ <<e>>[1] = e
  BY <1>1
<1> HIDE DEF e, r
<1>3. /\ t \in Seq(A) /\ Len(t) = 1 + Len(r)
      /\ \A i \in 1 .. 1 + Len(r) : t[i] = IF i <= 1 THEN <<e>>[i] ELSE r[i - 1]
  BY <1>1, <1>2, ConcatProperties
<1> HIDE DEF t
<1>4. ASSUME NEW i \in 1 .. Len(s) PROVE s[i] = t[i]
  BY <1>1, <1>2, <1>3
<1>5. s = t
  BY <1>1, <1>3, <1>4, SeqEqual
<1> QED
  BY <1>1, <1>2, <1>5 DEF t, e, r

LEMMA HeadOfConcat ==
  ASSUME NEW A, NEW e \in A, NEW r \in Seq(A)
  PROVE  <<e>> \o r # << >> /\ Head(<<e>> \o r) = e /\ Tail(<<e>> \o r) = r
<1> DEFINE t == <<e>> \o r
<1>1. <<e>> \in Seq(A) /\ Len(<<e>>) = 1 /\ <<e>>[1] = e /\ Len(r) \in Nat
  BY LenProperties
<1>2. /\ t \in Seq(A) /\ Len(t) = 1 + Len(r)
      /\ \A i \in 1 .. 1 + Len(r) : t[i] = IF i <= 1 THEN <<e>>[i] ELSE r[i - 1]
  BY <1>1, ConcatProperties
<1> HIDE DEF t
<1>3. t # << >> /\ t[1] = e
  BY <1>1, <1>2
<1>4. Tail(t) \in Seq(A) /\ Len(Tail(t)) = Len(r) /\ \A i \in 1 .. Len(r) : Tail(t)[i] = t[i + 1]
  BY <1>1, <1>2, <1>3, HeadTailProperties
<1>5. \A i \in 1 .. Len(r) : Tail(t)[i] = r[i]
  BY <1>1, <1>2, <1>4
<1>6. Tail(t) = r
  BY <1>4, <1>5, SeqEqual
<1>7. Head(t) = e
  BY <1>2, <1>3
<1> QED
  BY <1>3, <1>6, <1>7 DEF t

-----------------------------------------------------------------------------
(* Kept.                                                                   *)

(* The recursion is well defined.                                          *)
Unfolds(f, s, S, n) ==
  f = [i \in 0 .. n |->
         IF i = 0 THEN << >>
         ELSE IF s[i] \in S THEN Append(f[i - 1], s[i]) ELSE f[i - 1]]

LEMMA UnfoldsStep ==
  ASSUME NEW f, NEW s, NEW S, NEW n, Unfolds(f, s, S, n), NEW i \in 0 .. n
  PROVE  f[i] = IF i = 0 THEN << >>
                ELSE IF s[i] \in S THEN Append(f[i - 1], s[i]) ELSE f[i - 1]
  BY Zenon DEF Unfolds

LEMMA UnfoldsExists ==
  ASSUME NEW s, NEW S, NEW n \in Nat
  PROVE  \E f : Unfolds(f, s, S, n)
<1> DEFINE N == {k \in Nat : \E f : Unfolds(f, s, S, k)}
<1>1. 0 \in N
  <2>1. Unfolds([i \in 0 .. 0 |-> << >>], s, S, 0)
    BY DEF Unfolds
  <2> QED
    BY <2>1
<1>2. ASSUME NEW k \in Nat, k \in N PROVE k + 1 \in N
  <2>1. PICK f : Unfolds(f, s, S, k)
    BY <1>2
  <2> DEFINE g == [i \in 0 .. k + 1 |->
                     IF i = k + 1
                     THEN IF s[i] \in S THEN Append(f[k], s[i]) ELSE f[k]
                     ELSE f[i]]
  <2>2. ASSUME NEW i \in 0 .. k + 1
        PROVE  g[i] = IF i = 0 THEN << >>
                      ELSE IF s[i] \in S THEN Append(g[i - 1], s[i]) ELSE g[i - 1]
    <3>1. CASE i = 0
      <4>1. i \in 0 .. k /\ i # k + 1
        BY <3>1
      <4> QED
        BY <3>1, <4>1, <2>1, UnfoldsStep
    <3>2. CASE i = k + 1
      <4>1. i - 1 = k /\ k \in 0 .. k + 1 /\ k # k + 1
        BY <3>2
      <4>2. g[i - 1] = f[k]
        BY <4>1
      <4> QED
        BY <3>2, <4>1, <4>2
    <3>3. CASE i # 0 /\ i # k + 1
      <4>1. i \in 0 .. k /\ i - 1 \in 0 .. k /\ i - 1 # k + 1 /\ i - 1 \in 0 .. k + 1
        BY <3>3
      <4>2. g[i] = f[i] /\ g[i - 1] = f[i - 1]
        BY <4>1, <3>3
      <4>3. f[i] = IF s[i] \in S THEN Append(f[i - 1], s[i]) ELSE f[i - 1]
        BY <2>1, <4>1, <3>3, UnfoldsStep
      <4> QED
        BY <4>2, <4>3, <3>3
    <3> QED
      BY <3>1, <3>2, <3>3
  <2>3. Unfolds(g, s, S, k + 1)
    <3> HIDE DEF g
    <3>1. g = [i \in 0 .. k + 1 |-> g[i]]
      BY DEF g
    <3> QED
      BY <2>2, <3>1, Zenon DEF Unfolds
  <2> QED
    BY <2>3
<1>3. \A k \in Nat : k \in N
  <2> HIDE DEF N
  <2> QED BY <1>1, <1>2, SetInduction
<1> QED
  BY <1>3

LEMMA KeptUnfolds ==
  ASSUME NEW A, NEW s \in Seq(A), NEW S
  PROVE  Unfolds(KeptUpTo(s, S), s, S, Len(s))
<1>1. Len(s) \in Nat
  BY LenProperties
<1>2. \E f : Unfolds(f, s, S, Len(s))
  BY <1>1, UnfoldsExists
<1> QED
  BY <1>2, Zenon DEF KeptUpTo, Unfolds

(* Sequences that begin alike keep the same of the common part.            *)
LEMMA UnfoldsAlike ==
  ASSUME NEW f, NEW g, NEW s, NEW t, NEW S, NEW m \in Nat, NEW n \in Nat, NEW k \in Nat,
         Unfolds(f, s, S, m), Unfolds(g, t, S, n), k <= m, k <= n,
         \A i \in 1 .. k : s[i] = t[i]
  PROVE  f[k] = g[k]
<1> DEFINE N == {i \in Nat : i <= k => f[i] = g[i]}
<1>1. 0 \in N
  <2>1. 0 \in 0 .. m /\ 0 \in 0 .. n
    OBVIOUS
  <2>2. f[0] = << >> /\ g[0] = << >>
    BY <2>1, UnfoldsStep
  <2> QED
    BY <2>2
<1>2. ASSUME NEW i \in Nat, i \in N PROVE i + 1 \in N
  <2> SUFFICES ASSUME i + 1 <= k PROVE f[i + 1] = g[i + 1]
    OBVIOUS
  <2>1. f[i] = g[i]
    BY <1>2
  <2>2. i + 1 \in 0 .. m /\ i + 1 \in 0 .. n /\ i + 1 # 0 /\ i + 1 - 1 = i /\ i + 1 \in 1 .. k
    OBVIOUS
  <2>3. f[i + 1] = IF s[i + 1] \in S THEN Append(f[i], s[i + 1]) ELSE f[i]
    BY <2>2, UnfoldsStep
  <2>4. g[i + 1] = IF t[i + 1] \in S THEN Append(g[i], t[i + 1]) ELSE g[i]
    BY <2>2, UnfoldsStep
  <2>5. s[i + 1] = t[i + 1]
    BY <2>2
  <2> QED
    BY <2>1, <2>3, <2>4, <2>5
<1>3. \A i \in Nat : i \in N
  <2> HIDE DEF N
  <2> QED BY <1>1, <1>2, SetInduction
<1> QED
  BY <1>3

LEMMA KeptEmpty ==
  ASSUME NEW S
  PROVE  Kept(<< >>, S) = << >>
<1>1. << >> \in Seq({}) /\ Len(<< >>) = 0
  BY EmptySeq
<1> QED
  <2>1. Unfolds(KeptUpTo(<< >>, S), << >>, S, 0)
    <3>1. Unfolds(KeptUpTo(<< >>, S), << >>, S, Len(<< >>))
      BY <1>1, KeptUnfolds, Zenon
    <3> QED
      BY <3>1, <1>1, Zenon
  <2>2. KeptUpTo(<< >>, S)[0] = << >>
    <3>1. 0 \in 0 .. 0
      OBVIOUS
    <3> QED
      BY <2>1, <3>1, UnfoldsStep, Zenon
  <2> QED
    BY <2>2, <1>1 DEF Kept

LEMMA KeptAppend ==
  ASSUME NEW A, NEW s \in Seq(A), NEW e \in A, NEW S
  PROVE  Kept(Append(s, e), S) = IF e \in S THEN Append(Kept(s, S), e) ELSE Kept(s, S)
<1> DEFINE t == Append(s, e)  n == Len(s)  f == KeptUpTo(t, S)
<1>1. /\ t \in Seq(A) /\ n \in Nat /\ Len(t) = n + 1
      /\ \A i \in 1 .. n : t[i] = s[i]
      /\ t[n + 1] = e
  BY AppendProperties, LenProperties
<1>2. Unfolds(f, t, S, n + 1)
  BY <1>1, KeptUnfolds
<1>3. Unfolds(KeptUpTo(s, S), s, S, n)
  BY KeptUnfolds
<1>4. f[n] = Kept(s, S)
  <2> HIDE DEF f, t, n
  <2>1. n <= n + 1 /\ n <= n
    BY <1>1
  <2>2. f[n] = KeptUpTo(s, S)[n]
    BY <1>1, <1>2, <1>3, <2>1, UnfoldsAlike
  <2> QED
    BY <2>2 DEF Kept, n
<1>5. Kept(t, S) = f[n + 1]
  BY <1>1 DEF Kept
<1>6. f[n + 1] = IF e \in S THEN Append(f[n], e) ELSE f[n]
  <2> HIDE DEF f, t, n
  <2>1. n + 1 \in 0 .. n + 1 /\ n + 1 # 0 /\ n + 1 - 1 = n
    BY <1>1
  <2>2. ASSUME NEW i, i = n + 1
        PROVE  f[i] = IF t[i] \in S THEN Append(f[i - 1], t[i]) ELSE f[i - 1]
    <3>1. i \in 0 .. i /\ i # 0
      BY <2>1, <2>2
    <3>2. Unfolds(f, t, S, i)
      BY <1>2, <2>2
    <3> QED
      BY <3>1, <3>2, UnfoldsStep
  <2> QED
    BY <2>1, <2>2, <1>1
<1> QED
  BY <1>4, <1>5, <1>6

LEMMA KeptType ==
  ASSUME NEW A, NEW s \in Seq(A), NEW S
  PROVE  Kept(s, S) \in Seq(A)
<1> DEFINE T == {u \in Seq(A) : Kept(u, S) \in Seq(A)}
<1>1. << >> \in T
  BY KeptEmpty, EmptySeq
<1>2. ASSUME NEW u \in Seq(A), NEW e \in A, u \in T PROVE Append(u, e) \in T
  <2>1. Append(u, e) \in Seq(A)
    BY AppendProperties
  <2>2. Kept(u, S) \in Seq(A) /\ Append(Kept(u, S), e) \in Seq(A)
    BY <1>2, AppendProperties
  <2> QED
    BY <2>1, <2>2, KeptAppend
<1>3. Seq(A) \subseteq T
  <2> HIDE DEF T
  <2> QED BY <1>1, <1>2, SequenceInduction
<1> QED
  BY <1>3

LEMMA KeptConcat ==
  ASSUME NEW A, NEW s \in Seq(A), NEW t \in Seq(A), NEW S
  PROVE  Kept(s \o t, S) = Kept(s, S) \o Kept(t, S)
<1> DEFINE T == {u \in Seq(A) : Kept(s \o u, S) = Kept(s, S) \o Kept(u, S)}
<1>0. Kept(s, S) \in Seq(A)
  BY KeptType
<1>1. << >> \in T
  <2>1. s \o << >> = s /\ Kept(s, S) \o << >> = Kept(s, S)
    BY <1>0, ConcatEmptySeq
  <2> QED
    BY <2>1, KeptEmpty, EmptySeq
<1>2. ASSUME NEW u \in Seq(A), NEW e \in A, u \in T PROVE Append(u, e) \in T
  <2>1. Append(u, e) \in Seq(A) /\ Kept(u, S) \in Seq(A) /\ s \o u \in Seq(A)
    BY AppendProperties, KeptType, ConcatProperties
  <2>2. s \o Append(u, e) = Append(s \o u, e)
    BY AppendOfConcat
  <2>3. Kept(s, S) \o Append(Kept(u, S), e) = Append(Kept(s, S) \o Kept(u, S), e)
    BY <1>0, <2>1, AppendOfConcat
  <2>4. Kept(Append(s \o u, e), S) =
          IF e \in S THEN Append(Kept(s \o u, S), e) ELSE Kept(s \o u, S)
    BY <2>1, KeptAppend
  <2>5. Kept(Append(u, e), S) = IF e \in S THEN Append(Kept(u, S), e) ELSE Kept(u, S)
    BY KeptAppend
  <2> QED
    BY <1>2, <2>1, <2>2, <2>3, <2>4, <2>5
<1>3. Seq(A) \subseteq T
  <2> HIDE DEF T
  <2> QED BY <1>1, <1>2, SequenceInduction
<1> QED
  BY <1>3

(* Only the tests on the elements of s count.                              *)
LEMMA KeptAlike ==
  ASSUME NEW A, NEW s \in Seq(A), NEW S, NEW R,
         \A x \in Range(s) : x \in S <=> x \in R
  PROVE  Kept(s, S) = Kept(s, R)
<1> DEFINE T == {u \in Seq(A) : (\A x \in Range(u) : x \in S <=> x \in R)
                                 => Kept(u, S) = Kept(u, R)}
<1>1. << >> \in T
  BY KeptEmpty, EmptySeq
<1>2. ASSUME NEW u \in Seq(A), NEW e \in A, u \in T PROVE Append(u, e) \in T
  <2>1. Append(u, e) \in Seq(A)
    BY AppendProperties
  <2> SUFFICES ASSUME \A x \in Range(Append(u, e)) : x \in S <=> x \in R
               PROVE  Kept(Append(u, e), S) = Kept(Append(u, e), R)
    BY <2>1
  <2>2. e \in S <=> e \in R
    BY RangeOfAppend
  <2>3. Kept(u, S) = Kept(u, R)
    BY <1>2, RangeOfAppend
  <2>4. Kept(Append(u, e), S) = IF e \in S THEN Append(Kept(u, S), e) ELSE Kept(u, S)
    BY KeptAppend
  <2>5. Kept(Append(u, e), R) = IF e \in R THEN Append(Kept(u, R), e) ELSE Kept(u, R)
    BY KeptAppend
  <2> QED
    BY <2>2, <2>3, <2>4, <2>5
<1>3. Seq(A) \subseteq T
  <2> HIDE DEF T
  <2> QED BY <1>1, <1>2, SequenceInduction
<1> QED
  BY <1>3

LEMMA KeptAll ==
  ASSUME NEW A, NEW s \in Seq(A), NEW S, Range(s) \subseteq S
  PROVE  Kept(s, S) = s
<1> DEFINE T == {u \in Seq(A) : Range(u) \subseteq S => Kept(u, S) = u}
<1>1. << >> \in T
  BY KeptEmpty, EmptySeq
<1>2. ASSUME NEW u \in Seq(A), NEW e \in A, u \in T PROVE Append(u, e) \in T
  <2>1. Append(u, e) \in Seq(A)
    BY AppendProperties
  <2>2. Range(Append(u, e)) = Range(u) \cup {e}
    BY RangeOfAppend
  <2>3. Kept(Append(u, e), S) = IF e \in S THEN Append(Kept(u, S), e) ELSE Kept(u, S)
    BY KeptAppend
  <2> QED
    BY <1>2, <2>1, <2>2, <2>3
<1>3. Seq(A) \subseteq T
  <2> HIDE DEF T
  <2> QED BY <1>1, <1>2, SequenceInduction
<1> QED
  BY <1>3

LEMMA KeptNone ==
  ASSUME NEW A, NEW s \in Seq(A), NEW S, Range(s) \cap S = {}
  PROVE  Kept(s, S) = << >>
<1> DEFINE T == {u \in Seq(A) : Range(u) \cap S = {} => Kept(u, S) = << >>}
<1>1. << >> \in T
  BY KeptEmpty, EmptySeq
<1>2. ASSUME NEW u \in Seq(A), NEW e \in A, u \in T PROVE Append(u, e) \in T
  <2>1. Append(u, e) \in Seq(A)
    BY AppendProperties
  <2>2. Range(Append(u, e)) = Range(u) \cup {e}
    BY RangeOfAppend
  <2>3. Kept(Append(u, e), S) = IF e \in S THEN Append(Kept(u, S), e) ELSE Kept(u, S)
    BY KeptAppend
  <2> QED
    BY <1>2, <2>1, <2>2, <2>3
<1>3. Seq(A) \subseteq T
  <2> HIDE DEF T
  <2> QED BY <1>1, <1>2, SequenceInduction
<1> QED
  BY <1>3

LEMMA KeptRange ==
  ASSUME NEW A, NEW s \in Seq(A), NEW S
  PROVE  Range(Kept(s, S)) = Range(s) \cap S
<1> DEFINE T == {u \in Seq(A) : Range(Kept(u, S)) = Range(u) \cap S}
<1>1. << >> \in T
  <2>1. Range(<< >>) = {}
    BY EmptySeq DEF Range
  <2> QED
    BY <2>1, KeptEmpty, EmptySeq
<1>2. ASSUME NEW u \in Seq(A), NEW e \in A, u \in T PROVE Append(u, e) \in T
  <2>1. Append(u, e) \in Seq(A) /\ Kept(u, S) \in Seq(A)
    BY AppendProperties, KeptType
  <2>2. Range(Append(u, e)) = Range(u) \cup {e}
    BY RangeOfAppend
  <2>3. Range(Append(Kept(u, S), e)) = Range(Kept(u, S)) \cup {e}
    BY <2>1, RangeOfAppend
  <2>4. Kept(Append(u, e), S) = IF e \in S THEN Append(Kept(u, S), e) ELSE Kept(u, S)
    BY KeptAppend
  <2>5. Range(Kept(u, S)) = Range(u) \cap S
    BY <1>2
  <2>6. CASE e \in S
    BY <2>1, <2>2, <2>3, <2>4, <2>5, <2>6
  <2>7. CASE e \notin S
    BY <2>1, <2>2, <2>4, <2>5, <2>7
  <2> QED
    BY <2>6, <2>7
<1>3. Seq(A) \subseteq T
  <2> HIDE DEF T
  <2> QED BY <1>1, <1>2, SequenceInduction
<1> QED
  BY <1>3

LEMMA KeptInjective ==
  ASSUME NEW A, NEW s \in Seq(A), NEW S, IsInjective(s)
  PROVE  IsInjective(Kept(s, S))
<1> DEFINE T == {u \in Seq(A) : IsInjective(u) => IsInjective(Kept(u, S))}
<1>1. << >> \in T
  BY KeptEmpty, EmptySeq
<1>2. ASSUME NEW u \in Seq(A), NEW e \in A, u \in T PROVE Append(u, e) \in T
  <2>1. Append(u, e) \in Seq(A) /\ Kept(u, S) \in Seq(A)
    BY AppendProperties, KeptType
  <2>2. IsInjective(Append(u, e)) => IsInjective(u) /\ e \notin Range(u)
    BY InjectiveAppend
  <2>3. IsInjective(Append(Kept(u, S), e)) <=> IsInjective(Kept(u, S)) /\ e \notin Range(Kept(u, S))
    BY <2>1, InjectiveAppend
  <2>4. Kept(Append(u, e), S) = IF e \in S THEN Append(Kept(u, S), e) ELSE Kept(u, S)
    BY KeptAppend
  <2>5. Range(Kept(u, S)) = Range(u) \cap S
    BY KeptRange
  <2> QED
    BY <1>2, <2>1, <2>2, <2>3, <2>4, <2>5
<1>3. Seq(A) \subseteq T
  <2> HIDE DEF T
  <2> QED BY <1>1, <1>2, SequenceInduction
<1> QED
  BY <1>3

LEMMA KeptKept ==
  ASSUME NEW A, NEW s \in Seq(A), NEW S, NEW R
  PROVE  Kept(Kept(s, S), R) = Kept(s, S \cap R)
<1> DEFINE T == {u \in Seq(A) : Kept(Kept(u, S), R) = Kept(u, S \cap R)}
<1>1. << >> \in T
  BY KeptEmpty, EmptySeq
<1>2. ASSUME NEW u \in Seq(A), NEW e \in A, u \in T PROVE Append(u, e) \in T
  <2>1. Append(u, e) \in Seq(A) /\ Kept(u, S) \in Seq(A)
    BY AppendProperties, KeptType
  <2>2. Kept(Append(u, e), S) = IF e \in S THEN Append(Kept(u, S), e) ELSE Kept(u, S)
    BY KeptAppend
  <2>3. Kept(Append(Kept(u, S), e), R) =
          IF e \in R THEN Append(Kept(Kept(u, S), R), e) ELSE Kept(Kept(u, S), R)
    BY <2>1, KeptAppend
  <2>4. Kept(Append(u, e), S \cap R) =
          IF e \in S \cap R THEN Append(Kept(u, S \cap R), e) ELSE Kept(u, S \cap R)
    BY KeptAppend
  <2>5. CASE e \in S
    <3>1. Kept(Kept(Append(u, e), S), R) = Kept(Append(Kept(u, S), e), R)
      BY <2>2, <2>5
    <3>2. e \in S \cap R <=> e \in R
      BY <2>5
    <3>3. Kept(Kept(u, S), R) = Kept(u, S \cap R)
      BY <1>2
    <3> QED
      BY <2>1, <2>3, <2>4, <3>1, <3>2, <3>3
  <2>6. CASE e \notin S
    BY <1>2, <2>1, <2>2, <2>4, <2>6
  <2> QED
    BY <2>5, <2>6
<1>3. Seq(A) \subseteq T
  <2> HIDE DEF T
  <2> QED BY <1>1, <1>2, SequenceInduction
<1> QED
  BY <1>3

(* From the front.                                                         *)
LEMMA KeptHead ==
  ASSUME NEW A, NEW s \in Seq(A), s # << >>, NEW S
  PROVE  /\ Head(s) \in S => Kept(s, S) # << >> /\ Head(Kept(s, S)) = Head(s)
                             /\ Tail(Kept(s, S)) = Kept(Tail(s), S)
         /\ Head(s) \notin S => Kept(s, S) = Kept(Tail(s), S)
<1> DEFINE e == Head(s)  r == Tail(s)
<1>1. e \in A /\ r \in Seq(A) /\ <<e>> \in Seq(A) /\ s = <<e>> \o r
  BY HeadAndTail
<1> HIDE DEF e, r
<1>2. Kept(s, S) = Kept(<<e>>, S) \o Kept(r, S) /\ Kept(r, S) \in Seq(A)
  <2>1. Kept(<<e>> \o r, S) = Kept(<<e>>, S) \o Kept(r, S)
    <3> DEFINE f == <<e>>
    <3>1. f \in Seq(A) /\ r \in Seq(A)
      BY <1>1
    <3> HIDE DEF f
    <3>2. Kept(f \o r, S) = Kept(f, S) \o Kept(r, S)
      BY <3>1, KeptConcat
    <3> QED
      BY <3>2 DEF f
  <2> QED
    BY <1>1, <2>1, KeptType, Zenon
<1>3. Kept(<<e>>, S) = IF e \in S THEN <<e>> ELSE << >>
  <2>1. << >> \in Seq(A) /\ Append(<< >>, e) = <<e>>
    BY EmptySeq
  <2>2. Kept(Append(<< >>, e), S) = IF e \in S THEN Append(Kept(<< >>, S), e) ELSE Kept(<< >>, S)
    BY <1>1, <2>1, KeptAppend
  <2> QED
    BY <2>1, <2>2, KeptEmpty
<1>4. CASE e \in S
  <2>1. Kept(s, S) = <<e>> \o Kept(r, S)
    BY <1>2, <1>3, <1>4
  <2>2. <<e>> \o Kept(r, S) # << >> /\ Head(<<e>> \o Kept(r, S)) = e
        /\ Tail(<<e>> \o Kept(r, S)) = Kept(r, S)
    BY <1>1, <1>2, HeadOfConcat
  <2> QED
    BY <1>4, <2>1, <2>2 DEF e, r
<1>5. CASE e \notin S
  <2>1. Kept(s, S) = << >> \o Kept(r, S)
    BY <1>2, <1>3, <1>5
  <2>2. << >> \o Kept(r, S) = Kept(r, S)
    BY <1>2, ConcatEmptySeq
  <2> QED
    BY <1>5, <2>1, <2>2 DEF e, r
<1> QED
  BY <1>4, <1>5

LEMMA TailOfInjective ==
  ASSUME NEW A, NEW s \in Seq(A), s # << >>, IsInjective(s)
  PROVE  /\ IsInjective(Tail(s)) /\ Head(s) \notin Range(Tail(s))
         /\ Range(s) = Range(Tail(s)) \cup {Head(s)}
<1> DEFINE r == Tail(s)  n == Len(s)
<1>1. /\ r \in Seq(A) /\ Len(r) = n - 1 /\ n \in Nat \ {0} /\ Head(s) = s[1]
      /\ DOMAIN s = 1 .. n /\ DOMAIN r = 1 .. n - 1
      /\ \A i \in 1 .. n - 1 : r[i] = s[i + 1]
  BY HeadTailProperties, EmptySeq, LenProperties
<1> HIDE DEF r, n
<1>2. IsInjective(r)
  <2>1. ASSUME NEW i \in 1 .. n - 1, NEW j \in 1 .. n - 1, r[i] = r[j] PROVE i = j
    <3>1. i + 1 \in 1 .. n /\ j + 1 \in 1 .. n /\ s[i + 1] = s[j + 1]
      BY <1>1, <2>1
    <3>2. i + 1 = j + 1
      BY <1>1, <3>1, Zenon DEF IsInjective
    <3> QED
      BY <3>2
  <2> QED
    BY <1>1, <2>1 DEF IsInjective
<1>3. Head(s) \notin Range(r)
  BY <1>1 DEF IsInjective, Range
<1>4. \A x \in Range(s) : x \in Range(r) \cup {Head(s)}
  <2> SUFFICES ASSUME NEW i \in 1 .. n PROVE s[i] \in Range(r) \cup {Head(s)}
    BY <1>1 DEF Range
  <2>1. CASE i = 1
    BY <2>1, <1>1
  <2>2. CASE i # 1
    <3>1. i - 1 \in 1 .. n - 1 /\ i - 1 + 1 = i
      BY <2>2, <1>1
    <3>2. r[i - 1] = s[i]
      BY <1>1, <3>1
    <3>3. r[i - 1] \in Range(r)
      BY <1>1, <3>1, Zenon DEF Range
    <3> QED
      BY <3>2, <3>3
  <2> QED
    BY <2>1, <2>2
<1>5. \A x \in Range(r) \cup {Head(s)} : x \in Range(s)
  <2>1. Head(s) \in Range(s)
    BY <1>1 DEF Range
  <2>2. ASSUME NEW i \in 1 .. n - 1 PROVE r[i] \in Range(s)
    <3>1. i + 1 \in 1 .. n
      BY <1>1
    <3> QED
      BY <3>1, <1>1 DEF Range
  <2> QED
    BY <1>1, <2>1, <2>2 DEF Range
<1> QED
  BY <1>2, <1>3, <1>4, <1>5 DEF r

LEMMA KeptWithoutHead ==
  ASSUME NEW A, NEW s \in Seq(A), s # << >>, IsInjective(s)
  PROVE  Kept(s, A \ {Head(s)}) = Tail(s)
<1>1. Tail(s) \in Seq(A) /\ Range(Tail(s)) \subseteq A \ {Head(s)}
  BY HeadTailProperties, TailOfInjective, RangeOfSeq
<1>2. Kept(s, A \ {Head(s)}) = Kept(Tail(s), A \ {Head(s)})
  BY KeptHead
<1> QED
  BY <1>1, <1>2, KeptAll

LEMMA TailOfConcat ==
  ASSUME NEW A, NEW s \in Seq(A), NEW t \in Seq(A), s # << >>
  PROVE  s \o t # << >> /\ Head(s \o t) = Head(s) /\ Tail(s \o t) = Tail(s) \o t
<1> DEFINE e == Head(s)  r == Tail(s)  f == <<e>>
<1>1. e \in A /\ r \in Seq(A) /\ f \in Seq(A) /\ s = f \o r
  BY HeadAndTail
<1>2. r \o t \in Seq(A)
  BY <1>1, ConcatProperties
<1> HIDE DEF f, e, r
<1>3. (f \o r) \o t = f \o (r \o t)
  BY <1>1, ConcatAssociative
<1>4. f \o (r \o t) # << >> /\ Head(f \o (r \o t)) = e /\ Tail(f \o (r \o t)) = r \o t
  <2> DEFINE v == r \o t
  <2>1. v \in Seq(A)
    BY <1>2
  <2> HIDE DEF v
  <2>2. <<e>> \o v # << >> /\ Head(<<e>> \o v) = e /\ Tail(<<e>> \o v) = v
    BY <1>1, <2>1, HeadOfConcat
  <2> QED
    BY <2>2 DEF v, f
<1>5. s \o t = f \o (r \o t)
  BY <1>1, <1>3, Zenon
<1> QED
  BY <1>4, <1>5 DEF e, r

-----------------------------------------------------------------------------
(* A queue whose finished elements, D, are in front of the others, Q.      *)
TwoParts(s, D, Q) == D \cap Q = {} /\ IsInjective(s) /\ s = Kept(s, D) \o Kept(s, Q)

LEMMA TwoPartsEmpty ==
  ASSUME NEW D, NEW Q, D \cap Q = {}
  PROVE  TwoParts(<< >>, D, Q)
<1>1. << >> \o << >> = << >> /\ IsInjective(<< >>)
  BY ConcatEmptySeq, EmptySeq DEF IsInjective
<1> QED
  BY <1>1, KeptEmpty DEF TwoParts

LEMMA TwoPartsAppend ==
  ASSUME NEW A, NEW s \in Seq(A), NEW D, NEW Q, TwoParts(s, D, Q),
         NEW e \in A, e \notin Range(s), e \notin D
  PROVE  /\ TwoParts(Append(s, e), D, Q \cup {e})
         /\ Kept(Append(s, e), D) = Kept(s, D)
         /\ Kept(Append(s, e), Q \cup {e}) = Append(Kept(s, Q), e)
<1> DEFINE R == Q \cup {e}  t == Append(s, e)  d == Kept(s, D)  q == Kept(s, Q)
<1>1. d \in Seq(A) /\ q \in Seq(A)
  BY KeptType
<1>2. Kept(t, D) = d
  BY KeptAppend
<1>3. Kept(t, R) = Append(q, e)
  <2>1. Kept(s, R) = q
    <3>1. \A x \in Range(s) : x \in R <=> x \in Q
      OBVIOUS
    <3> QED
      BY <3>1, KeptAlike
  <2>2. e \in R
    OBVIOUS
  <2>3. Kept(t, R) = IF e \in R THEN Append(Kept(s, R), e) ELSE Kept(s, R)
    <3> HIDE DEF R
    <3> QED BY KeptAppend
  <2> HIDE DEF t, q, R
  <2> QED
    BY <2>1, <2>2, <2>3
<1>4. t = d \o Append(q, e)
  <2>1. s = d \o q
    BY DEF TwoParts
  <2> HIDE DEF d, q
  <2>2. d \o Append(q, e) = Append(d \o q, e)
    BY <1>1, AppendOfConcat
  <2> QED
    BY <2>1, <2>2, Zenon
<1>5. IsInjective(t)
  BY InjectiveAppend DEF TwoParts
<1>6. D \cap R = {}
  BY DEF TwoParts
<1>7. TwoParts(t, D, R)
  <2> HIDE DEF t, d, q, R
  <2> QED
    BY <1>2, <1>3, <1>4, <1>5, <1>6 DEF TwoParts
<1> QED
  BY <1>2, <1>3, <1>7

(* The first of the others, e, is finished.                                *)
TwoPartsMoved(s, D, Q, e) ==
  /\ e \in Q /\ e \in Range(s)
  /\ TwoParts(s, D \cup {e}, Q \ {e})
  /\ Kept(s, D \cup {e}) = Append(Kept(s, D), e)
  /\ Kept(s, Q \ {e}) = Tail(Kept(s, Q))

LEMMA TwoPartsMove ==
  ASSUME NEW A, NEW s \in Seq(A), NEW D, NEW Q, TwoParts(s, D, Q),
         NEW e, Kept(s, Q) # << >>, e = Head(Kept(s, Q))
  PROVE  TwoPartsMoved(s, D, Q, e)
<1> DEFINE d == Kept(s, D)  q == Kept(s, Q)  r == Tail(q)  C == D \cup {e}  R == Q \ {e}
<1>1. /\ d \in Seq(A) /\ q \in Seq(A) /\ r \in Seq(A) /\ e \in A /\ q # << >>
      /\ Range(d) = Range(s) \cap D /\ Range(q) = Range(s) \cap Q /\ IsInjective(q)
      /\ s = d \o q
  BY KeptType, KeptRange, KeptInjective, HeadTailProperties DEF TwoParts
<1>2. e \notin Range(r) /\ Range(q) = Range(r) \cup {e}
  BY <1>1, TailOfInjective
<1>3. e \in Q /\ e \in Range(s) /\ e \notin D /\ Range(r) \subseteq R /\ Range(r) \cap C = {}
  BY <1>1, <1>2 DEF TwoParts
<1>4. \A X : Kept(s, X) = Kept(d, X) \o Kept(q, X)
  <2> TAKE X
  <2> HIDE DEF d, q
  <2>1. Kept(d \o q, X) = Kept(d, X) \o Kept(q, X)
    BY <1>1, KeptConcat
  <2> QED
    BY <2>1, <1>1, Zenon
<1> HIDE DEF d, q, r, C, R
<1>5. Head(q) = e /\ Tail(q) = r
  BY DEF q, r
<1>6. Kept(s, C) = Append(d, e)
  <2>1. Kept(d, C) = d
    BY <1>1, KeptAll DEF C
  <2>2. Kept(r, C) = << >>
    BY <1>1, <1>3, KeptNone
  <2>3. Kept(q, C) # << >> /\ Head(Kept(q, C)) = e /\ Tail(Kept(q, C)) = << >>
    BY <1>1, <1>5, <2>2, KeptHead DEF C
  <2>4. Kept(q, C) = <<e>> \o << >>
    <3>1. Kept(q, C) \in Seq(A)
      BY <1>1, KeptType
    <3> QED
      BY <2>3, <3>1, HeadAndTail
  <2>5. <<e>> \in Seq(A) /\ <<e>> \o << >> = <<e>>
    BY <1>1
  <2>6. Kept(s, C) = d \o <<e>>
    BY <1>4, <2>1, <2>4, <2>5
  <2> QED
    BY <1>1, <2>6, AppendIsConcat
<1>7. Kept(s, R) = r
  <2>1. Kept(d, R) = << >>
    <3>1. Range(d) \cap R = {}
      BY <1>1 DEF R, TwoParts
    <3> QED
      BY <1>1, <3>1, KeptNone
  <2>2. Kept(q, R) = r
    <3>1. Kept(q, R) = Kept(r, R)
      BY <1>1, <1>5, KeptHead DEF R
    <3>2. Kept(r, R) = r
      BY <1>1, <1>3, KeptAll
    <3> QED
      BY <3>1, <3>2
  <2>3. << >> \o r = r
    BY <1>1, ConcatEmptySeq
  <2> QED
    BY <1>4, <2>1, <2>2, <2>3
<1>8. s = Append(d, e) \o r
  <2> DEFINE f == <<e>>
  <2>1. f \in Seq(A) /\ q = f \o r
    BY <1>1, <1>5, HeadAndTail
  <2>2. Append(d, e) = d \o f
    BY <1>1, AppendIsConcat
  <2> HIDE DEF f
  <2>3. (d \o f) \o r = d \o (f \o r)
    BY <1>1, <2>1, ConcatAssociative
  <2> QED
    BY <1>1, <2>1, <2>2, <2>3, Zenon
<1>9. C \cap R = {} /\ IsInjective(s)
  BY DEF TwoParts, C, R
<1>10. TwoParts(s, C, R)
  BY <1>6, <1>7, <1>8, <1>9 DEF TwoParts
<1> QED
  BY <1>3, <1>6, <1>7, <1>10 DEF C, R, d, q, r, TwoPartsMoved

(* The first element is taken out, and is finished.                        *)
LEMMA TwoPartsTake ==
  ASSUME NEW A, NEW s \in Seq(A), NEW D, NEW Q, TwoParts(s, D, Q),
         s # << >>, NEW e, e = Head(s), e \in D
  PROVE  /\ Kept(s, D) # << >> /\ Head(Kept(s, D)) = e
         /\ TwoParts(Tail(s), D \ {e}, Q)
         /\ Kept(Tail(s), D \ {e}) = Tail(Kept(s, D))
         /\ Kept(Tail(s), Q) = Kept(s, Q)
<1> DEFINE d == Kept(s, D)  q == Kept(s, Q)  t == Tail(s)  C == D \ {e}
<1>1. d \in Seq(A) /\ q \in Seq(A) /\ t \in Seq(A) /\ e \in A
  BY KeptType, HeadTailProperties
<1>2. d # << >> /\ Head(d) = e /\ Tail(d) = Kept(t, D)
  BY KeptHead
<1>3. e \notin Range(t) /\ IsInjective(t)
  BY TailOfInjective DEF TwoParts
<1>4. Kept(t, C) = Tail(d)
  <2>1. \A x \in Range(t) : x \in C <=> x \in D
    BY <1>3
  <2> QED
    BY <1>1, <1>2, <2>1, KeptAlike
<1>5. Kept(t, Q) = q
  <2>1. e \notin Q
    BY DEF TwoParts
  <2> QED
    BY <2>1, KeptHead
<1>6. t = Tail(d) \o q
  <2>1. s = d \o q
    BY DEF TwoParts
  <2> HIDE DEF d, q
  <2>2. Tail(d \o q) = Tail(d) \o q
    BY <1>1, <1>2, TailOfConcat
  <2> QED
    BY <2>1, <2>2, Zenon
<1>7. C \cap Q = {}
  BY DEF TwoParts
<1>8. TwoParts(t, C, Q)
  <2> HIDE DEF t, d, q, C
  <2> QED
    BY <1>3, <1>4, <1>5, <1>6, <1>7 DEF TwoParts
<1> QED
  BY <1>2, <1>4, <1>5, <1>8

-----------------------------------------------------------------------------
(* Positions.                                                              *)

LEMMA IndexOfFacts ==
  ASSUME NEW A, NEW s \in Seq(A), NEW e \in Range(s)
  PROVE  IndexOf(e, s) \in 1 .. Len(s) /\ s[IndexOf(e, s)] = e
<1>1. \E i \in 1 .. Len(s) : s[i] = e
  BY DEF Range
<1> QED
  BY <1>1 DEF IndexOf

LEMMA IndexOfInjective ==
  ASSUME NEW A, NEW s \in Seq(A), IsInjective(s), NEW i \in 1 .. Len(s)
  PROVE  s[i] \in Range(s) /\ IndexOf(s[i], s) = i
<1>1. s[i] \in Range(s)
  BY DEF Range
<1>2. IndexOf(s[i], s) \in 1 .. Len(s) /\ s[IndexOf(s[i], s)] = s[i]
  BY <1>1, IndexOfFacts
<1> QED
  BY <1>1, <1>2 DEF IsInjective

LEMMA IndicesEmpty == ASSUME NEW s PROVE Indices(<< >>, s) = << >>
  BY DEF Indices

LEMMA IndicesRange ==
  ASSUME NEW B, NEW l \in Seq(B), NEW s
  PROVE  Range(Indices(l, s)) = {IndexOf(e, s) : e \in Range(l)}
<1>1. Range(l) = {l[i] : i \in 1 .. Len(l)}
  BY LenProperties DEF Range
<1>2. Range(Indices(l, s)) = {IndexOf(l[i], s) : i \in 1 .. Len(l)}
  BY DEF Indices, Range
<1> QED
  BY <1>1, <1>2

LEMMA IndicesAppend ==
  ASSUME NEW B, NEW l \in Seq(B), NEW e \in B, NEW s
  PROVE  Indices(Append(l, e), s) = Append(Indices(l, s), IndexOf(e, s))
<1> DEFINE f == Indices(l, s)  g == Indices(Append(l, e), s)  x == IndexOf(e, s)
<1>1. Len(l) \in Nat /\ f = [i \in 1 .. Len(l) |-> IndexOf(l[i], s)]
  BY LenProperties DEF Indices
<1>2. /\ Len(Append(l, e)) = Len(l) + 1
      /\ \A i \in 1 .. Len(l) + 1 : Append(l, e)[i] = IF i <= Len(l) THEN l[i] ELSE e
  BY AppendProperties, <1>1
<1>3. g = [i \in 1 .. Len(l) + 1 |-> IF i <= Len(l) THEN IndexOf(l[i], s) ELSE x]
  BY <1>1, <1>2 DEF Indices
<1> DEFINE T == {IndexOf(c, s) : c \in B}
<1>4. f \in Seq(T) /\ x \in T /\ Len(f) = Len(l)
  <2>1. \A i \in 1 .. Len(l) : IndexOf(l[i], s) \in T
    OBVIOUS
  <2> HIDE DEF T
  <2> QED
    BY <1>1, <2>1 DEF T
<1> HIDE DEF f, g, x, T
<1>5. Append(f, x) = [i \in 1 .. Len(l) + 1 |-> IF i <= Len(l) THEN f[i] ELSE x]
  BY <1>1, <1>4
<1> QED
  BY <1>1, <1>3, <1>5 DEF f, g, x

LEMMA IndicesTail ==
  ASSUME NEW B, NEW l \in Seq(B), l # << >>, NEW s
  PROVE  /\ Indices(l, s) # << >> /\ Head(Indices(l, s)) = IndexOf(Head(l), s)
         /\ Tail(Indices(l, s)) = Indices(Tail(l), s)
<1>1. Len(l) \in Nat /\ Len(l) >= 1
  BY LenProperties, EmptySeq
<1>2. Indices(l, s) = [i \in 1 .. Len(l) |-> IndexOf(l[i], s)]
  BY DEF Indices
<1>3. /\ Len(Tail(l)) = Len(l) - 1 /\ Head(l) = l[1]
      /\ \A i \in 1 .. Len(l) - 1 : Tail(l)[i] = l[i + 1]
  BY <1>1, HeadTailProperties
<1>4. Indices(Tail(l), s) = [i \in 1 .. Len(l) - 1 |-> IndexOf(l[i + 1], s)]
  BY <1>1, <1>3 DEF Indices
<1> DEFINE T == {IndexOf(c, s) : c \in B}  f == Indices(l, s)
<1>5. f \in Seq(T) /\ Len(f) = Len(l) /\ f # << >>
  <2>1. \A i \in 1 .. Len(l) : IndexOf(l[i], s) \in T
    OBVIOUS
  <2> HIDE DEF T
  <2>2. f \in Seq(T) /\ Len(f) = Len(l)
    BY <1>1, <1>2, <2>1
  <2> HIDE DEF f
  <2> QED
    BY <1>1, <2>2
<1>6. f[1] = IndexOf(l[1], s) /\ \A i \in 1 .. Len(l) - 1 : f[i + 1] = IndexOf(l[i + 1], s)
  BY <1>1, <1>2
<1> HIDE DEF f, T
<1>7. Head(f) = f[1] /\ Tail(f) = [i \in 1 .. Len(l) - 1 |-> f[i + 1]]
  <2>1. /\ Head(f) = f[1] /\ Tail(f) \in Seq(T) /\ Len(Tail(f)) = Len(l) - 1
        /\ \A i \in 1 .. Len(l) - 1 : Tail(f)[i] = f[i + 1]
    BY <1>1, <1>5, HeadTailProperties
  <2>2. Tail(f) = [i \in 1 .. Len(l) - 1 |-> Tail(f)[i]]
    <3>1. Tail(f) \in [1 .. Len(l) - 1 -> T]
      BY <2>1, LenProperties
    <3> QED
      BY <3>1
  <2> HIDE DEF f
  <2> QED
    BY <2>1, <2>2, Zenon
<1>8. Tail(f) = Indices(Tail(l), s)
  BY <1>4, <1>6, <1>7
<1> QED
  BY <1>3, <1>5, <1>6, <1>7, <1>8 DEF f

=============================================================================
