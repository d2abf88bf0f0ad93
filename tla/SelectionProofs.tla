--------------------------- MODULE SelectionProofs ---------------------------
(***************************************************************************)
(* What a selecting loop returns, for every sequence and every set of      *)
(* elements to keep: the kept ones, all of them, in their order.           *)
(*                                                                         *)
(* The induction is over a set of numbers and not over a predicate, so     *)
(* that the provers can use it; any module may cite NatSetInduction.       *)
(***************************************************************************)
EXTENDS Selections, Integers, SequencesExt, SequenceTheorems, WellFoundedInduction, TLAPS

---------------------------------------------------------------------------
(* Induction *)

LEMMA LeastNat ==
    ASSUME NEW T \in SUBSET Nat, T # {}
    PROVE  \E n \in T : \A m \in T : n <= m
<1> DEFINE R == OpToRel(<, Nat)
<1>1. IsWellFoundedOn(R, Nat)
  BY NatLessThanWellFounded
<1>2. \A x, y \in Nat : y < x => <<y, x>> \in R
  BY DEF OpToRel
<1> HIDE DEF R
<1>3. PICK x \in T : \A y \in T : ~(<<y, x>> \in R)
  BY <1>1, WFMin
<1>4. \A y \in T : ~(y < x)
  BY <1>2, <1>3
<1> QED BY <1>4

\* A set that holds 0 and with each number the next one holds them all.
LEMMA NatSetInduction ==
    ASSUME NEW T, 0 \in T, \A n \in Nat : n \in T => n + 1 \in T
    PROVE  Nat \subseteq T
<1> SUFFICES ASSUME Nat \ T # {} PROVE FALSE
  OBVIOUS
<1>1. PICK n \in Nat \ T : \A m \in Nat \ T : n <= m
  BY LeastNat
<1>2. n # 0 /\ n - 1 \in Nat
  BY <1>1
<1> QED BY <1>1, <1>2

\* The same up to a bound.
LEMMA UpToInduction ==
    ASSUME NEW L \in Nat, NEW T, 0 \in T,
           \A n \in 0..(L - 1) : n \in T => n + 1 \in T
    PROVE  0..L \subseteq T
<1> DEFINE U == {n \in Nat : n <= L => n \in T}
<1>1. 0 \in U
  OBVIOUS
<1>2. ASSUME NEW n \in Nat, n \in U PROVE n + 1 \in U
  BY <1>2
<1> HIDE DEF U
<1>3. Nat \subseteq U
  BY <1>1, <1>2, NatSetInduction
<1> QED BY <1>3 DEF U

---------------------------------------------------------------------------
(* The recursive function is well defined *)

\* What has been copied after n elements, from what was before the n-th.
Copied(before, s, A, n) ==
    IF n = 0 THEN <<>>
    ELSE IF s[n] \in A THEN Append(before[n - 1], s[n]) ELSE before[n - 1]

IsSelection(g, s, A, L) == g = [n \in 0..L |-> Copied(g, s, A, n)]

LEMMA SelectionExists ==
    ASSUME NEW s, NEW A, NEW L \in Nat
    PROVE  \E g : IsSelection(g, s, A, L)
<1> DEFINE T == {l \in Nat : \E g : IsSelection(g, s, A, l)}
<1>1. 0 \in T
  <2> DEFINE g == [n \in 0..0 |-> <<>>]
  <2>1. IsSelection(g, s, A, 0)
    BY DEF IsSelection, Copied
  <2> HIDE DEF g
  <2> QED BY <2>1
<1>2. ASSUME NEW l \in Nat, l \in T PROVE l + 1 \in T
  <2>1. PICK g : IsSelection(g, s, A, l)
    BY <1>2
  <2> DEFINE k == [n \in 0..(l + 1) |-> IF n = l + 1 THEN Copied(g, s, A, n) ELSE g[n]]
  <2>2. ASSUME NEW n \in 0..(l + 1) PROVE k[n] = Copied(k, s, A, n)
    <3>1. n # 0 => k[n - 1] = g[n - 1]
      OBVIOUS
    <3>2. Copied(k, s, A, n) = Copied(g, s, A, n)
      BY <3>1 DEF Copied
    <3>3. n # l + 1 => g[n] = Copied(g, s, A, n)
      BY <2>1 DEF IsSelection
    <3> QED BY <3>2, <3>3
  <2>3. IsSelection(k, s, A, l + 1)
    BY <2>2 DEF IsSelection
  <2> HIDE DEF k
  <2>4. l + 1 \in Nat
    OBVIOUS
  <2> QED BY <2>3, <2>4
<1> HIDE DEF T
<1>3. Nat \subseteq T
  BY <1>1, <1>2, NatSetInduction
<1> QED BY <1>3 DEF T

LEMMA SelectedUpToIsSelection ==
    ASSUME NEW s, NEW A, Len(s) \in Nat
    PROVE  IsSelection(SelectedUpTo(s, A), s, A, Len(s))
<1>1. SelectedUpTo(s, A) = CHOOSE g : IsSelection(g, s, A, Len(s))
  BY Zenon DEF SelectedUpTo, IsSelection, Copied
<1>2. \E g : IsSelection(g, s, A, Len(s))
  BY SelectionExists
<1> QED BY <1>1, <1>2, Zenon

---------------------------------------------------------------------------
(* What it computes *)

\* t holds the elements among the first n of s that are in A; at says where
\* each of them was.
Copies(t, s, A, n, at) ==
    /\ at \in [1..Len(t) -> 1..n]
    /\ \A i \in 1..Len(t) : t[i] = s[at[i]] /\ t[i] \in A
    /\ \A i, j \in 1..Len(t) : i < j => at[i] < at[j]
    /\ \A m \in 1..n : s[m] \in A => \E i \in 1..Len(t) : at[i] = m

\* A keeping and a passing step of the loop.
LEMMA CopiesSkip ==
    ASSUME NEW s, NEW A, NEW t, NEW n \in Nat, NEW at, Copies(t, s, A, n, at),
           s[n + 1] \notin A
    PROVE  Copies(t, s, A, n + 1, at)
<1>1. at \in [1..Len(t) -> 1..(n + 1)]
  <2>1. at \in [1..Len(t) -> 1..n]
    BY DEF Copies
  <2>2. 1..n \subseteq 1..(n + 1)
    OBVIOUS
  <2> QED BY <2>1, <2>2, Zenon
<1>2. ASSUME NEW m \in 1..(n + 1), s[m] \in A
      PROVE  m \in 1..n
  BY <1>2
<1> QED BY <1>1, <1>2, Zenon DEF Copies

LEMMA CopiesKeep ==
    ASSUME NEW S, NEW s, NEW A, NEW t \in Seq(S), NEW n \in Nat, NEW at, Copies(t, s, A, n, at),
           s[n + 1] \in A, s[n + 1] \in S
    PROVE  \E to : Copies(Append(t, s[n + 1]), s, A, n + 1, to)
<1> DEFINE u == Append(t, s[n + 1])
           L == Len(t)
           to == [i \in 1..(L + 1) |-> IF i = L + 1 THEN n + 1 ELSE at[i]]
<1>1. L \in Nat
  BY LenProperties
<1>2. /\ Len(u) = L + 1 /\ u[L + 1] = s[n + 1]
      /\ \A i \in 1..L : u[i] = t[i]
  BY AppendProperties
<1>3. /\ at \in [1..L -> 1..n]
      /\ \A i \in 1..L : t[i] = s[at[i]] /\ t[i] \in A
      /\ \A i, j \in 1..L : i < j => at[i] < at[j]
      /\ \A m \in 1..n : s[m] \in A => \E i \in 1..L : at[i] = m
  BY DEF Copies
<1> HIDE DEF u, L
<1>4. \A i \in 1..L : at[i] \in 1..n
  BY <1>3
<1>5. /\ to[L + 1] = n + 1
      /\ \A i \in 1..L : to[i] = at[i]
  BY <1>1
<1>6. to \in [1..(L + 1) -> 1..(n + 1)]
  <2>1. ASSUME NEW i \in 1..(L + 1)
        PROVE  (IF i = L + 1 THEN n + 1 ELSE at[i]) \in 1..(n + 1)
    <3>1. i # L + 1 => i \in 1..L
      BY <1>1
    <3> QED BY <1>4, <3>1
  <2> QED BY <2>1
<1> HIDE DEF to
<1>7. ASSUME NEW i \in 1..(L + 1)
      PROVE  u[i] = s[to[i]] /\ u[i] \in A
  <2>1. CASE i = L + 1
    BY <1>2, <1>5, <2>1
  <2>2. CASE i # L + 1
    <3>1. i \in 1..L
      BY <1>1, <2>2
    <3> QED BY <1>2, <1>3, <1>5, <3>1
  <2> QED BY <2>1, <2>2
<1>8. ASSUME NEW i \in 1..(L + 1), NEW j \in 1..(L + 1), i < j
      PROVE  to[i] < to[j]
  <2>1. i \in 1..L
    BY <1>1, <1>8
  <2>2. CASE j = L + 1
    BY <1>4, <1>5, <2>1, <2>2
  <2>3. CASE j # L + 1
    <3>1. j \in 1..L
      BY <1>1, <2>3
    <3> QED BY <1>3, <1>5, <1>8, <2>1, <3>1
  <2> QED BY <2>2, <2>3
<1>9. ASSUME NEW m \in 1..(n + 1), s[m] \in A
      PROVE  \E i \in 1..(L + 1) : to[i] = m
  <2>1. CASE m = n + 1
    BY <1>1, <1>5, <2>1
  <2>2. CASE m # n + 1
    <3>1. m \in 1..n
      BY <2>2
    <3>2. PICK i \in 1..L : at[i] = m
      BY <1>3, <1>9, <3>1
    <3> QED BY <1>1, <1>5, <3>2
  <2> QED BY <2>1, <2>2
<1>10. Copies(u, s, A, n + 1, to)
  BY <1>2, <1>6, <1>7, <1>8, <1>9, Zenon DEF Copies
<1> QED BY <1>10, Zenon DEF u

\* The selecting loop keeps the elements of A, every one, and their order.
CopiedSoFar(t, S, s, A, n) == t \in Seq(S) /\ \E at : Copies(t, s, A, n, at)

LEMMA SelectedCopies ==
    ASSUME NEW S, NEW s \in Seq(S), NEW A
    PROVE  CopiedSoFar(Selected(s, A), S, s, A, Len(s))
<1> DEFINE f == SelectedUpTo(s, A)
           T == {n \in 0..Len(s) : CopiedSoFar(f[n], S, s, A, n)}
<1>1. Len(s) \in Nat /\ \A n \in 1..Len(s) : s[n] \in S
  BY LenProperties, ElementOfSeq
<1>2. \A n \in 0..Len(s) : f[n] = Copied(f, s, A, n)
  BY <1>1, SelectedUpToIsSelection DEF IsSelection
<1> HIDE DEF f
<1>3. 0 \in T
  <2>1. f[0] = <<>>
    BY <1>1, <1>2 DEF Copied
  <2> DEFINE none == [i \in 1..0 |-> 0]
  <2>2. Len(<<>>) = 0 /\ <<>> \in Seq(S)
    BY EmptySeq
  <2>3. Copies(<<>>, s, A, 0, none)
    BY <2>2 DEF Copies
  <2> HIDE DEF none
  <2>4. CopiedSoFar(f[0], S, s, A, 0)
    BY <2>1, <2>2, <2>3, Zenon DEF CopiedSoFar
  <2>5. 0 \in 0..Len(s)
    BY <1>1
  <2> QED BY <2>4, <2>5
<1>4. ASSUME NEW n \in 0..(Len(s) - 1), n \in T PROVE n + 1 \in T
  <2>1. /\ n \in Nat /\ n + 1 \in 1..Len(s) /\ n + 1 \in 0..Len(s)
        /\ n + 1 # 0 /\ (n + 1) - 1 = n
    BY <1>1
  <2>2. f[n] \in Seq(S) /\ \E at : Copies(f[n], s, A, n, at)
    BY <1>4, Zenon DEF CopiedSoFar
  <2>3. PICK at : Copies(f[n], s, A, n, at)
    BY <2>2
  <2>4. s[n + 1] \in S
    BY <1>1, <2>1
  <2>5. f[n + 1] = Copied(f, s, A, n + 1)
    BY <1>2, <2>1
  <2>6. f[n + 1] = IF s[n + 1] \in A THEN Append(f[n], s[n + 1]) ELSE f[n]
    BY <2>1, <2>5 DEF Copied
  <2>7. CASE s[n + 1] \notin A
    <3>1. Copies(f[n], s, A, n + 1, at)
      BY <2>1, <2>3, <2>7, CopiesSkip
    <3>2. f[n + 1] = f[n]
      BY <2>6, <2>7
    <3>3. CopiedSoFar(f[n + 1], S, s, A, n + 1)
      BY <2>2, <3>1, <3>2, Zenon DEF CopiedSoFar
    <3> QED BY <2>1, <3>3
  <2>8. CASE s[n + 1] \in A
    <3>1. \E to : Copies(Append(f[n], s[n + 1]), s, A, n + 1, to)
      BY <2>1, <2>2, <2>3, <2>4, <2>8, CopiesKeep
    <3>2. f[n + 1] = Append(f[n], s[n + 1])
      BY <2>6, <2>8
    <3>3. f[n + 1] \in Seq(S)
      BY <2>2, <2>4, <3>2, AppendProperties
    <3>4. CopiedSoFar(f[n + 1], S, s, A, n + 1)
      BY <3>1, <3>2, <3>3, Zenon DEF CopiedSoFar
    <3> QED BY <2>1, <3>4
  <2> QED BY <2>7, <2>8
<1> HIDE DEF T
<1>5. 0..Len(s) \subseteq T
  BY <1>1, <1>3, <1>4, UpToInduction
<1>6. Len(s) \in T
  BY <1>1, <1>5
<1>7. CopiedSoFar(f[Len(s)], S, s, A, Len(s))
  BY <1>6 DEF T
<1> QED BY <1>7 DEF f, Selected

\* What the proofs about the models use: the elements kept are elements of A
\* and of s, none of A is left out, and two of them stand as they stood in s.
LEMMA SelectedFacts ==
    ASSUME NEW S, NEW s \in Seq(S), NEW A
    PROVE  /\ Selected(s, A) \in Seq(S)
           /\ \A i \in 1..Len(Selected(s, A)) : Selected(s, A)[i] \in A
           /\ \A m \in 1..Len(s) :
                  s[m] \in A => \E i \in 1..Len(Selected(s, A)) : Selected(s, A)[i] = s[m]
           /\ \A i \in 1..Len(Selected(s, A)) :
                  \E m \in 1..Len(s) : Selected(s, A)[i] = s[m]
           /\ \A i, j \in 1..Len(Selected(s, A)) :
                  i < j => \E m, n \in 1..Len(s) :
                              m < n /\ Selected(s, A)[i] = s[m] /\ Selected(s, A)[j] = s[n]
<1> DEFINE t == Selected(s, A)
<1>1. CopiedSoFar(t, S, s, A, Len(s))
  BY SelectedCopies
<1> HIDE DEF t
<1>2. t \in Seq(S)
  BY <1>1 DEF CopiedSoFar
<1>3. PICK at : Copies(t, s, A, Len(s), at)
  BY <1>1, Zenon DEF CopiedSoFar
<1>4. /\ \A i \in 1..Len(t) : at[i] \in 1..Len(s)
      /\ \A i \in 1..Len(t) : t[i] = s[at[i]] /\ t[i] \in A
      /\ \A i, j \in 1..Len(t) : i < j => at[i] < at[j]
      /\ \A m \in 1..Len(s) : s[m] \in A => \E i \in 1..Len(t) : at[i] = m
  BY <1>3 DEF Copies
<1>5. /\ \A i \in 1..Len(t) : t[i] \in A
      /\ \A m \in 1..Len(s) : s[m] \in A => \E i \in 1..Len(t) : t[i] = s[m]
  BY <1>4, ZenonT(30)
<1>6. \A i \in 1..Len(t) : \E m \in 1..Len(s) : t[i] = s[m]
  BY <1>4, Zenon
<1>7. \A i, j \in 1..Len(t) :
          i < j => \E m, n \in 1..Len(s) : m < n /\ t[i] = s[m] /\ t[j] = s[n]
  BY <1>4, Zenon
<1> QED BY <1>2, <1>5, <1>6, <1>7, Zenon DEF t

---------------------------------------------------------------------------
(* Selecting from a sequence that grows *)

LEMMA SelectedSteps ==
    ASSUME NEW s, NEW A, Len(s) \in Nat
    PROVE  /\ SelectedUpTo(s, A)[0] = <<>>
           /\ \A n \in 1..Len(s) :
                 SelectedUpTo(s, A)[n] = IF s[n] \in A THEN Append(SelectedUpTo(s, A)[n - 1], s[n])
                                         ELSE SelectedUpTo(s, A)[n - 1]
<1> DEFINE f == SelectedUpTo(s, A)
<1>1. \A n \in 0..Len(s) : f[n] = Copied(f, s, A, n)
  BY SelectedUpToIsSelection DEF IsSelection
<1> HIDE DEF f
<1>2. f[0] = <<>>
  BY <1>1 DEF Copied
<1>3. \A n \in 1..Len(s) : f[n] = IF s[n] \in A THEN Append(f[n - 1], s[n]) ELSE f[n - 1]
  BY <1>1 DEF Copied
<1> QED BY <1>2, <1>3 DEF f

LEMMA SelectedUpToTyped ==
    ASSUME NEW S, NEW s \in Seq(S), NEW A
    PROVE  \A n \in 0..Len(s) : SelectedUpTo(s, A)[n] \in Seq(S)
<1> DEFINE f == SelectedUpTo(s, A)
           T == {n \in 0..Len(s) : f[n] \in Seq(S)}
<1>1. Len(s) \in Nat /\ \A n \in 1..Len(s) : s[n] \in S
  BY LenProperties, ElementOfSeq
<1>2. /\ f[0] = <<>>
      /\ \A n \in 1..Len(s) : f[n] = IF s[n] \in A THEN Append(f[n - 1], s[n]) ELSE f[n - 1]
  BY <1>1, SelectedSteps
<1> HIDE DEF f
<1>3. 0 \in T
  <2>1. f[0] \in Seq(S) /\ 0 \in 0..Len(s)
    BY <1>1, <1>2, EmptySeq
  <2> QED BY <2>1
<1>4. ASSUME NEW n \in 0..(Len(s) - 1), n \in T PROVE n + 1 \in T
  <2>1. n + 1 \in 1..Len(s) /\ n + 1 \in 0..Len(s) /\ (n + 1) - 1 = n
    BY <1>1
  <2>2. f[n + 1] = IF s[n + 1] \in A THEN Append(f[n], s[n + 1]) ELSE f[n]
    BY <1>2, <2>1
  <2>3. f[n + 1] \in Seq(S)
    BY <1>1, <1>4, <2>1, <2>2, AppendProperties
  <2> QED BY <2>1, <2>3
<1> HIDE DEF T
<1>5. 0..Len(s) \subseteq T
  BY <1>1, <1>3, <1>4, UpToInduction
<1> QED BY <1>5 DEF T, f

LEMMA ConcatThree ==
    ASSUME NEW S, NEW a \in Seq(S), NEW b \in Seq(S), NEW c \in Seq(S),
           NEW d, d = a \o b, NEW e, e = b \o c
    PROVE  d \o c = a \o e
<1>3. PICK l : l = d \o c
  OBVIOUS
<1>12. PICK r : r = a \o e
  OBVIOUS
<1>4. /\ d \in Seq(S) /\ Len(d) = Len(a) + Len(b)
      /\ \A i \in 1..(Len(a) + Len(b)) : d[i] = IF i <= Len(a) THEN a[i] ELSE b[i - Len(a)]
  BY ConcatProperties
<1>5. /\ e \in Seq(S) /\ Len(e) = Len(b) + Len(c)
      /\ \A i \in 1..(Len(b) + Len(c)) : e[i] = IF i <= Len(b) THEN b[i] ELSE c[i - Len(b)]
  BY ConcatProperties
<1>6. /\ l \in Seq(S) /\ Len(l) = Len(d) + Len(c)
      /\ \A i \in 1..(Len(d) + Len(c)) : l[i] = IF i <= Len(d) THEN d[i] ELSE c[i - Len(d)]
  <2>1. d \in Seq(S)
    BY <1>4
  <2> QED BY <1>3, <2>1, ConcatProperties
<1>7. /\ r \in Seq(S) /\ Len(r) = Len(a) + Len(e)
      /\ \A i \in 1..(Len(a) + Len(e)) : r[i] = IF i <= Len(a) THEN a[i] ELSE e[i - Len(a)]
  <2>1. e \in Seq(S)
    BY <1>5
  <2> QED BY <1>12, <2>1, ConcatProperties
<1>8. Len(a) \in Nat /\ Len(b) \in Nat /\ Len(c) \in Nat
  BY LenProperties
<1>9. Len(l) = Len(r)
  BY <1>4, <1>5, <1>6, <1>7, <1>8
<1>10. ASSUME NEW i \in 1..Len(l) PROVE l[i] = r[i]
  <2>1. CASE i <= Len(a)
    <3>1. l[i] = d[i] /\ d[i] = a[i]
      BY <1>4, <1>6, <1>8, <2>1
    <3>2. r[i] = a[i]
      BY <1>7, <1>8, <1>9, <2>1
    <3> QED BY <3>1, <3>2
  <2>2. CASE Len(a) < i /\ i <= Len(a) + Len(b)
    <3>1. l[i] = d[i] /\ d[i] = b[i - Len(a)]
      BY <1>4, <1>6, <1>8, <2>2
    <3>2. r[i] = e[i - Len(a)] /\ i - Len(a) \in 1..Len(b)
      BY <1>7, <1>8, <1>9, <2>2
    <3>3. i - Len(a) \in 1..(Len(b) + Len(c)) /\ i - Len(a) <= Len(b)
      BY <1>8, <3>2
    <3>4. e[i - Len(a)] = b[i - Len(a)]
      BY <1>5, <3>3
    <3> QED BY <3>1, <3>2, <3>4
  <2>3. CASE Len(a) + Len(b) < i
    <3>1. l[i] = c[i - (Len(a) + Len(b))]
      BY <1>4, <1>6, <1>8, <2>3
    <3>2. /\ r[i] = e[i - Len(a)] /\ i - Len(a) \in 1..(Len(b) + Len(c))
          /\ ~(i - Len(a) <= Len(b)) /\ (i - Len(a)) - Len(b) = i - (Len(a) + Len(b))
      BY <1>4, <1>5, <1>6, <1>7, <1>8, <1>9, <2>3
    <3>3. e[i - Len(a)] = c[i - (Len(a) + Len(b))]
      BY <1>5, <1>8, <3>2
    <3> QED BY <3>1, <3>2, <3>3
  <2> QED BY <1>4, <1>6, <1>8, <2>1, <2>2, <2>3
<1>11. l = r
  BY <1>6, <1>7, <1>9, <1>10, SeqEqual
<1> QED BY <1>3, <1>12, <1>11

\* What was copied of the first part does not depend on the rest.
LEMMA SelectedConcat ==
    ASSUME NEW S, NEW s \in Seq(S), NEW t \in Seq(S), NEW A
    PROVE  Selected(s \o t, A) = Selected(s, A) \o Selected(t, A)
<1> DEFINE m == Len(s)
<1>u. PICK u : u = s \o t
  OBVIOUS
<1> DEFINE f == SelectedUpTo(s, A)
           g == SelectedUpTo(u, A)
           k == SelectedUpTo(t, A)
           T == {n \in 0..m : g[n] = f[n]}
           V == {n \in 0..Len(t) : g[m + n] = f[m] \o k[n]}
<1>1. /\ m \in Nat /\ Len(t) \in Nat /\ u \in Seq(S) /\ Len(u) = m + Len(t)
      /\ \A i \in 1..m : u[i] = s[i]
      /\ \A i \in 1..Len(t) : u[m + i] = t[i] /\ t[i] \in S
  <2>1. m \in Nat /\ Len(t) \in Nat /\ \A i \in 1..Len(t) : t[i] \in S
    BY LenProperties, ElementOfSeq
  <2>2. /\ u \in Seq(S) /\ Len(u) = m + Len(t)
        /\ \A i \in 1..(m + Len(t)) : u[i] = IF i <= m THEN s[i] ELSE t[i - m]
    BY <1>u, ConcatProperties
  <2>3. \A i \in 1..Len(t) : m + i \in 1..(m + Len(t)) /\ ~(m + i <= m) /\ (m + i) - m = i
    BY <2>1
  <2>4. \A i \in 1..m : i \in 1..(m + Len(t)) /\ i <= m
    BY <2>1
  <2> HIDE DEF m
  <2> QED BY <2>1, <2>2, <2>3, <2>4
<1>2. f[m] \in Seq(S) /\ \A n \in 0..Len(t) : k[n] \in Seq(S)
  BY <1>1, SelectedUpToTyped
<1>3. /\ f[0] = <<>>
      /\ \A n \in 1..m : f[n] = IF s[n] \in A THEN Append(f[n - 1], s[n]) ELSE f[n - 1]
  BY <1>1, SelectedSteps
<1>4. /\ k[0] = <<>>
      /\ \A n \in 1..Len(t) : k[n] = IF t[n] \in A THEN Append(k[n - 1], t[n]) ELSE k[n - 1]
  BY <1>1, SelectedSteps
<1>5. /\ g[0] = <<>>
      /\ \A n \in 1..Len(u) : g[n] = IF u[n] \in A THEN Append(g[n - 1], u[n]) ELSE g[n - 1]
  <2>1. Len(u) \in Nat
    BY <1>1
  <2> QED BY <2>1, SelectedSteps
<1> HIDE DEF f, g, k, m
<1>6. m \in T
  <2>1. 0 \in T
    BY <1>1, <1>3, <1>5
  <2>2. ASSUME NEW n \in 0..(m - 1), n \in T PROVE n + 1 \in T
    <3>1. n + 1 \in 1..m /\ n + 1 \in 0..m /\ n + 1 \in 1..Len(u) /\ (n + 1) - 1 = n
      BY <1>1
    <3>2. g[n + 1] = f[n + 1]
      BY <1>1, <1>3, <1>5, <2>2, <3>1
    <3> QED BY <3>1, <3>2
  <2> HIDE DEF T
  <2>3. 0..m \subseteq T
    BY <1>1, <2>1, <2>2, UpToInduction
  <2> QED BY <1>1, <2>3
<1>7. Len(t) \in V
  <2>1. 0 \in V
    <3>1. g[m] = f[m] /\ m + 0 = m
      BY <1>1, <1>6
    <3>2. f[m] = f[m] \o k[0]
      BY <1>2, <1>4, ConcatEmptySeq
    <3>3. 0 \in 0..Len(t)
      BY <1>1
    <3>4. g[m + 0] = f[m] \o k[0]
      BY <3>1, <3>2
    <3> QED BY <3>3, <3>4
  <2>2. ASSUME NEW n \in 0..(Len(t) - 1), n \in V PROVE n + 1 \in V
    <3>1. /\ n + 1 \in 1..Len(t) /\ n + 1 \in 0..Len(t) /\ n \in 0..Len(t)
          /\ m + (n + 1) \in 1..Len(u) /\ (m + (n + 1)) - 1 = m + n /\ (n + 1) - 1 = n
      BY <1>1
    <3>2. u[m + (n + 1)] = t[n + 1] /\ t[n + 1] \in S /\ k[n] \in Seq(S)
      BY <1>1, <1>2, <3>1
    <3>3. g[m + n] = f[m] \o k[n]
      BY <2>2
    <3>4. CASE t[n + 1] \notin A
      <4>1. g[m + (n + 1)] = g[m + n] /\ k[n + 1] = k[n]
        BY <1>4, <1>5, <3>1, <3>2, <3>4
      <4> QED BY <3>1, <3>3, <4>1
    <3>5. CASE t[n + 1] \in A
      <4>1. g[m + (n + 1)] = Append(g[m + n], t[n + 1]) /\ k[n + 1] = Append(k[n], t[n + 1])
        BY <1>4, <1>5, <3>1, <3>2, <3>5
      <4>2. /\ Append(f[m] \o k[n], t[n + 1]) = (f[m] \o k[n]) \o <<t[n + 1]>>
            /\ f[m] \o Append(k[n], t[n + 1]) = f[m] \o (k[n] \o <<t[n + 1]>>)
        BY <1>2, <3>2, AppendIsConcat, ConcatProperties, ZenonT(60)
      <4>3. (f[m] \o k[n]) \o <<t[n + 1]>> = f[m] \o (k[n] \o <<t[n + 1]>>)
        <5>1. PICK a, b, c : a = f[m] /\ b = k[n] /\ c = <<t[n + 1]>>
          OBVIOUS
        <5>2. a \in Seq(S) /\ b \in Seq(S) /\ c \in Seq(S)
          BY <1>2, <3>2, <5>1
        <5>3. PICK d : d = a \o b
          OBVIOUS
        <5>4. PICK e : e = b \o c
          OBVIOUS
        <5>5. d \o c = a \o e
          BY <5>2, <5>3, <5>4, ConcatThree
        <5> QED BY <5>1, <5>3, <5>4, <5>5
      <4> QED BY <3>1, <3>3, <4>1, <4>2, <4>3
    <3> QED BY <3>4, <3>5
  <2> HIDE DEF V
  <2>3. 0..Len(t) \subseteq V
    BY <1>1, <2>1, <2>2, UpToInduction
  <2> QED BY <1>1, <2>3
<1>8. g[Len(u)] = f[m] \o k[Len(t)]
  BY <1>1, <1>7
<1> QED BY <1>u, <1>8 DEF Selected, f, g, k, m

LEMMA SelectedOne ==
    ASSUME NEW x, NEW A
    PROVE  Selected(<<x>>, A) = IF x \in A THEN <<x>> ELSE <<>>
<1> DEFINE s == <<x>>
           f == SelectedUpTo(s, A)
<1>1. Len(s) = 1 /\ s[1] = x
  OBVIOUS
<1>2. f[0] = <<>> /\ f[1] = IF s[1] \in A THEN Append(f[1 - 1], s[1]) ELSE f[1 - 1]
  BY <1>1, SelectedSteps
<1> HIDE DEF f
<1>3. f[1] = IF x \in A THEN Append(<<>>, x) ELSE <<>>
  <2>1. f[1 - 1] = <<>>
    <3>1. 1 - 1 = 0
      OBVIOUS
    <3> QED BY <1>2, <3>1
  <2> QED BY <1>1, <1>2, <2>1
<1>4. Append(<<>>, x) = <<x>>
  OBVIOUS
<1> QED BY <1>1, <1>3, <1>4 DEF Selected, f

LEMMA SelectedNone ==
    ASSUME NEW A
    PROVE  Selected(<<>>, A) = <<>>
<1>1. Len(<<>>) = 0
  OBVIOUS
<1> QED BY <1>1, SelectedSteps DEF Selected

\* When the elements to keep come first.
LEMMA SelectedPrefix ==
    ASSUME NEW S, NEW s \in Seq(S), NEW A, NEW p \in 0..Len(s),
           \A i \in 1..Len(s) : s[i] \in A <=> i <= p
    PROVE  /\ Selected(s, A) \in Seq(S) /\ Len(Selected(s, A)) = p
           /\ \A i \in 1..p : Selected(s, A)[i] = s[i]
<1> DEFINE f == SelectedUpTo(s, A)
           least(n) == IF n <= p THEN n ELSE p
           T == {n \in 0..Len(s) : Len(f[n]) = least(n) /\ \A i \in 1..least(n) : f[n][i] = s[i]}
<1>1. Len(s) \in Nat /\ (\A n \in 1..Len(s) : s[n] \in S) /\ \A n \in 0..Len(s) : f[n] \in Seq(S)
  BY LenProperties, ElementOfSeq, SelectedUpToTyped
<1>2. /\ f[0] = <<>>
      /\ \A n \in 1..Len(s) : f[n] = IF s[n] \in A THEN Append(f[n - 1], s[n]) ELSE f[n - 1]
  BY <1>1, SelectedSteps
<1> HIDE DEF f
<1>3. 0 \in T
  BY <1>1, <1>2
<1>4. ASSUME NEW n \in 0..(Len(s) - 1), n \in T PROVE n + 1 \in T
  <2>1. /\ n + 1 \in 1..Len(s) /\ n + 1 \in 0..Len(s) /\ n \in 0..Len(s) /\ (n + 1) - 1 = n
        /\ n \in Nat /\ p \in Nat
    BY <1>1
  <2>2. f[n + 1] = IF s[n + 1] \in A THEN Append(f[n], s[n + 1]) ELSE f[n]
    BY <1>2, <2>1
  <2>3. Len(f[n]) = least(n) /\ \A i \in 1..least(n) : f[n][i] = s[i]
    BY <1>4
  <2>4. CASE n + 1 <= p
    <3>1. s[n + 1] \in A /\ f[n] \in Seq(S) /\ s[n + 1] \in S
      BY <1>1, <2>1, <2>4
    <3>2. Len(f[n]) = n /\ \A i \in 1..n : f[n][i] = s[i]
      BY <2>1, <2>3, <2>4
    <3>3. /\ Len(f[n + 1]) = n + 1 /\ f[n + 1][n + 1] = s[n + 1]
          /\ \A i \in 1..n : f[n + 1][i] = s[i]
      BY <2>2, <3>1, <3>2, AppendProperties
    <3>4. \A i \in 1..(n + 1) : f[n + 1][i] = s[i]
      BY <2>1, <3>3
    <3> QED BY <2>1, <2>4, <3>3, <3>4
  <2>5. CASE ~(n + 1 <= p)
    <3>1. s[n + 1] \notin A
      BY <2>1, <2>5
    <3>2. f[n + 1] = f[n] /\ least(n) = p /\ least(n + 1) = p
      BY <2>1, <2>2, <2>5, <3>1
    <3> QED BY <2>1, <2>3, <3>2
  <2> QED BY <2>4, <2>5
<1> HIDE DEF T
<1>5. 0..Len(s) \subseteq T
  BY <1>1, <1>3, <1>4, UpToInduction
<1>6. Len(s) \in 0..Len(s) /\ least(Len(s)) = p
  BY <1>1
<1>7. Len(f[Len(s)]) = p /\ \A i \in 1..p : f[Len(s)][i] = s[i]
  BY <1>5, <1>6 DEF T
<1> QED BY <1>1, <1>6, <1>7 DEF Selected, f

---------------------------------------------------------------------------
(* Concatenation by its laws alone *)

\* The provers compare two uses of \o item by item; of Join they know the laws.
Join(s, t) == s \o t

LEMMA JoinTyped ==
    ASSUME NEW S, NEW a \in Seq(S), NEW b \in Seq(S)
    PROVE  /\ Join(a, b) \in Seq(S) /\ Len(Join(a, b)) = Len(a) + Len(b)
           /\ \A i \in 1..(Len(a) + Len(b)) : Join(a, b)[i] = IF i <= Len(a) THEN a[i] ELSE b[i - Len(a)]
  BY ConcatProperties DEF Join

LEMMA JoinEmpty ==
    ASSUME NEW S, NEW a \in Seq(S)
    PROVE  Join(a, <<>>) = a /\ Join(<<>>, a) = a
  BY ConcatEmptySeq DEF Join

LEMMA JoinAssociates ==
    ASSUME NEW S, NEW a \in Seq(S), NEW b \in Seq(S), NEW c \in Seq(S)
    PROVE  Join(Join(a, b), c) = Join(a, Join(b, c))
<1>1. PICK d, e : d = a \o b /\ e = b \o c
  OBVIOUS
<1>2. d \o c = a \o e
  BY <1>1, ConcatThree, SMTT(20)
<1> QED BY <1>1, <1>2 DEF Join

LEMMA SelectedJoin ==
    ASSUME NEW S, NEW s \in Seq(S), NEW t \in Seq(S), NEW A
    PROVE  Selected(Join(s, t), A) = Join(Selected(s, A), Selected(t, A))
  BY SelectedConcat DEF Join

LEMMA JoinAppend ==
    ASSUME NEW S, NEW a \in Seq(S), NEW x \in S
    PROVE  Append(a, x) = Join(a, <<x>>) /\ <<x>> \in Seq(S)
<1>1. Append(a, x) = a \o <<x>>
  BY AppendIsConcat
<1>2. Append(a, x) = Join(a, <<x>>)
  BY <1>1 DEF Join
<1>3. <<x>> \in Seq(S)
  OBVIOUS
<1> QED BY <1>2, <1>3

---------------------------------------------------------------------------
(* Two loops side by side *)

\* Sequences whose elements are kept together select related elements.
LEMMA SelectedAlike ==
    ASSUME NEW S, NEW s \in Seq(S), NEW A, NEW T, NEW t \in Seq(T), NEW B, NEW R,
           Len(s) = Len(t),
           \A i \in 1..Len(s) : (s[i] \in A <=> t[i] \in B) /\ <<s[i], t[i]>> \in R
    PROVE  /\ Len(Selected(s, A)) = Len(Selected(t, B))
           /\ \A i \in 1..Len(Selected(s, A)) : <<Selected(s, A)[i], Selected(t, B)[i]>> \in R
<1> DEFINE f == SelectedUpTo(s, A)
           g == SelectedUpTo(t, B)
           Alike(a, b) == Len(a) = Len(b) /\ \A i \in 1..Len(a) : <<a[i], b[i]>> \in R
           U == {n \in 0..Len(s) : Alike(f[n], g[n])}
<1>1. /\ Len(s) \in Nat
      /\ \A i \in 1..Len(s) : s[i] \in S /\ t[i] \in T
  BY LenProperties, ElementOfSeq
<1>2. /\ f[0] = <<>> /\ g[0] = <<>>
      /\ \A n \in 1..Len(s) : f[n] = IF s[n] \in A THEN Append(f[n - 1], s[n]) ELSE f[n - 1]
      /\ \A n \in 1..Len(s) : g[n] = IF t[n] \in B THEN Append(g[n - 1], t[n]) ELSE g[n - 1]
  BY <1>1, SelectedSteps
<1>3. \A n \in 0..Len(s) : f[n] \in Seq(S) /\ g[n] \in Seq(T)
  BY SelectedUpToTyped
<1> HIDE DEF f, g
<1>4. 0 \in U
  <2>1. Len(f[0]) = 0 /\ Len(g[0]) = 0
    BY <1>2
  <2> QED BY <2>1, <1>1
<1>5. ASSUME NEW n \in 0..(Len(s) - 1), n \in U PROVE n + 1 \in U
  <2>1. /\ n + 1 \in 1..Len(s) /\ n \in 0..Len(s) /\ (n + 1) - 1 = n
    BY <1>1
  <2>2. PICK a, b, x, y : a = f[n] /\ b = g[n] /\ x = s[n + 1] /\ y = t[n + 1]
    OBVIOUS
  <2>3. a \in Seq(S) /\ b \in Seq(T) /\ x \in S /\ y \in T /\ Alike(a, b)
    BY <2>1, <2>2, <1>1, <1>3, <1>5
  <2>4. (x \in A <=> y \in B) /\ <<x, y>> \in R
    BY <2>1, <2>2
  <2>5. CASE x \in A
    <3>1. f[n + 1] = Append(a, x) /\ g[n + 1] = Append(b, y)
      BY <2>1, <2>2, <2>4, <2>5, <1>2
    <3>2. /\ Len(Append(a, x)) = Len(a) + 1 /\ Len(Append(b, y)) = Len(b) + 1
          /\ \A i \in 1..Len(a) : Append(a, x)[i] = a[i]
          /\ \A i \in 1..Len(b) : Append(b, y)[i] = b[i]
          /\ Append(a, x)[Len(a) + 1] = x /\ Append(b, y)[Len(b) + 1] = y
          /\ Len(a) \in Nat
      BY <2>3, AppendProperties, LenProperties
    <3>3. ASSUME NEW i \in 1..(Len(a) + 1) PROVE <<Append(a, x)[i], Append(b, y)[i]>> \in R
      <4>1. CASE i = Len(a) + 1
        BY <4>1, <3>2, <2>3, <2>4
      <4>2. CASE i # Len(a) + 1
        <5>1. i \in 1..Len(a) /\ Len(a) = Len(b)
          BY <4>2, <3>2, <2>3
        <5> QED BY <5>1, <3>2, <2>3
      <4> QED BY <4>1, <4>2
    <3>4. PICK c, d : c = Append(a, x) /\ d = Append(b, y)
      OBVIOUS
    <3>5. Len(a) = Len(b)
      BY <2>3
    <3>6. Len(c) = Len(a) + 1 /\ Len(d) = Len(a) + 1
      BY <3>2, <3>4, <3>5
    <3>7. \A i \in 1..Len(c) : <<c[i], d[i]>> \in R
      BY <3>3, <3>4, <3>6
    <3>8. Alike(c, d)
      BY <3>6, <3>7
    <3>9. n + 1 \in 0..Len(s) /\ f[n + 1] = c /\ g[n + 1] = d
      BY <3>1, <3>4, <2>1, <1>1
    <3> QED BY <3>8, <3>9
  <2>6. CASE x \notin A
    BY <2>1, <2>2, <2>3, <2>4, <2>6, <1>2
  <2> QED BY <2>5, <2>6
<1> HIDE DEF U
<1>6. 0..Len(s) \subseteq U
  BY <1>1, <1>4, <1>5, UpToInduction
<1>7. Alike(f[Len(s)], g[Len(s)])
  BY <1>1, <1>6 DEF U
<1> QED BY <1>7 DEF f, g, Selected

---------------------------------------------------------------------------
(* Sequences put together *)

LEMMA ListTyped ==
    ASSUME NEW S, NEW n \in Nat, NEW s \in [1..n -> S]
    PROVE  s \in Seq(S) /\ Len(s) = n
<1>1. s \in Seq(S)
  OBVIOUS
<1>2. 1..n = 1..Len(s) /\ Len(s) \in Nat
  BY <1>1, LenProperties
<1> QED BY <1>1, <1>2

\* What is put together after the i-th sequence, from what was before it.
Flat(before, seqs, i) == IF i = 1 THEN seqs[i] ELSE before[i - 1] \o seqs[i]

IsFlat(g, seqs, L) == g = [i \in 1..L |-> Flat(g, seqs, i)]

LEMMA FlatExists ==
    ASSUME NEW seqs, NEW L \in Nat
    PROVE  \E g : IsFlat(g, seqs, L)
<1> DEFINE T == {l \in Nat : \E g : IsFlat(g, seqs, l)}
<1>1. 0 \in T
  <2> DEFINE g == [i \in 1..0 |-> <<>>]
  <2>1. IsFlat(g, seqs, 0)
    BY DEF IsFlat
  <2> HIDE DEF g
  <2> QED BY <2>1
<1>2. ASSUME NEW l \in Nat, l \in T PROVE l + 1 \in T
  <2>1. PICK g : IsFlat(g, seqs, l)
    BY <1>2
  <2> DEFINE k == [i \in 1..(l + 1) |-> IF i = l + 1 THEN Flat(g, seqs, i) ELSE g[i]]
  <2>2. ASSUME NEW i \in 1..(l + 1) PROVE k[i] = Flat(k, seqs, i)
    <3>1. i # 1 => k[i - 1] = g[i - 1]
      OBVIOUS
    <3>2. Flat(k, seqs, i) = Flat(g, seqs, i)
      BY <3>1 DEF Flat
    <3>3. i # l + 1 => g[i] = Flat(g, seqs, i)
      BY <2>1 DEF IsFlat
    <3> QED BY <3>2, <3>3
  <2>3. IsFlat(k, seqs, l + 1)
    BY <2>2 DEF IsFlat
  <2> HIDE DEF k
  <2>4. l + 1 \in Nat
    OBVIOUS
  <2> QED BY <2>3, <2>4
<1> HIDE DEF T
<1>3. Nat \subseteq T
  BY <1>1, <1>2, NatSetInduction
<1> QED BY <1>3 DEF T

LEMMA FlattenIsFlat ==
    ASSUME NEW seqs, Len(seqs) \in Nat, Len(seqs) # 0
    PROVE  \E g : IsFlat(g, seqs, Len(seqs)) /\ FlattenSeq(seqs) = g[Len(seqs)]
<1> DEFINE g == CHOOSE f : IsFlat(f, seqs, Len(seqs))
<1>1. FlattenSeq(seqs) = g[Len(seqs)]
  BY Zenon DEF FlattenSeq, IsFlat, Flat
<1>2. \E f : IsFlat(f, seqs, Len(seqs))
  BY FlatExists
<1>3. IsFlat(g, seqs, Len(seqs))
  BY <1>2, Zenon
<1> QED BY <1>1, <1>3

LEMMA FlattenAppend ==
    ASSUME NEW S, NEW seqs \in Seq(Seq(S)), NEW x \in Seq(S)
    PROVE  /\ FlattenSeq(seqs) \in Seq(S)
           /\ FlattenSeq(Append(seqs, x)) = FlattenSeq(seqs) \o x
<1> DEFINE n == Len(seqs)
           u == Append(seqs, x)
<1>1. /\ n \in Nat /\ Len(u) = n + 1 /\ u[n + 1] = x
      /\ \A i \in 1..n : u[i] = seqs[i] /\ seqs[i] \in Seq(S)
  BY LenProperties, ElementOfSeq, AppendProperties
<1>2. CASE n = 0
  <2>1. seqs = <<>>
    BY <1>2, EmptySeq
  <2>2. FlattenSeq(seqs) = <<>>
    BY <2>1, <1>2, Zenon DEF FlattenSeq
  <2>3. PICK g : IsFlat(g, u, Len(u)) /\ FlattenSeq(u) = g[Len(u)]
    <3>1. Len(u) \in Nat /\ Len(u) # 0
      BY <1>1
    <3> HIDE DEF u
    <3> QED BY <3>1, FlattenIsFlat
  <2>4. FlattenSeq(u) = x
    BY <1>1, <1>2, <2>3 DEF IsFlat, Flat
  <2>5. <<>> \o x = x
    BY ConcatEmptySeq
  <2> QED BY <2>2, <2>4, <2>5
<1>3. CASE n # 0
  <2>1. PICK f : IsFlat(f, seqs, n) /\ FlattenSeq(seqs) = f[n]
    BY <1>1, <1>3, FlattenIsFlat
  <2>2. PICK g : IsFlat(g, u, n + 1) /\ FlattenSeq(u) = g[n + 1]
    <3>1. Len(u) \in Nat /\ Len(u) # 0
      BY <1>1
    <3>2. \E g : IsFlat(g, u, Len(u)) /\ FlattenSeq(u) = g[Len(u)]
      BY <3>1, FlattenIsFlat
    <3> QED BY <3>2, <1>1
  <2> DEFINE T == {i \in 0..n : i = 0 \/ (f[i] = g[i] /\ f[i] \in Seq(S))}
  <2>3. ASSUME NEW i \in 0..(n - 1), i \in T PROVE i + 1 \in T
    <3>0. /\ i + 1 \in 1..n /\ i + 1 \in 1..(n + 1) /\ (i + 1) - 1 = i
          /\ i # 0 => i + 1 # 1
      BY <1>1
    <3>1. f[i + 1] = Flat(f, seqs, i + 1) /\ g[i + 1] = Flat(g, u, i + 1)
      BY <2>1, <2>2, <3>0 DEF IsFlat
    <3>2. CASE i = 0
      BY <3>1, <3>2, <1>1 DEF Flat
    <3>3. CASE i # 0
      <4>1. f[i] = g[i] /\ f[i] \in Seq(S) /\ seqs[i + 1] \in Seq(S) /\ u[i + 1] = seqs[i + 1]
        BY <2>3, <3>3, <1>1, <3>0
      <4>2. f[i + 1] = f[i] \o seqs[i + 1] /\ g[i + 1] = g[i] \o seqs[i + 1]
        BY <3>1, <3>3, <4>1, <3>0 DEF Flat
      <4>3. PICK a, b : a = f[i] /\ b = seqs[i + 1]
        OBVIOUS
      <4>4. a \o b \in Seq(S)
        BY <4>1, <4>3, ConcatProperties
      <4>5. f[i + 1] = a \o b /\ g[i + 1] = a \o b
        BY <4>1, <4>2, <4>3
      <4>6. i + 1 \in 0..n
        BY <3>0
      <4> QED BY <4>4, <4>5, <4>6
    <3> QED BY <3>2, <3>3
  <2>4. 0 \in T
    BY <1>1
  <2>5. n \in T
    <3> HIDE DEF T
    <3>1. n \in Nat /\ n \in 0..n
      BY <1>1
    <3>2. 0..n \subseteq T
      BY <2>3, <2>4, <3>1, UpToInduction
    <3> HIDE DEF n
    <3> QED BY <3>1, <3>2, Zenon
  <2>6. g[n + 1] = g[n] \o x
    <3>1. n + 1 \in 1..(n + 1) /\ n + 1 # 1 /\ (n + 1) - 1 = n
      BY <1>1, <1>3
    <3>2. g[n + 1] = Flat(g, u, n + 1)
      BY <3>1, <2>2 DEF IsFlat
    <3> QED BY <3>1, <3>2, <1>1 DEF Flat
  <2> QED BY <2>1, <2>2, <2>5, <2>6, <1>3
<1> QED BY <1>2, <1>3

LEMMA FlattenNone == FlattenSeq(<<>>) = <<>>
<1>1. Len(<<>>) = 0
  OBVIOUS
<1> QED BY <1>1, Zenon DEF FlattenSeq

=============================================================================
