--------------------------- MODULE SelectionsProofs ---------------------------
(***************************************************************************)
(* What Selected returns for every sequence.  Inductions over a length are *)
(* arguments about the least number for which a claim fails.               *)
(***************************************************************************)
EXTENDS Selections, SequenceTheorems, WellFoundedInduction, TLAPS

\* Every set of natural numbers that is not empty has a least element.
LEMMA LeastExists ==
    ASSUME NEW T \in SUBSET Nat, T # {}
    PROVE  \E n \in T : \A m \in T : n <= m
<1>1. \E n \in T : \A m \in T : ~(m < n)
  <2>1. \E n \in T : \A m \in T : ~(<<m, n>> \in OpToRel(<, Nat))
    BY WFMin, NatLessThanWellFounded
  <2> QED
    BY <2>1, Zenon DEF OpToRel
<1> QED
  BY <1>1

\* A set of natural numbers that is not empty and has a bound has a greatest one.
LEMMA GreatestExists ==
    ASSUME NEW m \in Nat, NEW T \in SUBSET (0..m), T # {}
    PROVE  \E n \in T : \A k \in T : k <= n
<1> DEFINE U == {n \in 0..m : m - n \in T}
<1>1. U # {}
  <2>1. PICK k \in T : TRUE
    OBVIOUS
  <2>2. m - (m - k) = k /\ m - k \in 0..m
    BY <2>1
  <2>3. m - k \in U
    BY <2>2
  <2> QED
    BY <2>3
<1>2. PICK n \in U : \A k \in U : n <= k
  <2>1. U \in SUBSET Nat
    OBVIOUS
  <2> HIDE DEF U
  <2> QED
    BY <1>1, <2>1, LeastExists
<1>3. ASSUME NEW k \in T PROVE k <= m - n
  <2>1. m - (m - k) = k /\ m - k \in 0..m
    OBVIOUS
  <2>2. m - k \in U
    BY <2>1
  <2>3. n <= m - k /\ n \in 0..m /\ k \in 0..m
    BY <1>2, <2>2
  <2> HIDE DEF U
  <2> QED
    BY <2>3, Z3
<1> QED
  BY <1>2, <1>3

\* A set of natural numbers that holds 0 and, with n, n + 1, holds all of them.
LEMMA Inductive ==
    ASSUME NEW T, 0 \in T, \A n \in Nat : n \in T => n + 1 \in T
    PROVE  Nat \subseteq T
<1> SUFFICES ASSUME Nat \ T # {} PROVE FALSE
  OBVIOUS
<1>1. PICK n \in Nat \ T : \A m \in Nat \ T : n <= m
  BY LeastExists
<1>2. n # 0 /\ n - 1 \in Nat
  BY <1>1
<1>3. n - 1 \in T
  BY <1>1, <1>2
<1> QED
  BY <1>1, <1>2, <1>3

-------------------------------------------------------------------------------
\* U gives the selection from every prefix of s up to length m.
SelectedUpTo(s, S, U, m) ==
    U = [n \in 0..m |-> IF n = 0 THEN <<>>
                        ELSE IF s[n] \in S THEN Append(U[n - 1], s[n])
                        ELSE U[n - 1]]

LEMMA PrefixesExist ==
    ASSUME NEW s, NEW S, NEW m \in Nat
    PROVE  \E U : SelectedUpTo(s, S, U, m)
<1> DEFINE T == {n \in Nat : \E U : SelectedUpTo(s, S, U, n)}
<1>1. 0 \in T
  <2> DEFINE U == [n \in 0..0 |-> <<>>]
  <2>1. SelectedUpTo(s, S, U, 0)
    BY DEF SelectedUpTo
  <2> QED
    BY <2>1
<1>2. ASSUME NEW n \in Nat, n \in T PROVE n + 1 \in T
  <2>1. PICK U : SelectedUpTo(s, S, U, n)
    BY <1>2
  <2> DEFINE next == IF s[n + 1] \in S THEN Append(U[n], s[n + 1]) ELSE U[n]
             V == [i \in 0..(n + 1) |-> IF i = n + 1 THEN next ELSE U[i]]
  <2>2. V[n + 1] = next /\ \A i \in 0..n : V[i] = U[i]
    OBVIOUS
  <2>3. \A i \in 0..(n + 1) :
            V[i] = IF i = 0 THEN <<>>
                   ELSE IF s[i] \in S THEN Append(V[i - 1], s[i]) ELSE V[i - 1]
    <3> SUFFICES ASSUME NEW i \in 0..(n + 1)
                 PROVE  V[i] = IF i = 0 THEN <<>>
                               ELSE IF s[i] \in S THEN Append(V[i - 1], s[i]) ELSE V[i - 1]
      OBVIOUS
    <3> HIDE DEF V
    <3>1. CASE i = n + 1
      BY <2>2, <3>1
    <3>2. CASE i \in 0..n
      <4>1. U[i] = IF i = 0 THEN <<>>
                   ELSE IF s[i] \in S THEN Append(U[i - 1], s[i]) ELSE U[i - 1]
        BY <2>1, <3>2 DEF SelectedUpTo
      <4>2. i # 0 => i - 1 \in 0..n
        BY <3>2
      <4> QED
        BY <2>2, <3>2, <4>1, <4>2
    <3> QED
      BY <3>1, <3>2
  <2>4. V = [i \in 0..(n + 1) |-> V[i]]
    OBVIOUS
  <2> HIDE DEF V
  <2>5. SelectedUpTo(s, S, V, n + 1)
    BY <2>3, <2>4 DEF SelectedUpTo
  <2> QED
    BY <2>5
<1> HIDE DEF T
<1>3. m \in T
  BY <1>1, <1>2, Inductive
<1> QED
  BY <1>3 DEF T

LEMMA PrefixesOfSelected ==
    ASSUME NEW s, NEW S, Len(s) \in Nat
    PROVE  \E U : SelectedUpTo(s, S, U, Len(s)) /\ Selected(s, S) = U[Len(s)]
<1> DEFINE upTo == CHOOSE U : SelectedUpTo(s, S, U, Len(s))
<1>1. SelectedUpTo(s, S, upTo, Len(s))
  BY PrefixesExist, Zenon
<1>2. Selected(s, S) = upTo[Len(s)]
  BY Zenon DEF Selected, SelectedUpTo
<1> QED
  BY <1>1, <1>2, Zenon

LEMMA PrefixesAgree ==
    ASSUME NEW s, NEW r, NEW S, NEW m \in Nat, NEW k \in Nat, m <= k,
           \A i \in 1..m : s[i] = r[i],
           NEW U, SelectedUpTo(s, S, U, m), NEW V, SelectedUpTo(r, S, V, k)
    PROVE  \A i \in 0..m : U[i] = V[i]
<1> DEFINE T == {i \in 0..m : U[i] # V[i]}
<1> SUFFICES ASSUME T # {} PROVE FALSE
  OBVIOUS
<1> T \in SUBSET Nat
  OBVIOUS
<1>1. PICK i \in T : \A j \in T : i <= j
  <2> HIDE DEF T
  <2> QED
    BY LeastExists
<1>2. i \in 0..m /\ U[i] # V[i] /\ \A j \in 0..m : j < i => U[j] = V[j]
  BY <1>1
<1>3. U[i] = IF i = 0 THEN <<>> ELSE IF s[i] \in S THEN Append(U[i - 1], s[i]) ELSE U[i - 1]
  BY <1>2 DEF SelectedUpTo
<1>4. V[i] = IF i = 0 THEN <<>> ELSE IF r[i] \in S THEN Append(V[i - 1], r[i]) ELSE V[i - 1]
  <2>1. i \in 0..k
    BY <1>2
  <2> QED
    BY <2>1 DEF SelectedUpTo
<1>5. i # 0 => U[i - 1] = V[i - 1]
  BY <1>2
<1> QED
  BY <1>2, <1>3, <1>4, <1>5
-------------------------------------------------------------------------------
LEMMA SelectedEmpty == \A S : Selected(<<>>, S) = <<>>
<1> SUFFICES ASSUME NEW S PROVE Selected(<<>>, S) = <<>>
  OBVIOUS
<1>1. PICK U : SelectedUpTo(<<>>, S, U, 0) /\ Selected(<<>>, S) = U[0]
  BY PrefixesOfSelected
<1> QED
  BY <1>1 DEF SelectedUpTo

LEMMA SelectedAppend ==
    ASSUME NEW X, NEW s \in Seq(X), NEW e \in X, NEW S
    PROVE  Selected(Append(s, e), S) =
              IF e \in S THEN Append(Selected(s, S), e) ELSE Selected(s, S)
<1> DEFINE r == Append(s, e)
           m == Len(s)
<1>1. /\ m \in Nat /\ r \in Seq(X) /\ Len(r) = m + 1 /\ r[m + 1] = e
      /\ \A i \in 1..m : s[i] = r[i]
  BY AppendProperties
<1>2. PICK U : SelectedUpTo(s, S, U, m) /\ Selected(s, S) = U[m]
  BY <1>1, PrefixesOfSelected
<1> HIDE DEF r, m
<1>3. PICK V : SelectedUpTo(r, S, V, m + 1) /\ Selected(r, S) = V[m + 1]
  <2>1. Len(r) = m + 1 /\ Len(r) \in Nat
    BY <1>1
  <2> QED
    BY <2>1, PrefixesOfSelected
<1>4. V[m] = U[m]
  <2>1. m + 1 \in Nat /\ m <= m + 1 /\ m \in 0..m
    BY <1>1
  <2>2. \A i \in 0..m : U[i] = V[i]
    BY <1>1, <1>2, <1>3, <2>1, PrefixesAgree
  <2> QED
    BY <2>1, <2>2
<1>5. V[m + 1] = IF e \in S THEN Append(V[m], e) ELSE V[m]
  <2>1. m + 1 \in 0..(m + 1) /\ m + 1 # 0 /\ (m + 1) - 1 = m
    BY <1>1
  <2> QED
    BY <1>1, <1>3, <2>1 DEF SelectedUpTo
<1> QED
  BY <1>2, <1>3, <1>4, <1>5 DEF r

\* The l entries of r are what s has in S among its first m entries: entry k of r is
\* the entry at position pos[k], the positions rise, and none is left out.
Positions(s, S, r, l, m, pos) ==
    /\ pos \in [1..l -> 1..m]
    /\ \A k \in 1..l : r[k] = s[pos[k]]
    /\ \A k, j \in 1..l : k < j => pos[k] < pos[j]
    /\ \A n \in 1..m : s[n] \in S => \E k \in 1..l : pos[k] = n

Enumerates(s, S, r, m) == r \in Seq(S) /\ \E pos : Positions(s, S, r, Len(r), m, pos)

LEMMA EnumeratesMore ==
    ASSUME NEW s, NEW S, NEW r, NEW m \in Nat, Enumerates(s, S, r, m), s[m + 1] \in S
    PROVE  Enumerates(s, S, Append(r, s[m + 1]), m + 1)
<1> DEFINE q == Append(r, s[m + 1])
           l == Len(r)
<1>1. r \in Seq(S) /\ l \in Nat
  BY DEF Enumerates
<1>2. /\ q \in Seq(S) /\ Len(q) = l + 1 /\ q[l + 1] = s[m + 1]
      /\ \A k \in 1..l : q[k] = r[k]
  BY <1>1, AppendProperties
<1>3. PICK pos : Positions(s, S, r, l, m, pos)
  BY DEF Enumerates
<1> HIDE DEF q, l
<1> DEFINE more == [k \in 1..(l + 1) |-> IF k = l + 1 THEN m + 1 ELSE pos[k]]
<1>4. more[l + 1] = m + 1 /\ \A k \in 1..l : more[k] = pos[k]
  BY <1>1
<1>5. more \in [1..(l + 1) -> 1..(m + 1)]
  BY <1>1, <1>3 DEF Positions
<1> HIDE DEF more
<1>6. \A k \in 1..(l + 1) : k = l + 1 \/ k \in 1..l
  BY <1>1
<1>7. \A k \in 1..(l + 1) : q[k] = s[more[k]]
  BY <1>2, <1>3, <1>4, <1>6 DEF Positions
<1>8. ASSUME NEW k \in 1..(l + 1), NEW j \in 1..(l + 1), k < j PROVE more[k] < more[j]
  <2>1. k \in 1..l
    BY <1>1, <1>8
  <2>2. CASE j = l + 1
    <3>1. pos[k] \in 1..m
      BY <1>3, <2>1 DEF Positions
    <3> QED
      BY <1>4, <2>1, <2>2, <3>1
  <2>3. CASE j \in 1..l
    BY <1>3, <1>4, <1>8, <2>1, <2>3 DEF Positions
  <2> QED
    BY <1>6, <2>2, <2>3
<1>9. ASSUME NEW n \in 1..(m + 1), s[n] \in S PROVE \E k \in 1..(l + 1) : more[k] = n
  <2>1. CASE n = m + 1
    <3>1. l + 1 \in 1..(l + 1)
      BY <1>1
    <3> QED
      BY <1>4, <2>1, <3>1
  <2>2. CASE n \in 1..m
    <3>1. PICK k \in 1..l : pos[k] = n
      BY <1>3, <1>9, <2>2 DEF Positions
    <3>2. k \in 1..(l + 1)
      BY <1>1
    <3> QED
      BY <1>4, <3>1, <3>2
  <2> QED
    BY <2>1, <2>2
<1>10. Positions(s, S, q, l + 1, m + 1, more)
  BY <1>5, <1>7, <1>8, <1>9 DEF Positions
<1> QED
  BY <1>2, <1>10 DEF Enumerates, q

LEMMA EnumeratesOn ==
    ASSUME NEW s, NEW S, NEW r, NEW m \in Nat, Enumerates(s, S, r, m), s[m + 1] \notin S
    PROVE  Enumerates(s, S, r, m + 1)
<1>1. r \in Seq(S) /\ Len(r) \in Nat
  BY DEF Enumerates
<1>2. PICK pos : Positions(s, S, r, Len(r), m, pos)
  BY DEF Enumerates
<1>3. pos \in [1..Len(r) -> 1..(m + 1)]
  BY <1>2 DEF Positions
<1>4. ASSUME NEW n \in 1..(m + 1), s[n] \in S PROVE \E k \in 1..Len(r) : pos[k] = n
  <2>1. n \in 1..m
    BY <1>4
  <2> QED
    BY <1>2, <1>4, <2>1 DEF Positions
<1>5. Positions(s, S, r, Len(r), m + 1, pos)
  BY <1>2, <1>3, <1>4 DEF Positions
<1> QED
  BY <1>1, <1>5 DEF Enumerates

LEMMA SelectedEnumerates ==
    ASSUME NEW s, NEW S, Len(s) \in Nat
    PROVE  Enumerates(s, S, Selected(s, S), Len(s))
<1> DEFINE m == Len(s)
<1>1. PICK U : SelectedUpTo(s, S, U, m) /\ Selected(s, S) = U[m]
  BY PrefixesOfSelected
<1> HIDE DEF m
<1> DEFINE T == {n \in Nat : n <= m => Enumerates(s, S, U[n], n)}
<1> m \in Nat
  BY DEF m
<1>2. 0 \in T
  <2>1. U[0] = <<>>
    BY <1>1 DEF SelectedUpTo
  <2>2. Enumerates(s, S, <<>>, 0)
    <3>1. <<>> \in [1..0 -> 1..0] /\ <<>> \in Seq(S) /\ Len(<<>>) = 0
      BY EmptySeq
    <3>2. Positions(s, S, <<>>, 0, 0, <<>>)
      BY <3>1 DEF Positions
    <3> QED
      BY <3>1, <3>2 DEF Enumerates
  <2> QED
    BY <2>1, <2>2
<1>3. ASSUME NEW n \in Nat, n \in T PROVE n + 1 \in T
  <2> SUFFICES ASSUME n + 1 <= m PROVE Enumerates(s, S, U[n + 1], n + 1)
    OBVIOUS
  <2>1. Enumerates(s, S, U[n], n)
    BY <1>3
  <2>2. U[n + 1] = IF s[n + 1] \in S THEN Append(U[n], s[n + 1]) ELSE U[n]
    <3>1. n + 1 \in 0..m /\ n + 1 # 0 /\ (n + 1) - 1 = n
      OBVIOUS
    <3> QED
      BY <1>1, <3>1 DEF SelectedUpTo
  <2> QED
    BY <2>1, <2>2, EnumeratesMore, EnumeratesOn
<1> HIDE DEF T
<1>4. m \in T
  BY <1>2, <1>3, Inductive
<1> QED
  BY <1>1, <1>4 DEF T, m

LEMMA SelectedType ==
    ASSUME NEW X, NEW s \in Seq(X), NEW S
    PROVE  Selected(s, S) \in Seq(X \cap S)
<1> DEFINE r == Selected(s, S)
<1>1. Len(s) \in Nat /\ \A n \in 1..Len(s) : s[n] \in X
  OBVIOUS
<1>2. Enumerates(s, S, r, Len(s))
  BY <1>1, SelectedEnumerates
<1> HIDE DEF r
<1>3. r \in Seq(S) /\ Len(r) \in Nat /\ r = [k \in 1..Len(r) |-> r[k]]
  BY <1>2 DEF Enumerates
<1>4. ASSUME NEW k \in 1..Len(r) PROVE r[k] \in X \cap S
  BY <1>1, <1>2, <1>3, <1>4 DEF Enumerates, Positions
<1> QED
  BY <1>3, <1>4, IsASeq DEF r

\* Nothing is selected if nothing lies in the set, and everything if everything does.
LEMMA SelectedNone ==
    ASSUME NEW s, NEW S, Len(s) \in Nat, \A n \in 1..Len(s) : s[n] \notin S
    PROVE  Selected(s, S) = <<>>
<1> DEFINE r == Selected(s, S)
<1>1. Enumerates(s, S, r, Len(s))
  BY SelectedEnumerates
<1> HIDE DEF r
<1>2. r \in Seq(S) /\ \E pos : Positions(s, S, r, Len(r), Len(s), pos)
  BY <1>1 DEF Enumerates
<1>3. ASSUME Len(r) # 0 PROVE FALSE
  <2>1. 1 \in 1..Len(r) /\ r[1] \in S
    BY <1>2, <1>3
  <2>2. PICK pos : Positions(s, S, r, Len(r), Len(s), pos)
    BY <1>2
  <2>3. pos[1] \in 1..Len(s) /\ r[1] = s[pos[1]]
    BY <2>1, <2>2 DEF Positions
  <2> QED
    BY <2>1, <2>3
<1> QED
  BY <1>2, <1>3, EmptySeq DEF r

LEMMA SelectedAll ==
    ASSUME NEW X, NEW s \in Seq(X), NEW S, \A n \in 1..Len(s) : s[n] \in S
    PROVE  Selected(s, S) = s
<1> DEFINE m == Len(s)
<1> m \in Nat /\ \A n \in 1..m : s[n] \in X /\ s[n] \in S
  OBVIOUS
<1>1. PICK U : SelectedUpTo(s, S, U, m) /\ Selected(s, S) = U[m]
  BY PrefixesOfSelected
<1> HIDE DEF m
<1> DEFINE T == {n \in Nat : n <= m => /\ U[n] \in Seq(X) /\ Len(U[n]) = n
                                       /\ \A k \in 1..n : U[n][k] = s[k]}
<1>2. 0 \in T
  <2>1. U[0] = <<>>
    BY <1>1 DEF SelectedUpTo
  <2>2. U[0] \in Seq(X) /\ Len(U[0]) = 0 /\ 1..0 = {}
    BY <2>1, EmptySeq
  <2> QED
    BY <2>2
<1>3. ASSUME NEW n \in Nat, n \in T PROVE n + 1 \in T
  <2> SUFFICES ASSUME n + 1 <= m
               PROVE  /\ U[n + 1] \in Seq(X) /\ Len(U[n + 1]) = n + 1
                      /\ \A k \in 1..(n + 1) : U[n + 1][k] = s[k]
    OBVIOUS
  <2>1. U[n] \in Seq(X) /\ Len(U[n]) = n /\ \A k \in 1..n : U[n][k] = s[k]
    BY <1>3
  <2>2. U[n + 1] = Append(U[n], s[n + 1])
    <3>1. n + 1 \in 0..m /\ n + 1 # 0 /\ (n + 1) - 1 = n /\ s[n + 1] \in S
      OBVIOUS
    <3> QED
      BY <1>1, <3>1 DEF SelectedUpTo
  <2>3. s[n + 1] \in X
    OBVIOUS
  <2> HIDE DEF T
  <2> QED
    BY <2>1, <2>2, <2>3, AppendProperties
<1> HIDE DEF T
<1>4. m \in T
  BY <1>2, <1>3, Inductive
<1>5. U[m] \in Seq(X) /\ Len(U[m]) = m /\ \A k \in 1..m : U[m][k] = s[k]
  BY <1>4 DEF T
<1> QED
  BY <1>1, <1>5, SeqEqual DEF m
===============================================================================
