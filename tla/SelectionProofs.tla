--------------------------- MODULE SelectionProofs ---------------------------
(***************************************************************************)
(* What Selected returns, for every sequence and every set of positions,   *)
(* and what Descending returns, for any number of keys.                    *)
(* The library's induction theorems take an operator as a parameter; here  *)
(* induction is by a least counterexample, which is a fact about sets.     *)
(***************************************************************************)
EXTENDS Selection, WellFoundedInduction, FiniteSetTheorems, TLAPS

\* A set of natural numbers that is not empty has a least element.
LEMMA LeastNat ==
  ASSUME NEW T, T \subseteq Nat, T # {}
  PROVE  \E n \in T : \A m \in T : n <= m
<1> DEFINE R == {p \in Nat \X Nat : p[1] < p[2]}
<1>1. IsWellFoundedOn(R, Nat)
  BY NatLessThanWellFounded DEF OpToRel
<1>2. \E n \in T : \A m \in T : <<m, n>> \notin R
  <2> HIDE DEF R
  <2> QED BY <1>1, WFMin
<1>3. PICK n \in T : \A m \in T : <<m, n>> \notin R
  BY <1>2
<1>4. \A m \in T : ~(m < n)
  BY <1>3
<1>5. QED
  BY <1>4

\* Induction over the numbers up to a bound: a set that has 0 and with each
\* number the next one has them all.
LEMMA UpToInduction ==
  ASSUME NEW n \in Nat, NEW T, 0 \in T,
         \A k \in 0..(n - 1) : k \in T => k + 1 \in T
  PROVE  0..n \subseteq T
<1> SUFFICES ASSUME (0..n) \ T # {}
             PROVE  FALSE
  OBVIOUS
<1> DEFINE U == (0..n) \ T
<1>1. PICK k \in U : \A m \in U : k <= m
  <2>1. U \subseteq Nat /\ U # {}
    OBVIOUS
  <2> HIDE DEF U
  <2>2. QED
    BY <2>1, LeastNat
<1>2. k # 0
  BY <1>1
<1>3. k - 1 \in T
  BY <1>1, <1>2
<1>4. QED
  BY <1>1, <1>2, <1>3

\* The equation of the recursive definition: there is such a function for the
\* first n elements, for every n, and so for the whole sequence.
LEMMA SelectedUpToDef ==
  ASSUME NEW S, NEW s \in Seq(S), NEW P
  PROVE  SelectedUpTo(s, P) =
           [k \in 0..Len(s) |->
              IF k = 0 THEN <<>>
              ELSE IF k \in P THEN Append(SelectedUpTo(s, P)[k - 1], s[k])
                              ELSE SelectedUpTo(s, P)[k - 1]]
<1> DEFINE Next(f, k) == IF k = 0 THEN <<>>
                         ELSE IF k \in P THEN Append(f[k - 1], s[k]) ELSE f[k - 1]
           T == {n \in 0..Len(s) : \E f : f = [k \in 0..n |-> Next(f, k)]}
<1>1. 0 \in T
  <2> DEFINE f == [k \in 0..0 |-> <<>>]
  <2>1. \A k \in 0..0 : k = 0
    OBVIOUS
  <2>2. \A k \in 0..0 : <<>> = Next(f, k)
    BY <2>1
  <2>3. f = [k \in 0..0 |-> Next(f, k)]
    <3> HIDE DEF Next
    <3> QED BY <2>2
  <2>4. 0 \in 0..Len(s)
    OBVIOUS
  <2> HIDE DEF f
  <2>5. QED
    BY <2>3, <2>4
<1>2. ASSUME NEW n \in 0..(Len(s) - 1), n \in T
      PROVE  n + 1 \in T
  <2>1. PICK f : f = [k \in 0..n |-> Next(f, k)]
    BY <1>2
  <2> DEFINE g == [k \in 0..(n + 1) |-> IF k = n + 1 THEN Next(f, n + 1) ELSE f[k]]
  <2>2. \A k \in 0..n : g[k] = f[k]
    OBVIOUS
  <2>3. \A k \in 0..(n + 1) : g[k] = Next(g, k)
    <3>1. \A k \in 0..n : f[k] = Next(f, k)
      BY <2>1
    <3>2. \A k \in 0..n : Next(f, k) = Next(g, k)
      BY <2>2
    <3>3. Next(f, n + 1) = Next(g, n + 1)
      BY <2>2
    <3>4. QED
      BY <3>1, <3>2, <3>3, <2>2
  <2>4. g = [k \in 0..(n + 1) |-> Next(g, k)]
    <3>1. g = [k \in 0..(n + 1) |-> g[k]]
      OBVIOUS
    <3> HIDE DEF g
    <3> QED BY <2>3, <3>1
  <2>5. n + 1 \in 0..Len(s)
    OBVIOUS
  <2> HIDE DEF g
  <2>6. QED
    BY <2>4, <2>5
<1>3. Len(s) \in T
  <2> HIDE DEF T
  <2>1. 0..Len(s) \subseteq T
    BY <1>1, <1>2, UpToInduction
  <2>2. QED
    BY <2>1
<1>4. PICK f : f = [k \in 0..Len(s) |-> Next(f, k)]
  BY <1>3
<1>5. QED
  BY <1>4, Zenon DEF SelectedUpTo

\* Each element of s adds itself to what is selected, or nothing.
LEMMA SelectedSteps ==
  ASSUME NEW S, NEW s \in Seq(S), NEW P
  PROVE  /\ SelectedUpTo(s, P)[0] = <<>>
         /\ \A n \in 0..(Len(s) - 1) :
              SelectedUpTo(s, P)[n + 1] =
                IF n + 1 \in P THEN Append(SelectedUpTo(s, P)[n], s[n + 1])
                               ELSE SelectedUpTo(s, P)[n]
<1> DEFINE Up == SelectedUpTo(s, P)
           Body(k) == IF k = 0 THEN <<>>
                      ELSE IF k \in P THEN Append(Up[k - 1], s[k]) ELSE Up[k - 1]
<1>1. Up = [k \in 0..Len(s) |-> Body(k)]
  BY SelectedUpToDef
<1> HIDE DEF Up, Body
<1>2. \A k \in 0..Len(s) : Up[k] = Body(k)
  BY <1>1
<1>3. 0 \in 0..Len(s) /\ \A n \in 0..(Len(s) - 1) : n + 1 \in 0..Len(s) /\ n + 1 # 0
                                                  /\ (n + 1) - 1 = n
  OBVIOUS
<1>4. Up[0] = <<>> /\ \A n \in 0..(Len(s) - 1) :
        Up[n + 1] = IF n + 1 \in P THEN Append(Up[n], s[n + 1]) ELSE Up[n]
  BY <1>2, <1>3 DEF Body
<1>5. QED
  BY <1>4 DEF Up

\* r consists of the elements of s at those of its first n positions that are
\* in P; f tells from which position each of them came.
Picks(f, r, s, P, n) ==
  /\ f \in [1..Len(r) -> 1..n]
  /\ \A j \in 1..Len(r) : f[j] \in P /\ r[j] = s[f[j]]
  /\ \A i, j \in 1..Len(r) : i < j => f[i] < f[j]
  /\ \A k \in 1..n : k \in P => \E j \in 1..Len(r) : f[j] = k

\* Selecting takes exactly the positions in P, and takes them in order.
LEMMA SelectedPicks ==
  ASSUME NEW S, NEW s \in Seq(S), NEW P
  PROVE  /\ Selected(s, P) \in Seq(S)
         /\ \E f : Picks(f, Selected(s, P), s, P, Len(s))
<1> DEFINE Up == SelectedUpTo(s, P)
           T == {n \in 0..Len(s) : Up[n] \in Seq(S) /\ \E f : Picks(f, Up[n], s, P, n)}
<1>0. /\ Up[0] = <<>>
      /\ \A n \in 0..(Len(s) - 1) :
           Up[n + 1] = IF n + 1 \in P THEN Append(Up[n], s[n + 1]) ELSE Up[n]
  BY SelectedSteps
<1> HIDE DEF Up
<1>1. 0 \in T
  <2>1. Picks([j \in 1..0 |-> 1], <<>>, s, P, 0)
    BY DEF Picks
  <2>2. 0 \in 0..Len(s) /\ <<>> \in Seq(S)
    OBVIOUS
  <2>3. Up[0] \in Seq(S) /\ \E f : Picks(f, Up[0], s, P, 0)
    BY <2>1, <2>2, <1>0
  <2>4. QED
    BY <2>2, <2>3
<1>2. ASSUME NEW n \in 0..(Len(s) - 1), n \in T
      PROVE  n + 1 \in T
  <2>1. PICK f : Picks(f, Up[n], s, P, n)
    BY <1>2
  <2>2. Up[n] \in Seq(S) /\ n + 1 \in 0..Len(s) /\ s[n + 1] \in S
    BY <1>2
  <2>3. CASE n + 1 \notin P
    <3>1. Up[n + 1] = Up[n]
      BY <2>3, <1>0
    <3>2. Picks(f, Up[n], s, P, n + 1)
      BY <2>1, <2>3 DEF Picks
    <3>3. QED
      BY <2>2, <3>1, <3>2
  <2>4. CASE n + 1 \in P
    <3> DEFINE r == Up[n]
               q == Append(r, s[n + 1])
               g == [j \in 1..Len(q) |-> IF j <= Len(r) THEN f[j] ELSE n + 1]
    <3>1. Up[n + 1] = q
      BY <2>4, <1>0
    <3>2. r \in Seq(S)
      BY <2>2
    <3> HIDE DEF r
    <3>3. /\ q \in Seq(S)
          /\ Len(q) = Len(r) + 1 /\ Len(r) \in Nat
          /\ \A j \in 1..Len(r) : q[j] = r[j]
          /\ q[Len(q)] = s[n + 1]
      BY <2>2, <3>2
    <3>4. Picks(f, r, s, P, n)
      BY <2>1 DEF r
    <3> HIDE DEF q
    <3>5. /\ \A j \in 1..Len(r) : j \in 1..Len(q) /\ g[j] = f[j]
          /\ g[Len(q)] = n + 1
          /\ \A j \in 1..Len(q) : j \in 1..Len(r) \/ j = Len(q)
      BY <3>3
    <3>6. g \in [1..Len(q) -> 1..(n + 1)]
      BY <3>3, <3>4 DEF Picks
    <3>7. \A j \in 1..Len(q) : g[j] \in P /\ q[j] = s[g[j]]
      BY <3>3, <3>4, <3>5, <2>4 DEF Picks
    <3> HIDE DEF g
    <3>8. ASSUME NEW i \in 1..Len(q), NEW j \in 1..Len(q), i < j
          PROVE  g[i] < g[j]
      <4>1. i \in 1..Len(r) /\ g[i] = f[i] /\ f[i] \in 1..n
        BY <3>8, <3>5, <3>3, <3>4 DEF Picks
      <4>2. QED
        BY <4>1, <3>8, <3>5, <3>4, <3>3 DEF Picks
    <3>9. ASSUME NEW k \in 1..(n + 1), k \in P
          PROVE  \E j \in 1..Len(q) : g[j] = k
      <4>1. CASE k = n + 1
        BY <4>1, <3>5, <3>3
      <4>2. CASE k \in 1..n
        BY <4>2, <3>9, <3>5, <3>4 DEF Picks
      <4>3. QED
        BY <4>1, <4>2
    <3>10. Picks(g, q, s, P, n + 1)
      BY <3>6, <3>7, <3>8, <3>9 DEF Picks
    <3>11. QED
      BY <3>1, <3>3, <3>10, <2>2
  <2>5. QED
    BY <2>3, <2>4
<1>3. Len(s) \in T
  <2> HIDE DEF T
  <2>1. 0..Len(s) \subseteq T
    BY <1>1, <1>2, UpToInduction
  <2>2. QED
    BY <2>1
<1>4. QED
  BY <1>3 DEF Selected, Up

\* x and y are left of s and t: element for element from the same position.
Together(x, y, s, t, P) ==
  /\ Len(x) = Len(y) /\ Len(x) <= Len(s)
  /\ \A j \in 1..Len(x) : \E k \in (1..Len(s)) \cap P : x[j] = s[k] /\ y[j] = t[k]

\* Two sequences of one length from which the same positions are selected lose
\* the same elements.
LEMMA SelectedTogether ==
  ASSUME NEW S, NEW s \in Seq(S), NEW U, NEW t \in Seq(U), Len(s) = Len(t), NEW P
  PROVE  Together(Selected(s, P), Selected(t, P), s, t, P)
<1> DEFINE X == SelectedUpTo(s, P)
           Y == SelectedUpTo(t, P)
           Alike(n) ==
             /\ X[n] \in Seq(S) /\ Y[n] \in Seq(U)
             /\ Len(X[n]) = Len(Y[n]) /\ Len(X[n]) <= n
             /\ \A j \in 1..Len(X[n]) : \E k \in (1..n) \cap P : X[n][j] = s[k] /\ Y[n][j] = t[k]
           T == {n \in 0..Len(s) : Alike(n)}
<1>1. /\ X[0] = <<>> /\ Y[0] = <<>>
      /\ \A n \in 0..(Len(s) - 1) :
           /\ X[n + 1] = IF n + 1 \in P THEN Append(X[n], s[n + 1]) ELSE X[n]
           /\ Y[n + 1] = IF n + 1 \in P THEN Append(Y[n], t[n + 1]) ELSE Y[n]
  <2>1. \A n \in 0..(Len(t) - 1) :
          Y[n + 1] = IF n + 1 \in P THEN Append(Y[n], t[n + 1]) ELSE Y[n]
    BY SelectedSteps
  <2>2. \A n \in 0..(Len(s) - 1) :
          X[n + 1] = IF n + 1 \in P THEN Append(X[n], s[n + 1]) ELSE X[n]
    BY SelectedSteps
  <2>3. X[0] = <<>> /\ Y[0] = <<>>
    BY SelectedSteps
  <2> HIDE DEF X, Y
  <2>4. QED
    BY <2>1, <2>2, <2>3
<1> HIDE DEF X, Y
<1>2. 0 \in T
  <2>1. <<>> \in Seq(S) /\ <<>> \in Seq(U) /\ Len(<<>>) = 0 /\ 1..0 = {}
    OBVIOUS
  <2>2. Alike(0)
    BY <1>1, <2>1
  <2>3. QED
    BY <2>2
<1>3. ASSUME NEW n \in 0..(Len(s) - 1), n \in T
      PROVE  n + 1 \in T
  <2>1. /\ Alike(n) /\ n \in Nat /\ n + 1 \in 0..Len(s)
        /\ s[n + 1] \in S /\ t[n + 1] \in U
    <3>1. Alike(n) /\ n \in Nat
      BY <1>3
    <3>2. n + 1 \in 0..Len(s) /\ n + 1 \in 1..Len(s) /\ n + 1 \in 1..Len(t)
      BY <1>3
    <3>3. s[n + 1] \in S /\ t[n + 1] \in U
      BY <3>2
    <3>4. QED
      BY <3>1, <3>2, <3>3
  <2>2. CASE n + 1 \notin P
    <3>1. X[n + 1] = X[n] /\ Y[n + 1] = Y[n]
      BY <2>2, <1>1, <1>3
    <3>2. \A k \in (1..n) \cap P : k \in (1..(n + 1)) \cap P
      BY <2>1
    <3>3. QED
      BY <2>1, <3>1, <3>2
  <2>3. CASE n + 1 \in P
    <3> DEFINE x == X[n]
               y == Y[n]
    <3>1. X[n + 1] = Append(x, s[n + 1]) /\ Y[n + 1] = Append(y, t[n + 1])
      BY <2>3, <1>1
    <3>2. x \in Seq(S) /\ y \in Seq(U) /\ Len(x) = Len(y) /\ Len(x) <= n /\ Len(x) \in Nat
      BY <2>1
    <3>3. \A j \in 1..Len(x) : \E k \in (1..n) \cap P : x[j] = s[k] /\ y[j] = t[k]
      BY <2>1
    <3> HIDE DEF x, y
    <3>4. /\ X[n + 1] \in Seq(S) /\ Y[n + 1] \in Seq(U)
          /\ Len(X[n + 1]) = Len(x) + 1 /\ Len(Y[n + 1]) = Len(x) + 1
          /\ X[n + 1][Len(x) + 1] = s[n + 1] /\ Y[n + 1][Len(x) + 1] = t[n + 1]
          /\ \A j \in 1..Len(x) : X[n + 1][j] = x[j] /\ Y[n + 1][j] = y[j]
      BY <3>1, <3>2, <2>1
    <3>5. ASSUME NEW j \in 1..Len(X[n + 1])
          PROVE  \E k \in (1..(n + 1)) \cap P : X[n + 1][j] = s[k] /\ Y[n + 1][j] = t[k]
      <4>1. CASE j = Len(x) + 1
        BY <4>1, <3>4, <2>1, <2>3
      <4>2. CASE j \in 1..Len(x)
        BY <4>2, <3>3, <3>4, <2>1
      <4>3. QED
        BY <4>1, <4>2, <3>5, <3>4, <3>2
    <3>6. QED
      BY <3>2, <3>4, <3>5, <2>1
  <2>4. QED
    BY <2>2, <2>3
<1>4. Len(s) \in T
  <2> HIDE DEF Alike, T
  <2>0. Len(s) \in Nat /\ \A n \in 0..(Len(s) - 1) : n \in T => n + 1 \in T
    BY <1>3
  <2>1. 0..Len(s) \subseteq T
    BY <1>2, <2>0, UpToInduction
  <2>2. QED
    BY <2>1
<1>5. Selected(s, P) = X[Len(s)] /\ Selected(t, P) = Y[Len(s)]
  BY DEF Selected, X, Y
<1>6. QED
  <2>1. Alike(Len(s))
    BY <1>4
  <2>2. QED
    BY <2>1, <1>5 DEF Together

\* What is selected, as a set.
LEMMA SelectedElements ==
  ASSUME NEW S, NEW s \in Seq(S), NEW P
  PROVE  {Selected(s, P)[j] : j \in DOMAIN Selected(s, P)} = {s[k] : k \in DOMAIN s \cap P}
<1>1. PICK f : Picks(f, Selected(s, P), s, P, Len(s))
  BY SelectedPicks
<1>2. Selected(s, P) \in Seq(S)
  BY SelectedPicks
<1> DEFINE r == Selected(s, P)
<1> HIDE DEF r
<1>3. DOMAIN r = 1..Len(r) /\ DOMAIN s = 1..Len(s)
  BY <1>2 DEF r
<1>4. Picks(f, r, s, P, Len(s))
  BY <1>1 DEF r
<1>5. \A j \in DOMAIN r : f[j] \in DOMAIN s \cap P /\ r[j] = s[f[j]]
  BY <1>3, <1>4 DEF Picks
<1>6. \A k \in DOMAIN s \cap P : \E j \in DOMAIN r : r[j] = s[k]
  BY <1>3, <1>4 DEF Picks
<1>7. {r[j] : j \in DOMAIN r} = {s[k] : k \in DOMAIN s \cap P}
  BY <1>5, <1>6
<1>8. QED
  BY <1>7 DEF r

\* What is selected from a sequence without repetitions has none either.
LEMMA SelectedInjective ==
  ASSUME NEW S, NEW s \in Seq(S), NEW P,
         \A j, k \in DOMAIN s : s[j] = s[k] => j = k
  PROVE  \A j, k \in DOMAIN Selected(s, P) :
           Selected(s, P)[j] = Selected(s, P)[k] => j = k
<1> DEFINE r == Selected(s, P)
<1>1. r \in Seq(S)
  BY SelectedPicks
<1>2. PICK f : Picks(f, r, s, P, Len(s))
  BY SelectedPicks
<1> HIDE DEF r
<1>3. DOMAIN r = 1..Len(r) /\ DOMAIN s = 1..Len(s)
  BY <1>1
<1>4. ASSUME NEW j \in DOMAIN r, NEW k \in DOMAIN r, r[j] = r[k], j < k
      PROVE  FALSE
  <2>1. f[j] < f[k] /\ f[j] \in DOMAIN s /\ f[k] \in DOMAIN s /\ s[f[j]] = s[f[k]]
    BY <1>2, <1>3, <1>4 DEF Picks
  <2>2. f[j] = f[k]
    BY <2>1
  <2>3. QED
    BY <2>1, <2>2, <1>3
<1>5. QED
  <2>1. \A j, k \in DOMAIN r : r[j] = r[k] => j = k
    BY <1>3, <1>4
  <2>2. QED
    BY <2>1 DEF r

-----------------------------------------------------------------------------
(* Which sequence is selected, and what is sorted *)

\* Two ascending enumerations of the same numbers are the same enumeration.
Ascending(f, m) == \A i, j \in 1..m : i < j => f[i] < f[j]

LEMMA EnumerationsAgree ==
  ASSUME NEW m \in Nat, NEW n \in Nat,
         NEW f \in [1..m -> Nat], NEW g \in [1..n -> Nat],
         Ascending(f, m), Ascending(g, n),
         \A i \in 1..m : \E j \in 1..n : g[j] = f[i],
         \A j \in 1..n : \E i \in 1..m : f[i] = g[j]
  PROVE  m = n /\ f = g
<1> DEFINE T == {k \in Nat : k \in 1..m /\ k \in 1..n /\ f[k] # g[k]}
<1>1. T = {}
  <2> SUFFICES ASSUME T # {} PROVE FALSE
    OBVIOUS
  <2>1. T \subseteq Nat
    OBVIOUS
  <2>2. PICK k \in T : \A l \in T : k <= l
    <3> HIDE DEF T
    <3> QED BY <2>1, LeastNat
  <2>3. k \in 1..m /\ k \in 1..n /\ f[k] # g[k] /\ f[k] \in Nat /\ g[k] \in Nat
    BY <2>2
  <2>4. \A l \in 1..(k - 1) : f[l] = g[l]
    BY <2>2, <2>3
  <2> HIDE DEF T
  <2>5. CASE f[k] < g[k]
    <3>1. PICK j \in 1..n : g[j] = f[k]
      BY <2>3
    <3>2. ~(k < j)
      BY <3>1, <2>5, <2>3 DEF Ascending
    <3>3. j # k /\ j \in Nat /\ 1 <= j /\ j <= k
      BY <3>1, <3>2, <2>3
    <3>4. j \in 1..(k - 1) /\ j \in 1..m
      BY <3>3, <2>3
    <3>5. f[j] = f[k] /\ f[j] < f[k]
      BY <3>1, <3>3, <3>4, <2>3, <2>4 DEF Ascending
    <3>6. QED
      BY <3>5, <2>3
  <2>6. CASE g[k] < f[k]
    <3>1. PICK j \in 1..m : f[j] = g[k]
      BY <2>3
    <3>2. ~(k < j)
      BY <3>1, <2>6, <2>3 DEF Ascending
    <3>3. j # k /\ j \in Nat /\ 1 <= j /\ j <= k
      BY <3>1, <3>2, <2>3
    <3>4. j \in 1..(k - 1) /\ j \in 1..n
      BY <3>3, <2>3
    <3>5. g[j] = g[k] /\ g[j] < g[k]
      BY <3>1, <3>3, <3>4, <2>3, <2>4 DEF Ascending
    <3>6. QED
      BY <3>5, <2>3
  <2>7. QED
    BY <2>3, <2>5, <2>6
<1>2. \A k \in 1..m : k \in 1..n => f[k] = g[k]
  <2>1. \A k \in 1..m : k \in Nat
    OBVIOUS
  <2>2. QED
    BY <1>1, <2>1
<1>3. ~(m < n)
  <2> SUFFICES ASSUME m < n PROVE FALSE
    OBVIOUS
  <2>1. PICK i \in 1..m : f[i] = g[m + 1]
    OBVIOUS
  <2>2. g[i] < g[m + 1] /\ f[i] = g[i] /\ g[i] \in Nat
    BY <2>1, <1>2 DEF Ascending
  <2>3. QED
    BY <2>1, <2>2
<1>4. ~(n < m)
  <2> SUFFICES ASSUME n < m PROVE FALSE
    OBVIOUS
  <2>1. PICK j \in 1..n : g[j] = f[n + 1]
    OBVIOUS
  <2>2. f[j] < f[n + 1] /\ f[j] = g[j] /\ f[j] \in Nat
    BY <2>1, <1>2 DEF Ascending
  <2>3. QED
    BY <2>1, <2>2
<1>5. m = n
  BY <1>3, <1>4
<1>6. QED
  BY <1>2, <1>5

\* Only one sequence has the elements at P, in their order: what is picked so
\* is what Selected returns.
LEMMA SelectedIsUnique ==
  ASSUME NEW S, NEW s \in Seq(S), NEW P, NEW r \in Seq(S), NEW g,
         Picks(g, r, s, P, Len(s))
  PROVE  Selected(s, P) = r
<1> DEFINE q == Selected(s, P)
<1>1. q \in Seq(S)
  BY SelectedPicks
<1>2. PICK f : Picks(f, q, s, P, Len(s))
  BY SelectedPicks
<1> HIDE DEF q
<1>3. /\ Len(q) \in Nat /\ Len(r) \in Nat /\ Len(s) \in Nat
      /\ DOMAIN q = 1..Len(q) /\ DOMAIN r = 1..Len(r)
  BY <1>1
<1>4. f \in [1..Len(q) -> Nat] /\ g \in [1..Len(r) -> Nat]
  BY <1>2, <1>3 DEF Picks
<1>5. Ascending(f, Len(q)) /\ Ascending(g, Len(r))
  BY <1>2 DEF Picks, Ascending
<1>6. \A i \in 1..Len(q) : \E j \in 1..Len(r) : g[j] = f[i]
  BY <1>2 DEF Picks
<1>7. \A j \in 1..Len(r) : \E i \in 1..Len(q) : f[i] = g[j]
  BY <1>2 DEF Picks
<1>8. Len(q) = Len(r) /\ f = g
  BY <1>3, <1>4, <1>5, <1>6, <1>7, EnumerationsAgree
<1>9. \A j \in 1..Len(q) : q[j] = r[j]
  BY <1>2, <1>8 DEF Picks
<1>10. q = r
  BY <1>1, <1>8, <1>9
<1>11. QED
  BY <1>10 DEF q

\* Where every position is selected nothing changes.
LEMMA SelectedAll ==
  ASSUME NEW S, NEW s \in Seq(S), NEW P, DOMAIN s \subseteq P
  PROVE  Selected(s, P) = s
<1>1. Picks([j \in 1..Len(s) |-> j], s, s, P, Len(s))
  BY DEF Picks
<1>2. QED
  BY <1>1, SelectedIsUnique

\* p lists the positions 1..m in descending order of their keys.
Sorts(p, key, m) ==
  /\ p \in [1..m -> 1..m]
  /\ \A j, k \in 1..m : j < k => Precedes(key, p[j], p[k])

\* There is such a list for keys of any number: each position in turn is put
\* before the first one with a lower key.
LEMMA SortExists ==
  ASSUME NEW n \in Nat, NEW key \in [1..n -> Int]
  PROVE  \E p : Sorts(p, key, n)
<1> DEFINE T == {m \in 0..n : \E p : Sorts(p, key, m)}
<1>1. 0 \in T
  <2>1. Sorts([i \in 1..0 |-> 1], key, 0)
    BY DEF Sorts
  <2>2. QED
    BY <2>1
<1>2. ASSUME NEW m \in 0..(n - 1), m \in T
      PROVE  m + 1 \in T
  <2>1. PICK p : Sorts(p, key, m)
    BY <1>2
  <2>2. m \in Nat /\ m + 1 \in 1..n /\ m + 1 \in 0..n /\ key[m + 1] \in Int
    BY <1>2
  <2>3. \A i \in 1..m : p[i] \in 1..m /\ p[i] \in Nat /\ key[p[i]] \in Int
    <3>1. \A i \in 1..m : p[i] \in 1..m
      BY <2>1 DEF Sorts
    <3>2. \A k \in 1..m : k \in Nat /\ k \in 1..n
      BY <1>2
    <3>3. QED
      BY <3>1, <3>2
  <2> DEFINE A == {i \in 1..(m + 1) : i = m + 1 \/ key[p[i]] < key[m + 1]}
  <2>4. PICK s \in A : \A i \in A : s <= i
    <3>1. A \subseteq Nat /\ A # {}
      <4>1. m + 1 \in A /\ \A i \in 1..(m + 1) : i \in Nat
        BY <2>2
      <4>2. QED
        BY <4>1
    <3> HIDE DEF A
    <3>2. QED
      BY <3>1, LeastNat
  <2>5. /\ s \in 1..(m + 1) /\ s \in Nat
        /\ \A i \in 1..m : i < s => key[p[i]] >= key[m + 1]
        /\ s <= m => key[p[s]] < key[m + 1]
    <3>1. s \in 1..(m + 1) /\ s \in Nat /\ (s <= m => key[p[s]] < key[m + 1])
      BY <2>4, <2>2
    <3>2. ASSUME NEW i \in 1..m, i < s
          PROVE  key[p[i]] >= key[m + 1]
      <4>1. i \notin A
        BY <2>4, <3>2, <3>1
      <4>2. ~(key[p[i]] < key[m + 1])
        BY <4>1, <2>2
      <4> HIDE DEF A
      <4>3. QED
        BY <4>2, <2>2, <2>3
    <3>3. QED
      BY <3>1, <3>2
  <2> HIDE DEF A
  <2>6. \A i \in 1..m : s <= i => key[p[i]] < key[m + 1]
    <3> SUFFICES ASSUME NEW i \in 1..m, s <= i
                 PROVE  key[p[i]] < key[m + 1]
      OBVIOUS
    <3>1. s \in 1..m /\ key[p[s]] < key[m + 1]
      BY <2>5, <2>2
    <3>2. s = i \/ Precedes(key, p[s], p[i])
      BY <3>1, <2>1, <2>5 DEF Sorts
    <3>3. key[p[s]] \in Int /\ key[p[i]] \in Int /\ (s = i \/ key[p[s]] >= key[p[i]])
      BY <3>1, <3>2, <2>3 DEF Precedes
    <3>4. QED
      BY <3>1, <3>3, <2>2
  <2> DEFINE q == [i \in 1..(m + 1) |-> IF i < s THEN p[i] ELSE IF i = s THEN m + 1 ELSE p[i - 1]]
  <2>7. /\ \A i \in 1..(m + 1) : i < s => i \in 1..m /\ q[i] = p[i]
        /\ q[s] = m + 1
        /\ \A i \in 1..(m + 1) : s < i => i - 1 \in 1..m /\ s <= i - 1 /\ q[i] = p[i - 1]
    BY <2>2, <2>5
  <2>8. q \in [1..(m + 1) -> 1..(m + 1)]
    <3>1. ASSUME NEW i \in 1..(m + 1)
          PROVE  q[i] \in 1..(m + 1)
      <4>1. i < s \/ i = s \/ s < i
        BY <2>2, <2>5
      <4> HIDE DEF q
      <4>2. \A k \in 1..m : k \in 1..(m + 1) /\ m + 1 \in 1..(m + 1)
        BY <2>2
      <4>3. i < s => q[i] \in 1..m
        BY <2>7, <2>3
      <4>4. s < i => q[i] \in 1..m
        BY <2>7, <2>3
      <4>5. i = s => q[i] = m + 1
        BY <2>7
      <4>6. m + 1 \in 1..(m + 1)
        BY <2>2
      <4>7. QED
        BY <4>1, <4>2, <4>3, <4>4, <4>5, <4>6
    <3>2. q = [i \in 1..(m + 1) |-> q[i]]
      OBVIOUS
    <3> HIDE DEF q
    <3>3. QED
      BY <3>1, <3>2
  <2> HIDE DEF q
  <2>9. ASSUME NEW j \in 1..(m + 1), NEW k \in 1..(m + 1), j < k
        PROVE  Precedes(key, q[j], q[k])
    <3>1. \A a, b \in 1..m : a < b => Precedes(key, p[a], p[b])
      BY <2>1 DEF Sorts
    <3>2. CASE k < s
      BY <3>1, <3>2, <2>9, <2>5, <2>7, <2>2
    <3>3. CASE k = s
      <4>1. j \in 1..m /\ q[j] = p[j] /\ q[k] = m + 1 /\ key[p[j]] >= key[m + 1]
        BY <3>3, <2>9, <2>5, <2>7
      <4>2. QED
        BY <4>1, <2>2, <2>3 DEF Precedes
    <3>4. CASE s < k
      <4>1. k - 1 \in 1..m /\ s <= k - 1 /\ q[k] = p[k - 1] /\ key[p[k - 1]] < key[m + 1]
        BY <3>4, <2>6, <2>7
      <4>2. CASE j < s
        <5>1. j \in 1..m /\ q[j] = p[j] /\ j < k - 1
          BY <4>1, <4>2, <2>5, <2>7
        <5>2. QED
          BY <4>1, <5>1, <3>1
      <4>3. CASE j = s
        BY <4>1, <4>3, <2>2, <2>3, <2>7 DEF Precedes
      <4>4. CASE s < j
        <5>1. j - 1 \in 1..m /\ q[j] = p[j - 1] /\ j - 1 < k - 1
          BY <4>4, <2>7, <2>9
        <5>2. QED
          BY <4>1, <5>1, <3>1
      <4>5. QED
        BY <4>2, <4>3, <4>4, <2>5
    <3>5. QED
      BY <3>2, <3>3, <3>4, <2>5
  <2>10. Sorts(q, key, m + 1)
    BY <2>8, <2>9 DEF Sorts
  <2>11. QED
    BY <2>10, <2>2
<1>3. n \in T
  <2> HIDE DEF T
  <2>1. 0..n \subseteq T
    BY <1>1, <1>2, UpToInduction
  <2>2. QED
    BY <2>1
<1>4. QED
  BY <1>3

\* What sorted returns: every position once, in descending order of the keys.
LEMMA DescendingSorts ==
  ASSUME NEW n \in Nat, NEW key \in [1..n -> Int]
  PROVE  /\ Sorts(Descending(key), key, n)
         /\ \A j, k \in 1..n : Descending(key)[j] = Descending(key)[k] => j = k
         /\ \A k \in 1..n : \E j \in 1..n : Descending(key)[j] = k
<1> DEFINE D == Descending(key)
<1>1. DOMAIN key = 1..n
  OBVIOUS
<1>2. PICK p : Sorts(p, key, n)
  BY SortExists
<1>3. \E order \in [DOMAIN key -> DOMAIN key] :
        \A j, k \in DOMAIN key : j < k => Precedes(key, order[j], order[k])
  BY <1>1, <1>2 DEF Sorts
<1>4. /\ D \in [DOMAIN key -> DOMAIN key]
      /\ \A j, k \in DOMAIN key : j < k => Precedes(key, D[j], D[k])
  BY <1>3 DEF Descending
<1> HIDE DEF D
<1>5. Sorts(D, key, n)
  BY <1>1, <1>4 DEF Sorts
<1>6. D \in Injection(1..n, 1..n)
  <2>1. \A j, k \in 1..n : j < k => D[j] # D[k]
    <3>1. \A j \in 1..n : D[j] \in 1..n /\ key[D[j]] \in Int /\ D[j] \in Nat
      BY <1>5 DEF Sorts
    <3>2. ASSUME NEW j \in 1..n, NEW k \in 1..n, j < k
          PROVE  D[j] # D[k]
      <4>1. Precedes(key, D[j], D[k])
        BY <3>2, <1>5 DEF Sorts
      <4>2. \A x \in 1..n : ~Precedes(key, x, x)
        BY DEF Precedes
      <4>3. QED
        BY <4>1, <4>2, <3>1
    <3>3. QED
      BY <3>2
  <2>2. \A j, k \in 1..n : D[j] = D[k] => j = k
    BY <2>1
  <2>3. QED
    BY <2>2, <1>5 DEF Sorts, Injection, IsInjective
<1>7. IsFiniteSet(1..n)
  BY FS_Interval
<1>8. D \in Surjection(1..n, 1..n)
  BY <1>6, <1>7, FS_Injection
<1>9. \A k \in 1..n : \E j \in 1..n : D[j] = k
  BY <1>8 DEF Surjection
<1>10. \A j, k \in 1..n : D[j] = D[k] => j = k
  BY <1>6 DEF Injection, IsInjective
<1>11. QED
  BY <1>5, <1>9, <1>10 DEF D

\* Selecting from what was picked already is selecting once: u was picked out
\* of v at P, and j is in Q when the position it came from is in W.
LEMMA SelectedThrough ==
  ASSUME NEW S, NEW v \in Seq(S), NEW u \in Seq(S), NEW P, NEW Q, NEW W, NEW f,
         Picks(f, u, v, P, Len(v)), W \subseteq P,
         \A j \in 1..Len(u) : j \in Q <=> f[j] \in W
  PROVE  Selected(u, Q) = Selected(v, W)
<1> DEFINE w == Selected(u, Q)
<1>1. w \in Seq(S)
  BY SelectedPicks
<1>2. PICK h : Picks(h, w, u, Q, Len(u))
  BY SelectedPicks
<1> HIDE DEF w
<1> DEFINE g == [j \in 1..Len(w) |-> f[h[j]]]
<1>3. \A j \in 1..Len(w) : h[j] \in 1..Len(u) /\ h[j] \in Q /\ g[j] = f[h[j]]
  BY <1>2 DEF Picks
<1>4. \A j \in 1..Len(u) : f[j] \in 1..Len(v) /\ u[j] = v[f[j]]
  BY DEF Picks
<1>5. g \in [1..Len(w) -> 1..Len(v)]
  BY <1>3, <1>4
<1> HIDE DEF g
<1>6. \A j \in 1..Len(w) : g[j] \in W /\ w[j] = v[g[j]]
  <2>1. \A j \in 1..Len(w) : w[j] = u[h[j]]
    BY <1>2 DEF Picks
  <2>2. QED
    BY <2>1, <1>3, <1>4
<1>7. \A i, j \in 1..Len(w) : i < j => g[i] < g[j]
  BY <1>2, <1>3 DEF Picks
<1>8. ASSUME NEW k \in 1..Len(v), k \in W
      PROVE  \E j \in 1..Len(w) : g[j] = k
  <2>1. PICK i \in 1..Len(u) : f[i] = k
    BY <1>8 DEF Picks
  <2>2. PICK j \in 1..Len(w) : h[j] = i
    BY <2>1, <1>8, <1>2 DEF Picks
  <2>3. QED
    BY <2>1, <2>2, <1>3
<1>9. Picks(g, w, v, W, Len(v))
  BY <1>5, <1>6, <1>7, <1>8 DEF Picks
<1>10. Selected(v, W) = w
  BY <1>1, <1>9, SelectedIsUnique
<1>11. QED
  BY <1>10 DEF w

\* Nothing is selected twice.
LEMMA SelectedIsShorter ==
  ASSUME NEW S, NEW s \in Seq(S), NEW P
  PROVE  Len(Selected(s, P)) <= Len(s)
<1> DEFINE r == Selected(s, P)
<1>1. r \in Seq(S)
  BY SelectedPicks
<1>2. PICK f : Picks(f, r, s, P, Len(s))
  BY SelectedPicks
<1> HIDE DEF r
<1>3. Len(r) \in Nat /\ Len(s) \in Nat
  BY <1>1
<1>4. f \in Injection(1..Len(r), 1..Len(s))
  <2>1. f \in [1..Len(r) -> 1..Len(s)] /\ \A i, j \in 1..Len(r) : i < j => f[i] < f[j]
    BY <1>2 DEF Picks
  <2>2. \A i, j \in 1..Len(r) : f[i] = f[j] => i = j
    BY <2>1, <1>3
  <2>3. QED
    BY <2>1, <2>2 DEF Injection, IsInjective
<1>5. \A n \in Nat : IsFiniteSet(1..n) /\ Cardinality(1..n) = n
  BY FS_Interval
<1>6. Cardinality(1..Len(r)) <= Cardinality(1..Len(s))
  BY <1>3, <1>4, <1>5, FS_Injection
<1>7. QED
  BY <1>3, <1>5, <1>6 DEF r
=============================================================================
