--------------------------- MODULE PickingProofs ---------------------------
(***************************************************************************)
(* What Pick returns, for every sequence and every set of indices, and     *)
(* what it and the standard operators do to a line: an increasing          *)
(* sequence of numbers, which every queue, bucket and replay slice is.     *)
(* Induction is on the least number where a claim fails, so that a set,    *)
(* and not an operator, is what varies.                                    *)
(***************************************************************************)
EXTENDS Picking, FiniteSetTheorems, WellFoundedInduction, TLAPS

\* The order of the natural numbers as a relation.
Less == {p \in Nat \X Nat : p[1] < p[2]}

\* A set of numbers that is not empty has a least one.
LEMMA LeastNumber ==
    ASSUME NEW T, T \subseteq Nat, T # {}
    PROVE  \E n \in T : \A m \in T : n <= m
  <1>1. IsWellFoundedOn(Less, Nat)
    BY NatLessThanWellFounded DEF OpToRel, Less
  <1>2. PICK n \in T : \A m \in T : ~(<<m, n>> \in Less)
    BY <1>1, WFMin
  <1>3. \A m \in T : ~(m < n)
    BY <1>2 DEF Less
  <1> QED BY <1>2, <1>3

\* Induction for a set of numbers given as a set.
LEMMA Inductive ==
    ASSUME NEW T, 0 \in T, \A n \in Nat : n \in T => n + 1 \in T
    PROVE  Nat \subseteq T
  <1>1. SUFFICES ASSUME Nat \ T # {} PROVE FALSE
    OBVIOUS
  <1>2. PICK n \in Nat \ T : \A m \in Nat \ T : n <= m
    BY <1>1, LeastNumber
  <1>3. n # 0 /\ n - 1 \in Nat /\ n - 1 \in T
    BY <1>2
  <1>4. (n - 1) + 1 \in T
    BY <1>3
  <1> QED BY <1>2, <1>3, <1>4

\* f picks the first n elements' members of I.
PicksUpto(f, s, I, n) ==
    f = [m \in 0 .. n |-> IF m = 0 THEN <<>>
                          ELSE IF m \in I THEN Append(f[m - 1], s[m]) ELSE f[m - 1]]

\* The recursive function behind Pick exists for every length.
LEMMA PicksExist ==
    ASSUME NEW s, NEW I
    PROVE  \A n \in Nat : \E f : PicksUpto(f, s, I, n)
  <1> DEFINE T == {n \in Nat : \E f : PicksUpto(f, s, I, n)}
  <1>1. 0 \in T
    <2>1. PicksUpto([m \in 0 .. 0 |-> <<>>], s, I, 0)
      BY DEF PicksUpto
    <2> QED BY <2>1
  <1>2. ASSUME NEW n \in Nat, n \in T
        PROVE  n + 1 \in T
    <2>1. PICK f : PicksUpto(f, s, I, n)
      BY <1>2
    <2> DEFINE last == IF n + 1 \in I THEN Append(f[n], s[n + 1]) ELSE f[n]
               g == [m \in 0 .. n + 1 |-> IF m = n + 1 THEN last ELSE f[m]]
    <2>2. \A m \in 0 .. n : f[m] = IF m = 0 THEN <<>>
                                  ELSE IF m \in I THEN Append(f[m - 1], s[m]) ELSE f[m - 1]
      BY <2>1 DEF PicksUpto
    <2>3. ASSUME NEW m \in 0 .. n + 1
          PROVE  g[m] = IF m = 0 THEN <<>>
                        ELSE IF m \in I THEN Append(g[m - 1], s[m]) ELSE g[m - 1]
      <3>1. CASE m = n + 1
        <4>1. g[m] = last /\ m # 0 /\ m - 1 = n /\ g[n] = f[n]
          BY <3>1
        <4> QED BY <3>1, <4>1
      <3>2. CASE m # n + 1
        <4>1. m \in 0 .. n /\ g[m] = f[m]
          BY <3>2
        <4>2. m # 0 => g[m - 1] = f[m - 1]
          BY <4>1
        <4> QED BY <2>2, <4>1, <4>2
      <3> QED BY <3>1, <3>2
    <2>4. g = [m \in 0 .. n + 1 |-> g[m]]
      OBVIOUS
    <2> HIDE DEF g
    <2>5. PicksUpto(g, s, I, n + 1)
      BY <2>3, <2>4 DEF PicksUpto
    <2> QED BY <2>5
  <1> HIDE DEF T
  <1>3. Nat \subseteq T
    BY <1>1, <1>2, Inductive
  <1> QED BY <1>3 DEF T

\* h lists the indices of I up to n in order, and r the elements of s there.
Lists(r, s, I, n) ==
    \E h \in [1 .. Len(r) -> {i \in I : i \in 1 .. n}] :
        /\ \A i \in {i \in I : i \in 1 .. n} : \E j \in 1 .. Len(r) : h[j] = i
        /\ \A j, k \in 1 .. Len(r) : j < k => h[j] < h[k]
        /\ \A j \in 1 .. Len(r) : r[j] = s[h[j]]

\* Pick lists exactly the chosen elements, in the order they had.
LEMMA PickLists ==
    ASSUME NEW S, NEW s \in Seq(S), NEW I
    PROVE  Pick(s, I) \in Seq(S) /\ Lists(Pick(s, I), s, I, Len(s))
  <1> DEFINE N == Len(s)
             f == CHOOSE f : PicksUpto(f, s, I, N)
             T == {n \in Nat : n <= N => f[n] \in Seq(S) /\ Lists(f[n], s, I, n)}
  <1>0. N \in Nat
    OBVIOUS
  <1>1. PicksUpto(f, s, I, N)
    BY <1>0, PicksExist
  <1>2. Pick(s, I) = f[N]
    BY DEF Pick, PicksUpto
  <1> HIDE DEF f
  <1>3. \A m \in 0 .. N : f[m] = IF m = 0 THEN <<>>
                                 ELSE IF m \in I THEN Append(f[m - 1], s[m]) ELSE f[m - 1]
    BY <1>1 DEF PicksUpto
  <1>4. 0 \in T
    <2>1. f[0] = <<>>
      BY <1>0, <1>3
    <2>2. Lists(<<>>, s, I, 0)
      <3> DEFINE none == {i \in I : i \in 1 .. 0}
      <3>1. 1 .. Len(<<>>) = {} /\ none = {}
        OBVIOUS
      <3>2. [j \in {} |-> 0] \in [{} -> none]
        OBVIOUS
      <3> HIDE DEF none
      <3>3. [j \in {} |-> 0] \in [1 .. Len(<<>>) -> none]
        BY <3>1, <3>2
      <3>4. \A i \in none : \E j \in 1 .. Len(<<>>) : [k \in {} |-> 0][j] = i
        BY <3>1
      <3>5. \E h \in [1 .. Len(<<>>) -> none] :
              /\ \A i \in none : \E j \in 1 .. Len(<<>>) : h[j] = i
              /\ \A j, k \in 1 .. Len(<<>>) : j < k => h[j] < h[k]
              /\ \A j \in 1 .. Len(<<>>) : <<>>[j] = s[h[j]]
        BY <3>1, <3>3, <3>4, Zenon
      <3> QED
        <4> USE DEF none
        <4> QED BY <3>5, Zenon DEF Lists
    <2>3. <<>> \in Seq(S)
      OBVIOUS
    <2>4. f[0] \in Seq(S) /\ Lists(f[0], s, I, 0)
      BY <2>1, <2>2, <2>3, Zenon
    <2> QED BY <2>4
  <1>5. ASSUME NEW n \in Nat, n \in T
        PROVE  n + 1 \in T
    <2>1. SUFFICES ASSUME n + 1 <= N
                   PROVE  f[n + 1] \in Seq(S) /\ Lists(f[n + 1], s, I, n + 1)
      OBVIOUS
    <2> DEFINE r == f[n]
    <2>2. r \in Seq(S) /\ Lists(r, s, I, n) /\ s[n + 1] \in S
      BY <1>5, <2>1
    <2>3. f[n + 1] = IF n + 1 \in I THEN Append(r, s[n + 1]) ELSE r
      <3>1. n + 1 \in 0 .. N /\ n + 1 # 0 /\ (n + 1) - 1 = n
        BY <2>1
      <3> QED BY <1>3, <3>1
    <2> HIDE DEF r
    <2>4. PICK h \in [1 .. Len(r) -> {i \in I : i \in 1 .. n}] :
              /\ \A i \in {i \in I : i \in 1 .. n} : \E j \in 1 .. Len(r) : h[j] = i
              /\ \A j, k \in 1 .. Len(r) : j < k => h[j] < h[k]
              /\ \A j \in 1 .. Len(r) : r[j] = s[h[j]]
      BY <2>2 DEF Lists
    <2>5. CASE n + 1 \notin I
      <3>1. {i \in I : i \in 1 .. n + 1} = {i \in I : i \in 1 .. n}
        BY <2>5
      <3>2. Lists(r, s, I, n + 1)
        BY <2>2, <3>1 DEF Lists
      <3> QED BY <2>2, <2>3, <2>5, <3>2
    <2>6. CASE n + 1 \in I
      <3> DEFINE q == Append(r, s[n + 1])
                 g == [j \in 1 .. Len(r) + 1 |-> IF j = Len(r) + 1 THEN n + 1 ELSE h[j]]
      <3>0. Len(r) \in Nat
        BY <2>2
      <3>1. /\ Len(r) \in Nat /\ q \in Seq(S) /\ Len(q) = Len(r) + 1 /\ q[Len(r) + 1] = s[n + 1]
            /\ \A j \in 1 .. Len(r) : q[j] = r[j]
        BY <2>2
      <3>2. g \in [1 .. Len(q) -> {i \in I : i \in 1 .. n + 1}]
        <4> SUFFICES ASSUME NEW j \in 1 .. Len(r) + 1
                     PROVE  g[j] \in I /\ g[j] \in 1 .. n + 1
          BY <3>1
        <4>1. CASE j = Len(r) + 1
          BY <2>6, <4>1
        <4>2. CASE j # Len(r) + 1
          <5>1. j \in 1 .. Len(r) /\ g[j] = h[j]
            BY <3>1, <4>2
          <5>2. h[j] \in {i \in I : i \in 1 .. n}
            BY <2>4, <5>1
          <5> QED BY <5>1, <5>2
        <4> QED BY <4>1, <4>2
      <3>3. \A i \in {i \in I : i \in 1 .. n + 1} : \E j \in 1 .. Len(q) : g[j] = i
        <4> TAKE i \in {i \in I : i \in 1 .. n + 1}
        <4>1. CASE i = n + 1
          BY <3>1, <4>1
        <4>2. CASE i # n + 1
          <5>1. PICK j \in 1 .. Len(r) : h[j] = i
            BY <2>4, <4>2
          <5>2. g[j] = i /\ j \in 1 .. Len(q)
            BY <3>1, <5>1
          <5> QED BY <5>2
        <4> QED BY <4>1, <4>2
      <3>4. \A j, k \in 1 .. Len(q) : j < k => g[j] < g[k]
        <4> SUFFICES ASSUME NEW j \in 1 .. Len(r) + 1, NEW k \in 1 .. Len(r) + 1, j < k
                     PROVE  g[j] < g[k]
          BY <3>1
        <4>1. j \in 1 .. Len(r) /\ g[j] = h[j] /\ h[j] \in 1 .. n
          BY <2>4, <3>1
        <4>2. CASE k = Len(r) + 1
          <5>1. g[k] = n + 1
            BY <4>2
          <5> HIDE DEF g
          <5> QED BY <4>1, <5>1
        <4>3. CASE k # Len(r) + 1
          <5>0. k \in 1 .. Len(r)
            BY <3>0, <4>3
          <5>1. k \in 1 .. Len(r) /\ g[k] = h[k]
            BY <4>3, <5>0
          <5>2. h[j] < h[k]
            BY <2>4, <4>1, <5>1
          <5> QED BY <4>1, <5>1, <5>2
        <4> QED BY <4>2, <4>3
      <3>5. \A j \in 1 .. Len(q) : q[j] = s[g[j]]
        BY <2>4, <3>1
      <3> HIDE DEF g, q
      <3>6. Lists(q, s, I, n + 1)
        BY <3>2, <3>3, <3>4, <3>5 DEF Lists
      <3>7. f[n + 1] = q
        BY <2>3, <2>6 DEF q
      <3> QED BY <3>1, <3>6, <3>7
    <2> QED BY <2>5, <2>6
  <1> HIDE DEF T
  <1>6. N \in T
    BY <1>0, <1>4, <1>5, Inductive
  <1> QED BY <1>0, <1>2, <1>6 DEF T

Line(q, n) == /\ q \in Seq(1 .. n)
              /\ \A i, j \in 1 .. Len(q) : i < j => q[i] < q[j]

\* A line of numbers up to n is one of numbers up to any m above it.
LEMMA LineGrows ==
    ASSUME NEW n \in Nat, NEW m \in Nat, n <= m, NEW q, Line(q, n)
    PROVE  Line(q, m)
  <1>1. q \in Seq(1 .. m)
    BY DEF Line
  <1> QED BY <1>1 DEF Line

\* A line is empty exactly when it has no elements.
LEMMA LineElems ==
    ASSUME NEW n \in Nat, NEW q, Line(q, n)
    PROVE  /\ Elems(q) \subseteq 1 .. n
           /\ Elems(q) = {q[i] : i \in 1 .. Len(q)}
           /\ q = <<>> <=> Elems(q) = {}
           /\ Len(q) \in Nat
  BY DEF Line, Elems

\* A number above all of a line can be appended to it.
LEMMA LineAppend ==
    ASSUME NEW n \in Nat, NEW m \in Nat, n < m, NEW q, Line(q, n)
    PROVE  /\ Line(Append(q, m), m)
           /\ Len(Append(q, m)) = Len(q) + 1
           /\ Elems(Append(q, m)) = Elems(q) \cup {m}
  <1>1. q \in Seq(1 .. m) /\ m \in 1 .. m
    BY DEF Line
  <1>2. Append(q, m) \in Seq(1 .. m) /\ Len(Append(q, m)) = Len(q) + 1 /\ Len(q) \in Nat
        /\ \A i \in 1 .. Len(q) + 1 : Append(q, m)[i] = IF i = Len(q) + 1 THEN m ELSE q[i]
    BY <1>1
  <1>3. \A i \in 1 .. Len(q) : q[i] \in 1 .. n
    BY DEF Line
  <1>4. Line(Append(q, m), m)
    <2> DEFINE r == Append(q, m)
    <2>1. ASSUME NEW i \in 1 .. Len(q) + 1, NEW j \in 1 .. Len(q) + 1, i < j
          PROVE  r[i] < r[j]
      <3>1. i \in 1 .. Len(q) /\ r[i] = q[i] /\ q[i] \in 1 .. n
        BY <1>2, <1>3, <2>1
      <3>2. CASE j = Len(q) + 1
        <4>1. r[j] = m
          BY <1>2, <3>2
        <4> QED BY <3>1, <4>1
      <3>3. CASE j # Len(q) + 1
        <4>1. j \in 1 .. Len(q) /\ r[j] = q[j] /\ q[i] < q[j]
          <5>1. j \in 1 .. Len(q) /\ r[j] = q[j]
            BY <1>2, <3>3
          <5> QED BY <2>1, <3>1, <5>1 DEF Line
        <4> QED BY <3>1, <4>1
      <3> QED BY <3>2, <3>3
    <2> HIDE DEF r
    <2>2. r \in Seq(1 .. m) /\ Len(r) = Len(q) + 1
      BY <1>2 DEF r
    <2>3. Line(r, m)
      BY <2>1, <2>2 DEF Line
    <2> QED BY <2>3 DEF r
  <1>5. Elems(Append(q, m)) = {Append(q, m)[i] : i \in 1 .. Len(q) + 1}
        /\ Elems(q) = {q[i] : i \in 1 .. Len(q)}
    BY <1>2, <1>4, LineElems
  <1> DEFINE r == Append(q, m)
  <1> HIDE DEF r
  <1>6. Elems(r) = Elems(q) \cup {m}
    <2>1. ASSUME NEW k \in Elems(r)
          PROVE  k \in Elems(q) \cup {m}
      BY <1>2, <1>5 DEF r
    <2>2. ASSUME NEW k \in Elems(q)
          PROVE  k \in Elems(r)
      <3>1. PICK i \in 1 .. Len(q) : k = q[i]
        BY <1>5
      <3>2. i \in 1 .. Len(q) + 1 /\ r[i] = k
        BY <1>2, <3>1 DEF r
      <3> QED BY <1>5, <3>2 DEF r
    <2>3. m \in Elems(r)
      <3>1. Len(q) + 1 \in 1 .. Len(q) + 1 /\ r[Len(q) + 1] = m
        BY <1>2 DEF r
      <3> QED BY <1>5, <3>1 DEF r
    <2> QED BY <2>1, <2>2, <2>3
  <1> QED BY <1>2, <1>4, <1>6 DEF r

\* The head of a line is its least number, and the tail has all the others.
LEMMA LineTail ==
    ASSUME NEW n \in Nat, NEW q, Line(q, n), q # <<>>
    PROVE  /\ Line(Tail(q), n)
           /\ Len(Tail(q)) = Len(q) - 1
           /\ Head(q) \in Elems(q) /\ Head(q) \in 1 .. n
           /\ Elems(Tail(q)) = Elems(q) \ {Head(q)}
           /\ \A m \in Elems(Tail(q)) : Head(q) < m
           /\ \A m \in Elems(q) : Head(q) <= m
  <1>1. q \in Seq(1 .. n) /\ Len(q) \in Nat /\ Len(q) > 0 /\ Head(q) = q[1]
    BY DEF Line
  <1>2. Tail(q) \in Seq(1 .. n) /\ Len(Tail(q)) = Len(q) - 1
        /\ \A i \in 1 .. Len(q) - 1 : Tail(q)[i] = q[i + 1]
    BY <1>1
  <1>3. \A i, j \in 1 .. Len(q) : i < j => q[i] < q[j]
    BY DEF Line
  <1>3a. \A i \in 1 .. Len(q) : q[i] \in 1 .. n
    BY <1>1
  <1>4. Line(Tail(q), n)
    BY <1>1, <1>2, <1>3 DEF Line
  <1>5. Elems(Tail(q)) = {Tail(q)[i] : i \in 1 .. Len(q) - 1}
        /\ Elems(q) = {q[i] : i \in 1 .. Len(q)}
    BY <1>2, <1>4, LineElems
  <1>6. \A m \in Elems(Tail(q)) : Head(q) < m /\ m \in Elems(q)
    BY <1>1, <1>2, <1>3, <1>5
  <1>7. ASSUME NEW m \in Elems(q), m # Head(q)
        PROVE  m \in Elems(Tail(q))
    <2>1. PICK i \in 1 .. Len(q) : m = q[i]
      BY <1>5
    <2>2. i # 1 /\ i - 1 \in 1 .. Len(q) - 1
      BY <1>1, <1>7, <2>1
    <2>3. Tail(q)[i - 1] = m
      BY <1>2, <2>1, <2>2
    <2> QED BY <1>5, <2>2, <2>3
  <1>8. Head(q) \in Elems(q) /\ Head(q) \in 1 .. n
    BY <1>1, <1>3a, <1>5
  <1>9. Elems(Tail(q)) \subseteq 1 .. n
    BY <1>4, LineElems
  <1>10. Elems(Tail(q)) = Elems(q) \ {Head(q)}
    BY <1>6, <1>7, <1>8, <1>9
  <1>11. \A m \in Elems(q) : Head(q) <= m
    BY <1>6, <1>7, <1>8, <1>9
  <1> QED BY <1>2, <1>4, <1>6, <1>8, <1>10, <1>11

\* What is left of a line when its first k numbers go.
LEMMA LineFrom ==
    ASSUME NEW n \in Nat, NEW q, Line(q, n), NEW k \in 0 .. Len(q)
    PROVE  LET r == SubSeq(q, k + 1, Len(q))
           IN  /\ Line(r, n)
               /\ Len(r) = Len(q) - k
               /\ Elems(r) \subseteq Elems(q)
               /\ k > 0 => q[k] \in Elems(q) /\ q[k] \in 1 .. n
               /\ k > 0 => \A m \in Elems(q) : m \in Elems(r) \/ m <= q[k]
  <1> DEFINE r == SubSeq(q, k + 1, Len(q))
  <1>1. q \in Seq(1 .. n) /\ Len(q) \in Nat /\ \A i \in 1 .. Len(q) : q[i] \in 1 .. n
    BY DEF Line
  <1>2. r \in Seq(1 .. n) /\ Len(r) = Len(q) - k
        /\ \A i \in 1 .. Len(q) - k : r[i] = q[k + i]
    BY <1>1
  <1>3. \A i, j \in 1 .. Len(q) : i < j => q[i] < q[j]
    BY DEF Line
  <1> HIDE DEF r
  <1>4. Line(r, n)
    <2>1. ASSUME NEW i \in 1 .. Len(q) - k, NEW j \in 1 .. Len(q) - k, i < j
          PROVE  r[i] < r[j]
      <3>1. k + i \in 1 .. Len(q) /\ k + j \in 1 .. Len(q) /\ k + i < k + j
        BY <1>1, <2>1
      <3>2. r[i] = q[k + i] /\ r[j] = q[k + j]
        BY <1>2
      <3> QED BY <1>3, <3>1, <3>2
    <2> QED BY <1>2, <2>1 DEF Line
  <1>5. Elems(r) = {r[i] : i \in 1 .. Len(q) - k} /\ Elems(q) = {q[i] : i \in 1 .. Len(q)}
    BY <1>2, <1>4, LineElems
  <1>6. Elems(r) \subseteq Elems(q)
    <2> SUFFICES ASSUME NEW m \in Elems(r) PROVE m \in Elems(q)
      OBVIOUS
    <2>1. PICK i \in 1 .. Len(q) - k : m = r[i]
      BY <1>5
    <2>2. k + i \in 1 .. Len(q) /\ m = q[k + i]
      BY <1>1, <1>2, <2>1
    <2> QED BY <1>5, <2>2
  <1>7. k > 0 => q[k] \in Elems(q) /\ q[k] \in 1 .. n
    BY <1>1, <1>5
  <1>8. ASSUME k > 0, NEW m \in Elems(q)
        PROVE  m \in Elems(r) \/ m <= q[k]
    <2>1. PICK i \in 1 .. Len(q) : m = q[i]
      BY <1>5
    <2>2. CASE i <= k
      BY <1>1, <1>3, <2>1, <2>2, <1>8
    <2>3. CASE i > k
      <3>1. i - k \in 1 .. Len(q) - k /\ r[i - k] = q[i]
        BY <1>1, <1>2, <2>3
      <3> QED BY <1>5, <2>1, <3>1
    <2> QED BY <1>1, <2>2, <2>3
  <1> QED BY <1>2, <1>4, <1>6, <1>7, <1>8 DEF r

\* Picking from a line gives a line of exactly the picked numbers.
LEMMA LinePick ==
    ASSUME NEW n \in Nat, NEW q, Line(q, n), NEW I
    PROVE  /\ Line(Pick(q, I), n)
           /\ Elems(Pick(q, I)) = {q[i] : i \in I \cap (DOMAIN q)}
  <1> DEFINE r == Pick(q, I)
             J == {i \in I : i \in 1 .. Len(q)}
  <1>1. q \in Seq(1 .. n) /\ Len(q) \in Nat /\ DOMAIN q = 1 .. Len(q)
    BY DEF Line
  <1>2. r \in Seq(1 .. n) /\ Lists(r, q, I, Len(q))
    BY <1>1, PickLists
  <1> HIDE DEF r
  <1>3. PICK h \in [1 .. Len(r) -> J] :
            /\ \A i \in J : \E j \in 1 .. Len(r) : h[j] = i
            /\ \A j, k \in 1 .. Len(r) : j < k => h[j] < h[k]
            /\ \A j \in 1 .. Len(r) : r[j] = q[h[j]]
    BY <1>2 DEF Lists
  <1>4. \A j \in 1 .. Len(r) : h[j] \in J /\ h[j] \in 1 .. Len(q)
    BY <1>3
  <1>5. \A i, j \in 1 .. Len(q) : i < j => q[i] < q[j]
    BY DEF Line
  <1>6. Line(r, n)
    BY <1>2, <1>3, <1>4, <1>5 DEF Line
  <1>7. Elems(r) = {r[i] : i \in 1 .. Len(r)}
    BY <1>6, LineElems
  <1>8. Elems(r) = {q[i] : i \in J}
    <2>1. ASSUME NEW m \in Elems(r)
          PROVE  m \in {q[i] : i \in J}
      BY <1>3, <1>4, <1>7
    <2>2. ASSUME NEW i \in J
          PROVE  q[i] \in Elems(r)
      <3>1. PICK j \in 1 .. Len(r) : h[j] = i
        BY <1>3
      <3>2. r[j] = q[i]
        BY <1>3, <3>1
      <3> QED BY <1>7, <3>2
    <2> QED BY <2>1, <2>2
  <1>9. J = I \cap (DOMAIN q)
    BY <1>1
  <1> QED BY <1>6, <1>8, <1>9 DEF r

-----------------------------------------------------------------------------
(* Any sequence whose elements are related in the order they have.         *)

SortedBy(s, R) == \A i, j \in DOMAIN s : i < j => <<s[i], s[j]>> \in R

\* What Append adds.
LEMMA AppendElems ==
    ASSUME NEW V, NEW s \in Seq(V), NEW m \in V
    PROVE  /\ Append(s, m) \in Seq(V)
           /\ Elems(Append(s, m)) = Elems(s) \cup {m}
           /\ \A R : SortedBy(s, R) /\ (\A e \in Elems(s) : <<e, m>> \in R)
                    => SortedBy(Append(s, m), R)
  <1> DEFINE r == Append(s, m)
  <1>1. /\ r \in Seq(V) /\ Len(s) \in Nat /\ DOMAIN s = 1 .. Len(s) /\ DOMAIN r = 1 .. Len(s) + 1
        /\ \A i \in 1 .. Len(s) : r[i] = s[i]
        /\ r[Len(s) + 1] = m
    OBVIOUS
  <1> HIDE DEF r
  <1>2. Elems(r) = Elems(s) \cup {m}
    <2>1. \A i \in DOMAIN r : r[i] \in Elems(s) \cup {m}
      <3> TAKE i \in DOMAIN r
      <3>1. i \in DOMAIN s \/ i = Len(s) + 1
        BY <1>1
      <3> QED BY <1>1, <3>1 DEF Elems
    <2>2. \A i \in DOMAIN s : s[i] \in Elems(r)
      BY <1>1 DEF Elems
    <2>3. m \in Elems(r)
      <3>1. Len(s) + 1 \in DOMAIN r
        BY <1>1
      <3> QED BY <1>1, <3>1 DEF Elems
    <2> QED BY <2>1, <2>2, <2>3 DEF Elems
  <1>3. ASSUME NEW R, SortedBy(s, R), \A e \in Elems(s) : <<e, m>> \in R
        PROVE  SortedBy(r, R)
    <2> SUFFICES ASSUME NEW i \in DOMAIN r, NEW j \in DOMAIN r, i < j
                 PROVE  <<r[i], r[j]>> \in R
      BY DEF SortedBy
    <2>1. i \in DOMAIN s /\ r[i] = s[i] /\ s[i] \in Elems(s)
      BY <1>1 DEF Elems
    <2>2. CASE j \in DOMAIN s
      BY <1>1, <1>3, <2>1, <2>2 DEF SortedBy
    <2>3. CASE j \notin DOMAIN s
      <3>1. r[j] = m
        BY <1>1, <2>3
      <3> QED BY <1>3, <2>1, <3>1
    <2> QED BY <2>2, <2>3
  <1> QED BY <1>1, <1>2, <1>3 DEF r

\* What concatenation makes of two sequences.
LEMMA ConcatElems ==
    ASSUME NEW V, NEW s \in Seq(V), NEW t \in Seq(V)
    PROVE  /\ s \o t \in Seq(V)
           /\ Elems(s \o t) = Elems(s) \cup Elems(t)
           /\ \A R : SortedBy(s, R) /\ SortedBy(t, R)
                    /\ (\A e \in Elems(s), f \in Elems(t) : <<e, f>> \in R) => SortedBy(s \o t, R)
  <1> DEFINE r == s \o t
  <1>1. /\ r \in Seq(V) /\ Len(s) \in Nat /\ Len(t) \in Nat
        /\ DOMAIN s = 1 .. Len(s) /\ DOMAIN t = 1 .. Len(t)
        /\ DOMAIN r = 1 .. Len(s) + Len(t)
        /\ \A i \in 1 .. Len(s) + Len(t) : r[i] = IF i <= Len(s) THEN s[i] ELSE t[i - Len(s)]
    OBVIOUS
  <1> HIDE DEF r
  <1>2. \A i \in DOMAIN r : \/ i \in DOMAIN s /\ r[i] = s[i]
                            \/ i - Len(s) \in DOMAIN t /\ r[i] = t[i - Len(s)] /\ i \notin DOMAIN s
    BY <1>1
  <1>3. Elems(r) = Elems(s) \cup Elems(t)
    <2>1. \A i \in DOMAIN r : r[i] \in Elems(s) \cup Elems(t)
      BY <1>2 DEF Elems
    <2>2. \A i \in DOMAIN s : i \in DOMAIN r /\ r[i] = s[i]
      BY <1>1
    <2>3. \A i \in DOMAIN t : i + Len(s) \in DOMAIN r /\ r[i + Len(s)] = t[i]
      BY <1>1
    <2>4. Elems(r) \subseteq Elems(s) \cup Elems(t)
      BY <2>1 DEF Elems
    <2>5. Elems(s) \subseteq Elems(r)
      BY <2>2 DEF Elems
    <2>6. Elems(t) \subseteq Elems(r)
      BY <2>3 DEF Elems
    <2> QED BY <2>4, <2>5, <2>6
  <1>4. ASSUME NEW R, SortedBy(s, R), SortedBy(t, R), \A e \in Elems(s), f \in Elems(t) : <<e, f>> \in R
        PROVE  SortedBy(r, R)
    <2> SUFFICES ASSUME NEW i \in DOMAIN r, NEW j \in DOMAIN r, i < j
                 PROVE  <<r[i], r[j]>> \in R
      BY DEF SortedBy
    <2>1. CASE i \in DOMAIN s /\ j \in DOMAIN s
      BY <1>2, <1>4, <1>1, <2>1 DEF SortedBy
    <2>2. CASE i \in DOMAIN s /\ j \notin DOMAIN s
      <3>1. r[i] \in Elems(s) /\ r[j] \in Elems(t)
        BY <1>1, <1>2, <2>2 DEF Elems
      <3> QED BY <1>4, <3>1
    <2>3. CASE i \notin DOMAIN s
      <3>1. j \notin DOMAIN s
        BY <1>1, <2>3
      <3>2. i - Len(s) \in DOMAIN t /\ j - Len(s) \in DOMAIN t /\ i - Len(s) < j - Len(s)
            /\ r[i] = t[i - Len(s)] /\ r[j] = t[j - Len(s)]
        BY <1>1, <1>2, <2>3, <3>1
      <3> QED BY <1>4, <3>2 DEF SortedBy
    <2> QED BY <2>1, <2>2, <2>3
  <1> QED BY <1>1, <1>3, <1>4 DEF r

\* What taking the head leaves.
LEMMA TailElems ==
    ASSUME NEW V, NEW s \in Seq(V), s # <<>>
    PROVE  /\ Tail(s) \in Seq(V) /\ Head(s) \in V
           /\ Elems(s) = Elems(Tail(s)) \cup {Head(s)}
           /\ \A R : SortedBy(s, R) => /\ SortedBy(Tail(s), R)
                                      /\ \A e \in Elems(Tail(s)) : <<Head(s), e>> \in R
  <1> DEFINE r == Tail(s)
  <1>1. /\ r \in Seq(V) /\ Head(s) \in V /\ Len(s) \in Nat /\ Len(s) > 0 /\ Head(s) = s[1]
        /\ DOMAIN s = 1 .. Len(s) /\ DOMAIN r = 1 .. Len(s) - 1
        /\ \A i \in 1 .. Len(s) - 1 : r[i] = s[i + 1]
    OBVIOUS
  <1> HIDE DEF r
  <1>2. \A i \in DOMAIN r : i + 1 \in DOMAIN s /\ r[i] = s[i + 1] /\ 1 < i + 1
    BY <1>1
  <1>3. \A i \in DOMAIN s : i = 1 \/ (i - 1 \in DOMAIN r /\ r[i - 1] = s[i])
    BY <1>1
  <1>4. Elems(s) = Elems(r) \cup {Head(s)}
    <2>1. Elems(s) \subseteq Elems(r) \cup {Head(s)}
      BY <1>1, <1>3 DEF Elems
    <2>2. Elems(r) \subseteq Elems(s)
      BY <1>2 DEF Elems
    <2>3. Head(s) \in Elems(s)
      BY <1>1 DEF Elems
    <2> QED BY <2>1, <2>2, <2>3
  <1>5. ASSUME NEW R, SortedBy(s, R)
        PROVE  SortedBy(r, R) /\ \A e \in Elems(r) : <<Head(s), e>> \in R
    <2>1. \A i, j \in DOMAIN r : i < j => i + 1 < j + 1
      BY <1>1
    <2>2. SortedBy(r, R)
      BY <1>2, <1>5, <2>1 DEF SortedBy
    <2>3. 1 \in DOMAIN s
      BY <1>1
    <2>4. \A i \in DOMAIN r : <<Head(s), r[i]>> \in R
      BY <1>1, <1>2, <1>5, <2>3 DEF SortedBy
    <2> QED BY <2>2, <2>4 DEF Elems
  <1> QED BY <1>1, <1>4, <1>5 DEF r

\* What dropping the last element leaves.
LEMMA FrontElems ==
    ASSUME NEW V, NEW s \in Seq(V), s # <<>>
    PROVE  LET r == SubSeq(s, 1, Len(s) - 1)
           IN  /\ r \in Seq(V)
               /\ Elems(s) = Elems(r) \cup {s[Len(s)]}
               /\ \A R : SortedBy(s, R) => SortedBy(r, R)
  <1> DEFINE r == SubSeq(s, 1, Len(s) - 1)
  <1>1. /\ r \in Seq(V) /\ Len(s) \in Nat /\ Len(s) > 0
        /\ DOMAIN s = 1 .. Len(s) /\ DOMAIN r = 1 .. Len(s) - 1
        /\ \A i \in 1 .. Len(s) - 1 : r[i] = s[i]
    OBVIOUS
  <1> HIDE DEF r
  <1>2. \A i \in DOMAIN r : i \in DOMAIN s /\ r[i] = s[i]
    BY <1>1
  <1>3. \A i \in DOMAIN s : i = Len(s) \/ (i \in DOMAIN r /\ r[i] = s[i])
    BY <1>1
  <1>4. Len(s) \in DOMAIN s
    BY <1>1
  <1>5. Elems(s) = Elems(r) \cup {s[Len(s)]}
    BY <1>2, <1>3, <1>4 DEF Elems
  <1>6. \A R : SortedBy(s, R) => SortedBy(r, R)
    BY <1>2 DEF SortedBy
  <1> QED BY <1>1, <1>5, <1>6 DEF r

\* Picking keeps the order, and gives exactly the picked elements.
LEMMA PickOrdered ==
    ASSUME NEW V, NEW s \in Seq(V), NEW I
    PROVE  /\ Pick(s, I) \in Seq(V)
           /\ Elems(Pick(s, I)) = {s[i] : i \in I \cap (DOMAIN s)}
           /\ \A R : SortedBy(s, R) => SortedBy(Pick(s, I), R)
  <1> DEFINE r == Pick(s, I)
             J == {i \in I : i \in 1 .. Len(s)}
  <1>1. Len(s) \in Nat /\ DOMAIN s = 1 .. Len(s)
    OBVIOUS
  <1>2. r \in Seq(V) /\ Lists(r, s, I, Len(s))
    BY <1>1, PickLists
  <1> HIDE DEF r
  <1>3. DOMAIN r = 1 .. Len(r)
    BY <1>2
  <1>4. PICK h \in [1 .. Len(r) -> J] :
            /\ \A i \in J : \E j \in 1 .. Len(r) : h[j] = i
            /\ \A j, k \in 1 .. Len(r) : j < k => h[j] < h[k]
            /\ \A j \in 1 .. Len(r) : r[j] = s[h[j]]
    BY <1>2 DEF Lists
  <1>5. \A j \in DOMAIN r : h[j] \in I /\ h[j] \in DOMAIN s /\ r[j] = s[h[j]]
    BY <1>1, <1>3, <1>4
  <1>6. Elems(r) = {s[i] : i \in I \cap (DOMAIN s)}
    <2>1. ASSUME NEW i \in I \cap (DOMAIN s)
          PROVE  s[i] \in Elems(r)
      BY <1>1, <1>3, <1>4, <2>1 DEF Elems
    <2> QED BY <1>5, <2>1 DEF Elems
  <1>7. \A R : SortedBy(s, R) => SortedBy(r, R)
    BY <1>3, <1>4, <1>5 DEF SortedBy
  <1> QED BY <1>2, <1>6, <1>7 DEF r

\* first names a member of every set of what is left of S.
Leads(S, first) == \A T \in SUBSET S : T # {} => first[T] \in T

\* Each part is in order, and all of the next one to come is before what is left.
Chained(S, first, part, R) ==
    /\ \A x \in S : SortedBy(part[x], R)
    /\ \A T \in SUBSET S : \A x \in T : x # first[T] =>
          \A e \in Elems(part[first[T]]), f \in Elems(part[x]) : <<e, f>> \in R

\* f is the recursion of Strung over the subsets of S with at most n elements.
StrungUpto(f, S, first, part, n) ==
    f = [T \in {T \in SUBSET S : Cardinality(T) <= n} |->
           IF T = {} THEN <<>> ELSE part[first[T]] \o f[T \ {first[T]}]]

\* Such an f exists for every n.
LEMMA StrungExists ==
    ASSUME NEW S, IsFiniteSet(S), NEW first, \A T \in SUBSET S : T # {} => first[T] \in T, NEW part
    PROVE  \A n \in Nat : \E f : StrungUpto(f, S, first, part, n)
  <1> DEFINE Small(n) == {T \in SUBSET S : Cardinality(T) <= n}
             N == {n \in Nat : \E f : StrungUpto(f, S, first, part, n)}
  <1>1. ASSUME NEW T \in SUBSET S
        PROVE  /\ Cardinality(T) \in Nat
               /\ Cardinality(T) = 0 <=> T = {}
               /\ T # {} => /\ T \ {first[T]} \in SUBSET S
                            /\ Cardinality(T \ {first[T]}) = Cardinality(T) - 1
    <2>1. IsFiniteSet(T)
      BY FS_Subset
    <2>2. Cardinality(T) \in Nat /\ (Cardinality(T) = 0 <=> T = {})
      BY <2>1, FS_CardinalityType, FS_EmptySet
    <2>3. T # {} => Cardinality(T \ {first[T]}) = Cardinality(T) - 1
      BY <2>1, FS_RemoveElement
    <2> QED BY <2>2, <2>3
  <1>2. 0 \in N
    <2> DEFINE f == [T \in Small(0) |-> <<>>]
    <2>1. ASSUME NEW T \in Small(0) PROVE T = {}
      <3>1. T \in SUBSET S /\ Cardinality(T) <= 0
        OBVIOUS
      <3>2. Cardinality(T) \in Nat /\ (Cardinality(T) = 0 => T = {})
        BY <1>1, <3>1
      <3> QED BY <3>1, <3>2
    <2>2. f = [T \in Small(0) |-> IF T = {} THEN <<>> ELSE part[first[T]] \o f[T \ {first[T]}]]
      BY <2>1
    <2> HIDE DEF f
    <2>3. StrungUpto(f, S, first, part, 0)
      BY <2>2 DEF StrungUpto
    <2> QED BY <2>3
  <1>3. ASSUME NEW n \in Nat, n \in N
        PROVE  n + 1 \in N
    <2>1. PICK f : StrungUpto(f, S, first, part, n)
      BY <1>3
    <2> DEFINE g == [T \in Small(n + 1) |->
                       IF T \in Small(n) THEN f[T] ELSE part[first[T]] \o f[T \ {first[T]}]]
    <2>2. \A T \in Small(n) : f[T] = IF T = {} THEN <<>> ELSE part[first[T]] \o f[T \ {first[T]}]
      BY <2>1 DEF StrungUpto
    <2>3. ASSUME NEW T \in Small(n + 1)
          PROVE  g[T] = IF T = {} THEN <<>> ELSE part[first[T]] \o g[T \ {first[T]}]
      <3>1. T # {} => T \ {first[T]} \in Small(n) /\ T \ {first[T]} \in Small(n + 1)
        BY <1>1
      <3>2. T # {} => g[T \ {first[T]}] = f[T \ {first[T]}]
        BY <3>1
      <3>3. CASE T \in Small(n)
        <4>1. g[T] = f[T]
          BY <3>3
        <4> QED BY <2>2, <3>2, <3>3, <4>1
      <3>4. CASE T \notin Small(n)
        <4>1. T # {}
          BY <1>1, <3>4
        <4>2. g[T] = part[first[T]] \o f[T \ {first[T]}]
          BY <3>4
        <4> QED BY <3>2, <4>1, <4>2
      <3> QED BY <3>3, <3>4
    <2>4. g = [T \in Small(n + 1) |-> g[T]]
      OBVIOUS
    <2> HIDE DEF g
    <2>5. StrungUpto(g, S, first, part, n + 1)
      BY <2>3, <2>4 DEF StrungUpto
    <2> QED BY <2>5
  <1> HIDE DEF N
  <1>4. Nat \subseteq N
    BY <1>2, <1>3, Inductive
  <1> QED BY <1>4 DEF N

\* A finite set's sequences strung together: all their elements, and in order when each
\* is and the next to come is before what is left.
LEMMA StrungOrdered ==
    ASSUME NEW S, IsFiniteSet(S), NEW V, NEW R, NEW part, \A x \in S : part[x] \in Seq(V),
           NEW first, Leads(S, first)
    PROVE  LET r == Strung(S, first, part)
           IN  /\ r \in Seq(V)
               /\ \A e : e \in Elems(r) <=> \E x \in S : e \in Elems(part[x])
               /\ Chained(S, first, part, R) => SortedBy(r, R)
  <1> DEFINE from == CHOOSE f : f = [T \in SUBSET S |->
                        IF T = {} THEN <<>> ELSE part[first[T]] \o f[T \ {first[T]}]]
             C == Cardinality(S)
             Fits(T) == /\ from[T] \in Seq(V)
                        /\ \A e : e \in Elems(from[T]) <=> \E x \in T : e \in Elems(part[x])
                        /\ Chained(S, first, part, R) => SortedBy(from[T], R)
             N == {n \in Nat : \A T \in SUBSET S : Cardinality(T) = n => Fits(T)}
  <1>1. Strung(S, first, part) = from[S]
    BY DEF Strung
  <1>10. \A T \in SUBSET S : T # {} => first[T] \in T
    BY DEF Leads
  <1>2. ASSUME NEW T \in SUBSET S
        PROVE  /\ Cardinality(T) \in Nat /\ Cardinality(T) <= C /\ C \in Nat
               /\ Cardinality(T) = 0 <=> T = {}
               /\ T # {} => /\ T \ {first[T]} \in SUBSET S
                            /\ Cardinality(T \ {first[T]}) = Cardinality(T) - 1
    <2>1. IsFiniteSet(T)
      BY FS_Subset
    <2>2. Cardinality(T) \in Nat /\ (Cardinality(T) = 0 <=> T = {}) /\ Cardinality(T) <= C /\ C \in Nat
      BY <2>1, FS_CardinalityType, FS_EmptySet, FS_Subset
    <2>3. T # {} => Cardinality(T \ {first[T]}) = Cardinality(T) - 1
      BY <1>10, <2>1, FS_RemoveElement
    <2> QED BY <1>10, <2>2, <2>3
  <1>3. \E f : f = [T \in SUBSET S |-> IF T = {} THEN <<>> ELSE part[first[T]] \o f[T \ {first[T]}]]
    <2>1. {T \in SUBSET S : Cardinality(T) <= C} = SUBSET S
      BY <1>2
    <2>2. C \in Nat
      BY <1>2
    <2>3. \E f : StrungUpto(f, S, first, part, C)
      BY <1>10, <2>2, StrungExists
    <2> QED BY <2>1, <2>3 DEF StrungUpto
  <1>4. from = [T \in SUBSET S |-> IF T = {} THEN <<>> ELSE part[first[T]] \o from[T \ {first[T]}]]
    BY <1>3
  <1> HIDE DEF from
  <1>5. \A T \in SUBSET S : from[T] = IF T = {} THEN <<>> ELSE part[first[T]] \o from[T \ {first[T]}]
    BY <1>4
  <1>6. 0 \in N
    <2> SUFFICES ASSUME NEW T \in SUBSET S, Cardinality(T) = 0 PROVE Fits(T)
      OBVIOUS
    <2>1. T = {} /\ from[T] = <<>>
      BY <1>2, <1>5
    <2>2. Elems(<<>>) = {} /\ SortedBy(<<>>, R) /\ <<>> \in Seq(V)
      BY DEF Elems, SortedBy
    <2> QED BY <2>1, <2>2
  <1>7. ASSUME NEW n \in Nat, n \in N
        PROVE  n + 1 \in N
    <2> SUFFICES ASSUME NEW T \in SUBSET S, Cardinality(T) = n + 1 PROVE Fits(T)
      OBVIOUS
    <2> DEFINE x == first[T]
               U == T \ {x}
    <2>1. T # {} /\ x \in T /\ U \in SUBSET S /\ Cardinality(U) = n
      BY <1>2, <1>10
    <2>2. Fits(U)
      BY <1>7, <2>1
    <2>3. from[T] = part[x] \o from[U]
      BY <1>5, <2>1
    <2>4. part[x] \in Seq(V) /\ x \in S
      BY <2>1
    <2> HIDE DEF x, U
    <2> DEFINE a == part[x]
               b == from[U]
    <2>9. a \in Seq(V) /\ b \in Seq(V) /\ from[T] = a \o b
      BY <2>2, <2>3, <2>4
    <2> HIDE DEF a, b
    <2>10. /\ a \o b \in Seq(V)
           /\ Elems(a \o b) = Elems(a) \cup Elems(b)
           /\ SortedBy(a, R) /\ SortedBy(b, R)
              /\ (\A e \in Elems(a), f \in Elems(b) : <<e, f>> \in R) => SortedBy(a \o b, R)
      BY <2>9, ConcatElems
    <2>5. /\ from[T] \in Seq(V)
          /\ Elems(from[T]) = Elems(part[x]) \cup Elems(from[U])
          /\ SortedBy(part[x], R) /\ SortedBy(from[U], R)
             /\ (\A e \in Elems(part[x]), f \in Elems(from[U]) : <<e, f>> \in R)
             => SortedBy(from[T], R)
      BY <2>9, <2>10 DEF a, b
    <2>6. T = U \cup {x} /\ x \notin U
      BY <2>1 DEF U
    <2>7. \A e : e \in Elems(from[T]) <=> \E y \in T : e \in Elems(part[y])
      BY <2>2, <2>5, <2>6
    <2>8. ASSUME Chained(S, first, part, R)
          PROVE  SortedBy(from[T], R)
      <3>1. \A e \in Elems(part[x]), f \in Elems(from[U]) : <<e, f>> \in R
        <4> SUFFICES ASSUME NEW e \in Elems(part[x]), NEW f \in Elems(from[U]) PROVE <<e, f>> \in R
          OBVIOUS
        <4>1. PICK y \in U : f \in Elems(part[y])
          BY <2>2
        <4>2. y \in T /\ y # x
          BY <2>6, <4>1
        <4> QED BY <2>8, <4>1, <4>2 DEF Chained, x
      <3> QED BY <2>2, <2>4, <2>5, <2>8, <3>1 DEF Chained
    <2> QED BY <2>5, <2>7, <2>8
  <1> HIDE DEF N
  <1>8. C \in N
    <2>1. C \in Nat
      BY <1>2
    <2> QED BY <1>6, <1>7, <2>1, Inductive
  <1>9. Fits(S)
    BY <1>8 DEF N
  <1> QED BY <1>1, <1>9

\* A function from a finite set to the numbers has a highest value.
LEMMA HighestOf ==
    ASSUME NEW S, IsFiniteSet(S), S # {}, NEW f, \A x \in S : f[x] \in Nat
    PROVE  \E x \in S : \A y \in S : f[y] <= f[x]
  <1> DEFINE Tops(T) == \E x \in T : \A y \in T : f[y] <= f[x]
             N == {n \in Nat : \A T \in SUBSET S : Cardinality(T) = n /\ T # {} => Tops(T)}
  <1>1. ASSUME NEW T \in SUBSET S
        PROVE  /\ Cardinality(T) \in Nat
               /\ Cardinality(T) = 0 <=> T = {}
               /\ \A x \in T : Cardinality(T \ {x}) = Cardinality(T) - 1
    <2>1. IsFiniteSet(T)
      BY FS_Subset
    <2>2. Cardinality(T) \in Nat /\ (Cardinality(T) = 0 <=> T = {})
      BY <2>1, FS_CardinalityType, FS_EmptySet
    <2>3. \A x \in T : Cardinality(T \ {x}) = Cardinality(T) - 1
      BY <2>1, FS_RemoveElement
    <2> QED BY <2>2, <2>3
  <1>2. 0 \in N
    BY <1>1
  <1>3. ASSUME NEW n \in Nat, n \in N
        PROVE  n + 1 \in N
    <2> SUFFICES ASSUME NEW T \in SUBSET S, Cardinality(T) = n + 1, T # {} PROVE Tops(T)
      OBVIOUS
    <2>1. PICK x \in T : TRUE
      OBVIOUS
    <2> DEFINE U == T \ {x}
    <2>2. U \in SUBSET S /\ Cardinality(U) = n /\ T = U \cup {x}
      BY <1>1, <2>1
    <2>3. CASE U = {}
      <3>1. \A y \in T : y = x /\ f[y] \in Nat
        BY <2>2, <2>3
      <3> QED BY <2>1, <3>1
    <2>4. CASE U # {}
      <3>1. Tops(U)
        BY <1>3, <2>2, <2>4
      <3> HIDE DEF U
      <3>2. PICK z \in U : \A y \in U : f[y] <= f[z]
        BY <3>1
      <3>3. \A y \in T : f[y] \in Nat
        OBVIOUS
      <3>4. z \in T /\ \A y \in T : y \in U \/ y = x
        BY <2>2
      <3>5. CASE f[x] <= f[z]
        BY <3>2, <3>4, <3>5
      <3>6. CASE ~(f[x] <= f[z])
        <4>1. \A y \in T : f[y] <= f[x]
          BY <2>1, <3>2, <3>3, <3>4, <3>6
        <4> QED BY <2>1, <4>1
      <3> QED BY <3>5, <3>6
    <2> QED BY <2>3, <2>4
  <1> HIDE DEF N
  <1>4. Cardinality(S) \in N
    <2>1. Cardinality(S) \in Nat
      BY <1>1
    <2> QED BY <1>2, <1>3, <2>1, Inductive
  <1> QED BY <1>4 DEF N
=============================================================================
