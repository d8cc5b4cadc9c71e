----------------------------- MODULE DataTheorems -----------------------------
(***************************************************************************)
(* Facts about the data of the models: sums over the rows of a table, and  *)
(* the sequences of the front-end.  What a recursive function computes is  *)
(* shown by the least-number principle: the set of lengths for which a     *)
(* fact fails has no minimum, hence is empty.                              *)
(***************************************************************************)
EXTENDS Money, Lists, Integers, SequencesExt, FiniteSets, SequenceTheorems, FiniteSetTheorems, WellFoundedInduction, TLAPS

\* A non-empty set of naturals has a least element.
LEMMA LeastNumber ==
    ASSUME NEW T \in SUBSET Nat, T # {}
    PROVE  \E m \in T : \A k \in T : m <= k
<1>1. PICK m \in T : \A k \in T : ~ (<<k, m>> \in OpToRel(<, Nat))
  BY NatLessThanWellFounded, WFMin
<1>2. ASSUME NEW k \in T PROVE m <= k
  <2>1. <<k, m>> \notin OpToRel(<, Nat)
    BY <1>1
  <2>2. ~ (k < m)
    BY <2>1, k \in Nat, m \in Nat DEF OpToRel
  <2>3. QED BY <2>2
<1>3. QED BY <1>2

-----------------------------------------------------------------------------
(***************************************************************************)
(* Sums (Total).                                                           *)
(***************************************************************************)
\* s holds the partial sums of f up to n: what the recursive definition
\* inside Total asks for.
IsPartialSum(s, f, n) ==
    s = [i \in 0..n |-> IF i = 0 THEN 0 ELSE s[i - 1] + f[i]]

\* The recursive definition is satisfiable, with integer values, for every length.
LEMMA PartialSumsExist ==
    ASSUME NEW n \in Nat, NEW f \in [1..n -> Int]
    PROVE  \E s \in [0..n -> Int] : IsPartialSum(s, f, n)
<1> DEFINE Good(m) == \E s \in [0..m -> Int] :
                        s[0] = 0 /\ \A i \in 1..m : s[i] = s[i - 1] + f[i]
           Bad == {m \in 0..n : ~ Good(m)}
<1>1. Bad = {}
  <2> SUFFICES ASSUME Bad # {} PROVE FALSE
    OBVIOUS
  <2>1. PICK m \in Bad : \A k \in Bad : m <= k
    BY LeastNumber, Bad \in SUBSET Nat
  <2>2. m \in 0..n /\ ~ Good(m)
    BY <2>1
  <2>3. m # 0
    <3> DEFINE z == [i \in 0..0 |-> 0]
    <3>1. z \in [0..0 -> Int] /\ z[0] = 0
      OBVIOUS
    <3>2. \A i \in 1..0 : z[i] = z[i - 1] + f[i]
      OBVIOUS
    <3>3. Good(0)
      BY <3>1, <3>2
    <3> HIDE DEF Good
    <3>4. QED BY <3>3, <2>2
  <2>4. Good(m - 1)
    <3> HIDE DEF Good
    <3>1. m - 1 \in 0..n
      BY <2>2, <2>3
    <3>2. m - 1 \notin Bad
      BY <2>1, <2>2
    <3>3. QED BY <3>1, <3>2
  <2>5. PICK s \in [0..(m - 1) -> Int] :
               s[0] = 0 /\ \A i \in 1..(m - 1) : s[i] = s[i - 1] + f[i]
    BY <2>4
  <2> DEFINE t == [i \in 0..m |-> IF i = m THEN s[m - 1] + f[m] ELSE s[i]]
  <2>6. t \in [0..m -> Int]
    BY <2>2, <2>3
  <2>7. t[0] = 0
    BY <2>2, <2>3, <2>5
  <2>8. ASSUME NEW i \in 1..m PROVE t[i] = t[i - 1] + f[i]
    <3>1. t[i] = IF i = m THEN s[m - 1] + f[m] ELSE s[i]
      BY <2>2
    <3>2. i - 1 # m /\ i - 1 \in 0..m
      BY <2>2
    <3>3. t[i - 1] = s[i - 1]
      BY <3>2
    <3> HIDE DEF t
    <3>4. CASE i = m
      BY <3>1, <3>3, <3>4
    <3>5. CASE i # m
      <4>1. i \in 1..(m - 1)
        BY <3>5, <2>2
      <4>2. QED BY <4>1, <3>1, <3>3, <3>5, <2>5
    <3>6. QED BY <3>4, <3>5
  <2>9. Good(m)
    <3> HIDE DEF t
    <3>1. QED BY <2>6, <2>7, <2>8
  <2> HIDE DEF Good
  <2>10. QED BY <2>9, <2>2
<1>2. Good(n)
  <2> HIDE DEF Good
  <2>1. QED BY <1>1
<1>3. PICK s \in [0..n -> Int] : s[0] = 0 /\ \A i \in 1..n : s[i] = s[i - 1] + f[i]
  BY <1>2
<1>4. s = [i \in 0..n |-> IF i = 0 THEN 0 ELSE s[i - 1] + f[i]]
  <2>1. \A i \in 0..n : s[i] = IF i = 0 THEN 0 ELSE s[i - 1] + f[i]
    BY <1>3
  <2>2. QED BY <2>1
<1>5. QED BY <1>4 DEF IsPartialSum


\* Total is the last of some partial sums.
LEMMA TotalIsPartialSum ==
    ASSUME NEW n \in Nat, NEW f \in [1..n -> Int]
    PROVE  \E s \in [0..n -> Int] :
              /\ s[0] = 0
              /\ \A i \in 1..n : s[i] = s[i - 1] + f[i]
              /\ Total(f, n) = s[n]
<1> DEFINE S == CHOOSE s : IsPartialSum(s, f, n)
<1>1. IsPartialSum(S, f, n)
  BY PartialSumsExist
<1>2. Total(f, n) = S[n]
  BY DEF Total, IsPartialSum
<1> HIDE DEF S
<1>3. /\ DOMAIN S = 0..n
      /\ S[0] = 0
      /\ \A i \in 1..n : S[i] = S[i - 1] + f[i]
  <2>1. S = [i \in 0..n |-> IF i = 0 THEN 0 ELSE S[i - 1] + f[i]]
    BY <1>1 DEF IsPartialSum
  <2>2. QED BY <2>1
<1> DEFINE Bad == {m \in 0..n : S[m] \notin Int}
<1>4. Bad = {}
  <2> SUFFICES ASSUME Bad # {} PROVE FALSE
    OBVIOUS
  <2>1. PICK m \in Bad : \A k \in Bad : m <= k
    BY LeastNumber, Bad \in SUBSET Nat
  <2>2. m \in 1..n
    BY <2>1, <1>3
  <2>3. m - 1 \in 0..n /\ m - 1 \notin Bad
    BY <2>1, <2>2
  <2>4. S[m] \in Int
    BY <2>2, <2>3, <1>3
  <2>5. QED BY <2>1, <2>4
<1>5. S \in [0..n -> Int]
  <2>1. S = [i \in 0..n |-> S[i]]
    BY <1>1 DEF IsPartialSum
  <2>2. QED BY <2>1, <1>4
<1>6. QED BY <1>2, <1>3, <1>5

LEMMA TotalType ==
    ASSUME NEW n \in Nat, NEW f \in [1..n -> Int]
    PROVE  Total(f, n) \in Int
BY TotalIsPartialSum

\* Changing one entry changes the total by the difference: what reserving,
\* settling or voiding one refund does to the sum over its payment's refunds.
LEMMA TotalUpdate ==
    ASSUME NEW n \in Nat, NEW f \in [1..n -> Int], NEW g \in [1..n -> Int],
           NEW k \in 1..n, \A i \in 1..n : i # k => g[i] = f[i]
    PROVE  Total(g, n) = Total(f, n) - f[k] + g[k]
<1> DEFINE v == g[k]
<1>1. g[k] = v /\ v \in Int /\ \A i \in 1..n : i # k => g[i] = f[i]
  OBVIOUS
<1> HIDE DEF v
<1>2. PICK s \in [0..n -> Int] :
        s[0] = 0 /\ (\A i \in 1..n : s[i] = s[i - 1] + f[i]) /\ Total(f, n) = s[n]
  BY TotalIsPartialSum
<1>3. PICK t \in [0..n -> Int] :
        t[0] = 0 /\ (\A i \in 1..n : t[i] = t[i - 1] + g[i]) /\ Total(g, n) = t[n]
  BY <1>1, TotalIsPartialSum
<1> DEFINE Same(m) == t[m] = s[m] + (IF k <= m THEN v - f[k] ELSE 0)
           Bad == {m \in 0..n : ~ Same(m)}
<1>4. Bad = {}
  <2> SUFFICES ASSUME Bad # {} PROVE FALSE
    OBVIOUS
  <2>1. PICK m \in Bad : \A j \in Bad : m <= j
    BY LeastNumber, Bad \in SUBSET Nat
  <2>2. m \in 0..n /\ ~ Same(m)
    BY <2>1
  <2>3. m # 0
    BY <2>2, <1>2, <1>3
  <2>4. m - 1 \in 0..n /\ m \in 1..n
    BY <2>2, <2>3
  <2>5. Same(m - 1)
    <3> HIDE DEF Same
    <3>1. m - 1 \notin Bad
      BY <2>1, <2>4
    <3>2. QED BY <3>1, <2>4
  <2>6. t[m] = t[m - 1] + g[m] /\ s[m] = s[m - 1] + f[m]
    BY <2>4, <1>2, <1>3
  <2>7. f[m] \in Int /\ g[m] \in Int /\ s[m - 1] \in Int /\ t[m - 1] \in Int
    BY <2>4, <1>1
  <2>8. f[k] \in Int /\ s[m] \in Int /\ t[m] \in Int /\ k \in Int /\ m \in Int
    BY <2>2
  <2>9. CASE m = k
    <3>1. t[m - 1] = s[m - 1] /\ g[m] = v
      BY <2>9, <2>5, <2>7, <1>1
    <3>2. t[m] = s[m] + (v - f[k])
      BY <3>1, <2>6, <2>7, <2>8, <2>9
    <3>3. QED BY <3>2, <2>2, <2>9, <2>8
  <2>10. CASE m # k
    <3>1. g[m] = f[m]
      BY <2>10, <2>4, <1>1
    <3>2. (k <= m) = (k <= m - 1)
      BY <2>10, <2>8
    <3> DEFINE d == IF k <= m - 1 THEN v - f[k] ELSE 0
    <3>3. t[m] = s[m] + d
      <4>1. t[m - 1] = s[m - 1] + d
        BY <2>5
      <4>2. d \in Int
        BY <1>1, <2>8
      <4>3. t[m] = t[m - 1] + f[m]
        BY <3>1, <2>6
      <4> HIDE DEF d
      <4>4. \A a, b, c \in Int : (a + b) + c = (a + c) + b
        OBVIOUS
      <4>5. t[m] = (s[m - 1] + d) + f[m]
        BY <4>1, <4>3
      <4>6. t[m] = (s[m - 1] + f[m]) + d
        BY <4>2, <4>4, <4>5, <2>7
      <4>7. QED BY <4>6, <2>6
    <3>4. QED BY <3>2, <3>3, <2>2
  <2>11. QED BY <2>9, <2>10
<1>5. Same(n)
  <2>1. n \in 0..n
    OBVIOUS
  <2>2. n \notin Bad
    BY <1>4
  <2>3. QED BY <2>1, <2>2
<1>6. s[n] \in Int /\ f[k] \in Int
  OBVIOUS
<1>7. QED BY <1>1, <1>2, <1>3, <1>5, <1>6

\* The total is monotone in every entry.
LEMMA TotalMonotone ==
    ASSUME NEW n \in Nat, NEW f \in [1..n -> Int], NEW g \in [1..n -> Int],
           \A i \in 1..n : f[i] <= g[i]
    PROVE  Total(f, n) <= Total(g, n)
<1>1. PICK s \in [0..n -> Int] :
        s[0] = 0 /\ (\A i \in 1..n : s[i] = s[i - 1] + f[i]) /\ Total(f, n) = s[n]
  BY TotalIsPartialSum
<1>2. PICK t \in [0..n -> Int] :
        t[0] = 0 /\ (\A i \in 1..n : t[i] = t[i - 1] + g[i]) /\ Total(g, n) = t[n]
  BY TotalIsPartialSum
<1> DEFINE Bad == {m \in 0..n : ~ (s[m] <= t[m])}
<1>3. Bad = {}
  <2> SUFFICES ASSUME Bad # {} PROVE FALSE
    OBVIOUS
  <2>1. PICK m \in Bad : \A j \in Bad : m <= j
    BY LeastNumber, Bad \in SUBSET Nat
  <2>2. m \in 1..n /\ m - 1 \in 0..n /\ m - 1 \notin Bad
    BY <2>1, <1>1, <1>2
  <2>3. s[m - 1] <= t[m - 1]
    BY <2>2
  <2>4. QED BY <2>1, <2>2, <2>3, <1>1, <1>2
<1>4. s[n] <= t[n]
  <2>1. n \in 0..n
    OBVIOUS
  <2>2. n \notin Bad
    BY <1>3
  <2>3. QED BY <2>1, <2>2
<1>5. QED BY <1>1, <1>2, <1>4

\* The total of a table of zeros.
LEMMA TotalZero ==
    ASSUME NEW n \in Nat, NEW f \in [1..n -> Int], \A i \in 1..n : f[i] = 0
    PROVE  Total(f, n) = 0
<1>1. PICK s \in [0..n -> Int] :
        s[0] = 0 /\ (\A i \in 1..n : s[i] = s[i - 1] + f[i]) /\ Total(f, n) = s[n]
  BY TotalIsPartialSum
<1> DEFINE Bad == {m \in 0..n : s[m] # 0}
<1>2. Bad = {}
  <2> SUFFICES ASSUME Bad # {} PROVE FALSE
    OBVIOUS
  <2>1. PICK m \in Bad : \A j \in Bad : m <= j
    BY LeastNumber, Bad \in SUBSET Nat
  <2>2. m \in 1..n /\ m - 1 \in 0..n /\ m - 1 \notin Bad
    BY <2>1, <1>1
  <2>3. QED BY <2>1, <2>2, <1>1
<1>3. QED BY <1>1, <1>2

\* Entries that are never negative total at least any one of them.
LEMMA TotalAtLeastEntry ==
    ASSUME NEW n \in Nat, NEW f \in [1..n -> Int], \A i \in 1..n : f[i] >= 0, NEW k \in 1..n
    PROVE  Total(f, n) >= f[k]
<1> DEFINE z == [i \in 1..n |-> 0]
           g == [z EXCEPT ![k] = f[k]]
<1>1. z \in [1..n -> Int] /\ g \in [1..n -> Int]
  OBVIOUS
<1>2. \A i \in 1..n : g[i] <= f[i]
  OBVIOUS
<1>3. Total(z, n) = 0
  BY TotalZero
<1>4. z[k] = 0 /\ f[k] \in Int
  OBVIOUS
<1>5. Total(g, n) = Total(z, n) - z[k] + f[k]
  <2>1. \A i \in 1..n : i # k => g[i] = z[i]
    OBVIOUS
  <2>2. g[k] = f[k]
    OBVIOUS
  <2> HIDE DEF z, g
  <2>3. Total(g, n) = Total(z, n) - z[k] + g[k]
    BY <1>1, <2>1, TotalUpdate
  <2>4. QED BY <2>2, <2>3
<1>6. Total(g, n) <= Total(f, n)
  <2> HIDE DEF g
  <2>1. QED BY <1>1, <1>2, TotalMonotone
<1>7. Total(f, n) \in Int
  BY TotalType
<1> HIDE DEF z, g
<1>8. QED BY <1>3, <1>4, <1>5, <1>6, <1>7

-----------------------------------------------------------------------------
(***************************************************************************)
(* Sequences.                                                              *)
(***************************************************************************)
\* No element occurs twice.
Distinct(s) == \A a, b \in DOMAIN s : s[a] = s[b] => a = b

\* What the recursion inside Kept asks of the list of prefixes.
Keeps(f, s, S) ==
    f = [n \in 0..Len(s) |-> IF n = 0 THEN <<>> ELSE IF s[n] \in S THEN Append(f[n - 1], s[n]) ELSE f[n - 1]]

\* A function over the lengths up to n that is right up to n exists.
LEMMA KeepsExists ==
    ASSUME NEW D, NEW s \in Seq(D), NEW S
    PROVE  \E f : Keeps(f, s, S)
<1> DEFINE Good(n) == \E f \in [0..n -> Seq(D)] :
                 f[0] = <<>> /\ \A k \in 1..n : f[k] = IF s[k] \in S THEN Append(f[k - 1], s[k]) ELSE f[k - 1]
           Bad == {n \in 0..Len(s) : ~ Good(n)}
<1>1. Bad = {}
  <2> SUFFICES ASSUME Bad # {} PROVE FALSE
    OBVIOUS
  <2>1. PICK m \in Bad : \A k \in Bad : m <= k
    BY LeastNumber, Bad \in SUBSET Nat
  <2>2. m \in 0..Len(s) /\ ~ Good(m)
    BY <2>1
  <2>3. m # 0
    <3> DEFINE z == [i \in 0..0 |-> <<>>]
    <3>1. z \in [0..0 -> Seq(D)] /\ z[0] = <<>>
      OBVIOUS
    <3>2. Good(0)
      <4> HIDE DEF z
      <4>1. \A k \in 1..0 : FALSE
        OBVIOUS
      <4>2. QED BY <3>1, <4>1
    <3> HIDE DEF Good
    <3>3. QED BY <3>2, <2>2
  <2>4. Good(m - 1)
    <3> HIDE DEF Good
    <3>1. m - 1 \in 0..Len(s) /\ ~ (m <= m - 1)
      BY <2>2, <2>3
    <3>2. QED BY <3>1, <2>1
  <2>5. PICK f \in [0..(m - 1) -> Seq(D)] :
           f[0] = <<>> /\ \A k \in 1..(m - 1) : f[k] = IF s[k] \in S THEN Append(f[k - 1], s[k]) ELSE f[k - 1]
    BY <2>4
  <2> DEFINE last == IF s[m] \in S THEN Append(f[m - 1], s[m]) ELSE f[m - 1]
             g == [i \in 0..m |-> IF i = m THEN last ELSE f[i]]
  <2>6. last \in Seq(D)
    <3>1. f[m - 1] \in Seq(D) /\ s[m] \in D
      BY <2>2, <2>3
    <3>2. QED BY <3>1
  <2>7. g \in [0..m -> Seq(D)]
    BY <2>6, <2>2
  <2>8. g[0] = <<>> /\ \A k \in 1..m : g[k] = IF s[k] \in S THEN Append(g[k - 1], s[k]) ELSE g[k - 1]
    <3>1. \A k \in 0..(m - 1) : g[k] = f[k]
      <4>1. \A k \in 0..(m - 1) : k \in 0..m /\ k # m
        BY <2>2
      <4>2. QED BY <4>1, Zenon
    <3>2. g[m] = last
      BY <2>2
    <3> HIDE DEF g
    <3>3. g[0] = <<>>
      BY <3>1, <2>5, <2>2, <2>3
    <3>4. ASSUME NEW k \in 1..m PROVE g[k] = IF s[k] \in S THEN Append(g[k - 1], s[k]) ELSE g[k - 1]
      <4>1. k - 1 \in 0..(m - 1) /\ (k = m \/ (k \in 1..(m - 1) /\ k \in 0..(m - 1)))
        BY <2>2
      <4>2. CASE k = m
        BY <4>1, <4>2, <3>1, <3>2, Zenon
      <4>3. CASE k \in 1..(m - 1) /\ k \in 0..(m - 1)
        BY <4>1, <4>3, <3>1, <2>5, Zenon
      <4>4. QED BY <4>1, <4>2, <4>3
    <3>5. QED BY <3>3, <3>4
  <2>9. Good(m)
    BY <2>7, <2>8
  <2> HIDE DEF Good
  <2>10. QED BY <2>9, <2>2
<1>2. Good(Len(s))
  <2> HIDE DEF Good
  <2>1. Len(s) \in 0..Len(s)
    OBVIOUS
  <2>2. QED BY <1>1, <2>1
<1>3. PICK f \in [0..Len(s) -> Seq(D)] :
         f[0] = <<>> /\ \A k \in 1..Len(s) : f[k] = IF s[k] \in S THEN Append(f[k - 1], s[k]) ELSE f[k - 1]
  BY <1>2
<1>4. Keeps(f, s, S)
  <2> DEFINE h == [n \in 0..Len(s) |-> IF n = 0 THEN <<>> ELSE IF s[n] \in S THEN Append(f[n - 1], s[n]) ELSE f[n - 1]]
  <2>1. \A n \in 0..Len(s) : f[n] = h[n]
    <3> HIDE DEF Good, Bad
    <3>1. f[0] = h[0]
      BY <1>3
    <3>2. ASSUME NEW n \in 1..Len(s) PROVE f[n] = h[n]
      <4>1. h[n] = IF s[n] \in S THEN Append(f[n - 1], s[n]) ELSE f[n - 1]
        <5>1. n \in 0..Len(s) /\ n # 0
          OBVIOUS
        <5>2. QED BY <5>1, Zenon
      <4>2. QED BY <4>1, <1>3, Zenon
    <3> HIDE DEF h
    <3>3. \A n \in 0..Len(s) : n = 0 \/ n \in 1..Len(s)
      OBVIOUS
    <3>4. QED BY <3>1, <3>2, <3>3, Zenon
  <2>2. f = h
    BY <2>1, <1>3
  <2>3. QED BY <2>2 DEF Keeps
<1>5. QED BY <1>4

\* Kept returns the elements in S and no others, each as often as it occurred.
LEMMA KeptFacts ==
    ASSUME NEW D, NEW s \in Seq(D), NEW S
    PROVE  /\ Kept(s, S) \in Seq(D)
           /\ ToSet(Kept(s, S)) = ToSet(s) \cap S
           /\ Distinct(s) => Distinct(Kept(s, S))
<1> DEFINE kept == CHOOSE f : Keeps(f, s, S)
<1>1. Keeps(kept, s, S)
  BY KeepsExists
<1>2. Kept(s, S) = kept[Len(s)]
  BY DEF Kept, Keeps
<1> DEFINE Fine(n) == /\ kept[n] \in Seq(D)
                      /\ \A x : (\E j \in 1..Len(kept[n]) : kept[n][j] = x) <=> x \in S /\ \E i \in 1..n : s[i] = x
                      /\ Distinct(s) => Distinct(kept[n])
           Bad == {n \in 0..Len(s) : ~ Fine(n)}
<1>3. /\ kept[0] = <<>>
      /\ \A n \in 1..Len(s) : kept[n] = IF s[n] \in S THEN Append(kept[n - 1], s[n]) ELSE kept[n - 1]
  <2> HIDE DEF kept, Fine, Bad
  <2>1. \A n \in 0..Len(s) : kept[n] = IF n = 0 THEN <<>> ELSE IF s[n] \in S THEN Append(kept[n - 1], s[n]) ELSE kept[n - 1]
    BY <1>1, Zenon DEF Keeps
  <2>2. 0 \in 0..Len(s) /\ \A n \in 1..Len(s) : n \in 0..Len(s) /\ n # 0
    OBVIOUS
  <2>3. QED BY <2>1, <2>2, Zenon
<1> HIDE DEF kept
<1>4. Fine(0)
  <2>1. kept[0] = <<>> /\ Len(kept[0]) = 0 /\ kept[0] \in Seq(D)
    BY <1>3
  <2>2. Distinct(kept[0])
    BY <2>1 DEF Distinct
  <2>3. \A x : ~ (\E j \in 1..Len(kept[0]) : kept[0][j] = x) /\ ~ (\E i \in 1..0 : s[i] = x)
    BY <2>1
  <2>4. QED BY <2>1, <2>2, <2>3
<1>5. ASSUME NEW n \in 1..Len(s), Fine(n - 1) PROVE Fine(n)
  <2>1. CASE s[n] \notin S
    <3>1. kept[n] = kept[n - 1]
      BY <2>1, <1>3
    <3>2. \A x : (x \in S /\ \E i \in 1..n : s[i] = x) <=> (x \in S /\ \E i \in 1..(n - 1) : s[i] = x)
      BY <2>1
    <3>3. QED BY <3>1, <3>2, <1>5
  <2>2. CASE s[n] \in S
    <3> DEFINE k == kept[n - 1]
    <3>0. k \in Seq(D)
      BY <1>5
    <3>1. kept[n] = Append(k, s[n]) /\ s[n] \in D
      <4> HIDE DEF Fine, Bad
      <4>1. s[n] \in D
        OBVIOUS
      <4>2. QED BY <4>1, <2>2, <1>3, Zenon
    <3> HIDE DEF k
    <3>2. /\ kept[n] \in Seq(D) /\ Len(kept[n]) = Len(k) + 1 /\ kept[n][Len(k) + 1] = s[n]
          /\ \A j \in 1..Len(k) : kept[n][j] = k[j]
      BY <3>0, <3>1
    <3>3. \A x : (\E j \in 1..Len(k) : k[j] = x) <=> x \in S /\ \E i \in 1..(n - 1) : s[i] = x
      BY <1>5 DEF k
    <3>4. \A x : (\E j \in 1..Len(kept[n]) : kept[n][j] = x) <=> x \in S /\ \E i \in 1..n : s[i] = x
      <4> TAKE x
      <4>1. (\E j \in 1..Len(kept[n]) : kept[n][j] = x) <=> (\E j \in 1..Len(k) : k[j] = x) \/ s[n] = x
        BY <3>0, <3>1, <3>2
      <4>2. (\E i \in 1..n : s[i] = x) <=> (\E i \in 1..(n - 1) : s[i] = x) \/ s[n] = x
        OBVIOUS
      <4>3. QED BY <4>1, <4>2, <3>3, <2>2
    <3>5. Distinct(s) => Distinct(kept[n])
      <4> SUFFICES ASSUME Distinct(s) PROVE Distinct(kept[n])
        OBVIOUS
      <4>1. Distinct(k)
        BY <1>5 DEF k
      <4>2. \A j \in 1..Len(k) : k[j] # s[n]
        <5> SUFFICES ASSUME NEW j \in 1..Len(k), k[j] = s[n] PROVE FALSE
          OBVIOUS
        <5>1. PICK i \in 1..(n - 1) : s[i] = s[n]
          BY <3>3
        <5>2. QED BY <5>1 DEF Distinct
      <4>3. QED BY <4>1, <4>2, <3>0, <3>1, <3>2 DEF Distinct
    <3>6. QED BY <3>2, <3>4, <3>5
  <2>3. QED BY <2>1, <2>2
<1>6. Bad = {}
  <2> SUFFICES ASSUME Bad # {} PROVE FALSE
    OBVIOUS
  <2>1. PICK m \in Bad : \A k \in Bad : m <= k
    BY LeastNumber, Bad \in SUBSET Nat
  <2>2. m \in 0..Len(s) /\ ~ Fine(m)
    BY <2>1
  <2> HIDE DEF Fine
  <2>3. m # 0
    BY <1>4, <2>2
  <2>4. Fine(m - 1)
    <3>1. m - 1 \in 0..Len(s) /\ ~ (m <= m - 1)
      BY <2>2, <2>3
    <3>2. QED BY <3>1, <2>1
  <2>5. QED BY <1>5, <2>2, <2>3, <2>4
<1>7. Fine(Len(s))
  <2> HIDE DEF Fine
  <2>1. Len(s) \in 0..Len(s)
    OBVIOUS
  <2>2. QED BY <1>6, <2>1
<1>8. QED BY <1>2, <1>7 DEF ToSet

\* The elements of a sequence are of its type, and finitely many.
LEMMA ToSetFacts ==
    ASSUME NEW D, NEW s \in Seq(D)
    PROVE  /\ ToSet(s) \in SUBSET D
           /\ IsFiniteSet(ToSet(s))
           /\ Cardinality(ToSet(s)) \in Nat
           /\ \A x : x \in ToSet(s) <=> \E i \in 1..Len(s) : s[i] = x
<1>1. \A x : x \in ToSet(s) <=> \E i \in 1..Len(s) : s[i] = x
  BY DEF ToSet
<1>2. s \in Surjection(1..Len(s), ToSet(s))
  BY <1>1 DEF Surjection
<1>3. IsFiniteSet(ToSet(s))
  BY <1>2, FS_Surjection, FS_Interval, Len(s) \in Nat, 1 \in Int, Len(s) \in Int
<1>4. QED BY <1>1, <1>3, FS_CardinalityType

LEMMA TailFacts ==
    ASSUME NEW D, NEW s \in Seq(D), s # <<>>
    PROVE  /\ Head(s) \in D /\ Tail(s) \in Seq(D)
           /\ ToSet(s) = {Head(s)} \cup ToSet(Tail(s))
           /\ Distinct(s) => Distinct(Tail(s)) /\ Head(s) \notin ToSet(Tail(s))
<1>1. /\ Head(s) \in D /\ Tail(s) \in Seq(D) /\ Len(Tail(s)) = Len(s) - 1 /\ Len(s) \in Nat \ {0}
      /\ \A i \in 1..Len(Tail(s)) : Tail(s)[i] = s[i + 1]
      /\ Head(s) = s[1]
  BY HeadTailProperties, EmptySeq
<1> DEFINE t == Tail(s)
<1> HIDE DEF t
<1>2. /\ t \in Seq(D) /\ Len(t) = Len(s) - 1
      /\ \A i \in 1..Len(t) : t[i] = s[i + 1]
  BY <1>1 DEF t
<1>3. \A x : x \in ToSet(s) <=> \E i \in 1..Len(s) : s[i] = x
  BY DEF ToSet
<1>4. \A x : x \in ToSet(t) <=> \E i \in 1..Len(t) : t[i] = x
  BY <1>2 DEF ToSet
<1>5. ASSUME NEW x PROVE x \in ToSet(s) <=> x = Head(s) \/ x \in ToSet(t)
  <2>1. ASSUME NEW i \in 1..Len(s), s[i] = x PROVE x = Head(s) \/ x \in ToSet(t)
    <3>1. CASE i = 1
      BY <3>1, <2>1, <1>1
    <3>2. CASE i # 1
      <4>1. i - 1 \in 1..Len(t) /\ t[i - 1] = x
        BY <3>2, <2>1, <1>1, <1>2
      <4>2. QED BY <4>1, <1>4
    <3>3. QED BY <3>1, <3>2
  <2>2. ASSUME NEW i \in 1..Len(t), t[i] = x PROVE x \in ToSet(s)
    <3>1. i + 1 \in 1..Len(s) /\ s[i + 1] = x
      BY <2>2, <1>1, <1>2
    <3>2. QED BY <3>1, <1>3
  <2>3. Head(s) \in ToSet(s)
    BY <1>1, <1>3
  <2>4. QED BY <2>1, <2>2, <2>3, <1>3, <1>4
<1>6. ASSUME Distinct(s) PROVE Distinct(t) /\ Head(s) \notin ToSet(t)
  <2>1. \A a, b \in 1..Len(s) : s[a] = s[b] => a = b
    BY <1>6 DEF Distinct
  <2>2. \A i \in 1..Len(t) : i + 1 \in 1..Len(s) /\ t[i] = s[i + 1]
    BY <1>1, <1>2
  <2>3. \A a, b \in 1..Len(t) : t[a] = t[b] => a = b
    <3> SUFFICES ASSUME NEW a \in 1..Len(t), NEW b \in 1..Len(t), t[a] = t[b] PROVE a = b
      OBVIOUS
    <3>1. a + 1 = b + 1
      BY <2>1, <2>2
    <3>2. QED BY <3>1
  <2>4. \A i \in 1..Len(t) : t[i] # s[1]
    <3> SUFFICES ASSUME NEW i \in 1..Len(t), t[i] = s[1] PROVE FALSE
      OBVIOUS
    <3>1. i + 1 = 1
      BY <2>1, <2>2, <1>1
    <3>2. QED BY <3>1
  <2>5. QED BY <2>3, <2>4, <1>1, <1>2, <1>4 DEF Distinct
<1>7. QED BY <1>1, <1>5, <1>6 DEF t

LEMMA AppendFacts ==
    ASSUME NEW D, NEW s \in Seq(D), NEW e \in D
    PROVE  /\ Append(s, e) \in Seq(D)
           /\ ToSet(Append(s, e)) = ToSet(s) \cup {e}
           /\ Distinct(s) /\ e \notin ToSet(s) => Distinct(Append(s, e))
<1> DEFINE t == Append(s, e)
<1>1. /\ t \in Seq(D) /\ Len(t) = Len(s) + 1 /\ t[Len(s) + 1] = e
      /\ \A i \in 1..Len(s) : t[i] = s[i]
  OBVIOUS
<1> HIDE DEF t
<1>2. \A i \in 1..Len(t) : (i \in 1..Len(s) /\ t[i] = s[i]) \/ (i = Len(s) + 1 /\ t[i] = e)
  BY <1>1
<1>3. ToSet(t) = ToSet(s) \cup {e}
  <2>1. \A i \in 1..Len(s) : i \in 1..Len(t)
    BY <1>1
  <2>2. Len(s) + 1 \in 1..Len(t)
    BY <1>1
  <2>3. QED BY <1>1, <1>2, <2>1, <2>2 DEF ToSet
<1>4. ASSUME Distinct(s), e \notin ToSet(s) PROVE Distinct(t)
  BY <1>1, <1>2, <1>4 DEF Distinct, ToSet
<1>5. QED BY <1>1, <1>3, <1>4 DEF t

LEMMA ConcatFacts ==
    ASSUME NEW D, NEW s \in Seq(D), NEW t \in Seq(D)
    PROVE  /\ s \o t \in Seq(D)
           /\ ToSet(s \o t) = ToSet(s) \cup ToSet(t)
           /\ Distinct(s) /\ Distinct(t) /\ ToSet(s) \cap ToSet(t) = {} => Distinct(s \o t)
<1> DEFINE u == s \o t
<1>1. /\ u \in Seq(D) /\ Len(u) = Len(s) + Len(t)
      /\ \A i \in 1..(Len(s) + Len(t)) : u[i] = IF i <= Len(s) THEN s[i] ELSE t[i - Len(s)]
  BY ConcatProperties
<1> HIDE DEF u
<1>2. \A i \in 1..Len(u) : \/ (i \in 1..Len(s) /\ u[i] = s[i])
                          \/ (i - Len(s) \in 1..Len(t) /\ u[i] = t[i - Len(s)])
  BY <1>1
<1>3. \A i \in 1..Len(s) : i \in 1..Len(u) /\ u[i] = s[i]
  BY <1>1
<1>4. \A i \in 1..Len(t) : i + Len(s) \in 1..Len(u) /\ u[i + Len(s)] = t[i]
  BY <1>1
<1>5. ToSet(u) = ToSet(s) \cup ToSet(t)
  <2>1. \A x : x \in ToSet(u) <=> \E i \in 1..Len(u) : u[i] = x
    BY <1>1, ToSetFacts
  <2>2. \A x : x \in ToSet(s) <=> \E i \in 1..Len(s) : s[i] = x
    BY ToSetFacts
  <2>3. \A x : x \in ToSet(t) <=> \E i \in 1..Len(t) : t[i] = x
    BY ToSetFacts
  <2>4. ASSUME NEW x \in ToSet(u) PROVE x \in ToSet(s) \cup ToSet(t)
    BY <2>1, <2>2, <2>3, <2>4, <1>2
  <2>5. ASSUME NEW x \in ToSet(s) PROVE x \in ToSet(u)
    BY <2>1, <2>2, <1>3
  <2>6. ASSUME NEW x \in ToSet(t) PROVE x \in ToSet(u)
    BY <2>1, <2>3, <1>4
  <2>7. QED BY <2>4, <2>5, <2>6
<1>6. ASSUME Distinct(s), Distinct(t), ToSet(s) \cap ToSet(t) = {} PROVE Distinct(u)
  <2>0. /\ \A a, b \in 1..Len(s) : s[a] = s[b] => a = b
        /\ \A a, b \in 1..Len(t) : t[a] = t[b] => a = b
    BY <1>6 DEF Distinct
  <2>1. \A a \in 1..Len(s), b \in 1..Len(t) : s[a] # t[b]
    BY <1>6 DEF ToSet
  <2>2. SUFFICES ASSUME NEW a \in 1..Len(u), NEW b \in 1..Len(u), u[a] = u[b] PROVE a = b
    BY <1>1 DEF Distinct
  <2>3. CASE a \in 1..Len(s) /\ u[a] = s[a] /\ b \in 1..Len(s) /\ u[b] = s[b]
    BY <2>0, <2>2, <2>3
  <2>4. CASE a - Len(s) \in 1..Len(t) /\ u[a] = t[a - Len(s)] /\ b - Len(s) \in 1..Len(t) /\ u[b] = t[b - Len(s)]
    <3>1. a - Len(s) = b - Len(s)
      BY <2>0, <2>2, <2>4
    <3>2. a \in Nat /\ b \in Nat /\ Len(s) \in Nat
      BY <1>1
    <3>3. QED BY <3>1, <3>2
  <2>5. QED BY <1>2, <2>1, <2>2, <2>3, <2>4
<1>7. QED BY <1>1, <1>5, <1>6 DEF u

\* A sequence without its i-th element holds elements of other places only.
LEMMA RemoveAtFacts ==
    ASSUME NEW D, NEW s \in Seq(D), NEW i \in 1..Len(s)
    PROVE  /\ RemoveAt(s, i) \in Seq(D)
           /\ Len(RemoveAt(s, i)) = Len(s) - 1
           /\ \A j \in 1..Len(RemoveAt(s, i)) :
                 RemoveAt(s, i)[j] = s[IF j < i THEN j ELSE j + 1]
<1> DEFINE a == SubSeq(s, 1, i - 1)
           b == SubSeq(s, i + 1, Len(s))
<1>1. a \in Seq(D) /\ Len(a) = i - 1 /\ \A j \in 1..(i - 1) : a[j] = s[j]
  OBVIOUS
<1>2. b \in Seq(D) /\ Len(b) = Len(s) - i /\ \A j \in 1..(Len(s) - i) : b[j] = s[i + j]
  OBVIOUS
<1>3. RemoveAt(s, i) = a \o b
  BY DEF RemoveAt
<1> HIDE DEF a, b
<1>4. /\ a \o b \in Seq(D) /\ Len(a \o b) = Len(a) + Len(b)
      /\ \A j \in 1..(Len(a) + Len(b)) : (a \o b)[j] = IF j <= Len(a) THEN a[j] ELSE b[j - Len(a)]
  BY <1>1, <1>2, ConcatProperties
<1>5. ASSUME NEW j \in 1..Len(a \o b) PROVE (a \o b)[j] = s[IF j < i THEN j ELSE j + 1]
  <2>1. CASE j < i
    BY <2>1, <1>1, <1>2, <1>4
  <2>2. CASE ~ (j < i)
    <3>1. j - Len(a) \in 1..(Len(s) - i) /\ ~ (j <= Len(a)) /\ i + (j - Len(a)) = j + 1 /\ j \in 1..(Len(a) + Len(b))
      BY <2>2, <1>1, <1>2, <1>4
    <3>2. (a \o b)[j] = b[j - Len(a)] /\ b[j - Len(a)] = s[i + (j - Len(a))]
      BY <3>1, <1>2, <1>4
    <3>3. QED BY <3>1, <3>2, <2>2
  <2>3. QED BY <2>1, <2>2
<1>6. QED BY <1>1, <1>2, <1>3, <1>4, <1>5

\* A finite set as a sequence: all its elements, each once.
LEMMA SetToSeqFacts ==
    ASSUME NEW S, IsFiniteSet(S)
    PROVE  SetToSeq(S) \in Seq(S) /\ ToSet(SetToSeq(S)) = S /\ Distinct(SetToSeq(S))
<1> DEFINE n == Cardinality(S)
           s == SetToSeq(S)
<1>1. n \in Nat /\ ExistsBijection(1..n, S)
  BY FS_CardinalityType
<1>2. \E f \in [1..n -> S] : IsInjective(f)
  BY <1>1 DEF ExistsBijection, Bijection, Injection, IsInjective
<1>3. s \in [1..n -> S] /\ IsInjective(s)
  BY <1>2 DEF SetToSeq
<1> HIDE DEF s
<1>4. s \in Injection(1..n, S)
  BY <1>3 DEF Injection, IsInjective
<1>5. s \in Surjection(1..n, S)
  <2>1. Cardinality(1..n) = n
    BY <1>1, FS_Interval
  <2>2. QED BY <1>4, <2>1, FS_Injection
<1>6. s \in Seq(S) /\ DOMAIN s = 1..n
  BY <1>1, <1>3
<1>7. QED BY <1>3, <1>5, <1>6 DEF ToSet, Distinct, Surjection, IsInjective, s

\* What is left when one element is removed was there, at another place.
LEMMA RemainingFacts ==
    ASSUME NEW cs, cs \in Seq(ToSet(cs)), NEW i \in DOMAIN cs, NEW rs, rs = RemoveAt(cs, i)
    PROVE  \A j, k \in DOMAIN rs : \E m, n \in DOMAIN cs : m # i /\ n # i /\ rs[j] = cs[m] /\ rs[k] = cs[n] /\ (m = n => j = k)
<1> DEFINE D == ToSet(cs)
<1> HIDE DEF D
<1>0. cs \in Seq(D)
  BY Zenon DEF D
<1>1. cs \in Seq(D) /\ i \in 1..Len(cs) /\ DOMAIN cs = 1..Len(cs) /\ Len(cs) \in Nat
  BY <1>0
<1>2. /\ rs \in Seq(D) /\ Len(rs) = Len(cs) - 1
      /\ \A j \in 1..Len(rs) : rs[j] = cs[IF j < i THEN j ELSE j + 1]
  BY <1>1, RemoveAtFacts, Zenon
<1>3. DOMAIN rs = 1..Len(rs)
  BY <1>2
<1> SUFFICES ASSUME NEW j \in 1..Len(rs), NEW k \in 1..Len(rs)
             PROVE  \E m, n \in DOMAIN cs : m # i /\ n # i /\ rs[j] = cs[m] /\ rs[k] = cs[n] /\ (m = n => j = k)
  BY <1>3
<1> DEFINE m == IF j < i THEN j ELSE j + 1
           n == IF k < i THEN k ELSE k + 1
<1>4. m \in 1..Len(cs) /\ n \in 1..Len(cs) /\ m # i /\ n # i /\ (m = n => j = k)
  BY <1>1, <1>2
<1>5. rs[j] = cs[m] /\ rs[k] = cs[n]
  BY <1>2
<1> HIDE DEF m, n
<1>6. QED BY <1>1, <1>4, <1>5

\* A first element that passes stays the first one.
LEMMA KeptFirst ==
    ASSUME NEW D, NEW s \in Seq(D), NEW S, s # <<>>, s[1] \in S
    PROVE  Kept(s, S) # <<>> /\ Kept(s, S)[1] = s[1]
<1> DEFINE kept == CHOOSE f : Keeps(f, s, S)
<1>1. Keeps(kept, s, S)
  BY KeepsExists
<1>2. Kept(s, S) = kept[Len(s)]
  BY DEF Kept, Keeps
<1> DEFINE Fine(n) == kept[n] \in Seq(D) /\ Len(kept[n]) > 0 /\ kept[n][1] = s[1]
           Bad == {n \in 1..Len(s) : ~ Fine(n)}
<1>3. /\ kept[0] = <<>>
      /\ \A n \in 1..Len(s) : kept[n] = IF s[n] \in S THEN Append(kept[n - 1], s[n]) ELSE kept[n - 1]
  <2> HIDE DEF kept, Fine, Bad
  <2>1. \A n \in 0..Len(s) : kept[n] = IF n = 0 THEN <<>> ELSE IF s[n] \in S THEN Append(kept[n - 1], s[n]) ELSE kept[n - 1]
    BY <1>1, Zenon DEF Keeps
  <2>2. 0 \in 0..Len(s) /\ \A n \in 1..Len(s) : n \in 0..Len(s) /\ n # 0
    OBVIOUS
  <2>3. QED BY <2>1, <2>2, Zenon
<1> HIDE DEF kept
<1>4. Len(s) \in Nat \ {0} /\ \A n \in 1..Len(s) : s[n] \in D
  OBVIOUS
<1>5. Fine(1)
  <2>1. 1 \in 1..Len(s)
    BY <1>4
  <2>2. kept[1] = Append(kept[1 - 1], s[1])
    <3> HIDE DEF Fine, Bad
    <3>1. QED BY <2>1, <1>3, Zenon
  <2>3. 1 - 1 = 0
    OBVIOUS
  <2>4. kept[1] = Append(<<>>, s[1])
    BY <2>2, <2>3, <1>3
  <2>5. QED BY <2>4, <1>4
<1>6. ASSUME NEW n \in 2..Len(s), Fine(n - 1) PROVE Fine(n)
  <2>1. kept[n] = IF s[n] \in S THEN Append(kept[n - 1], s[n]) ELSE kept[n - 1]
    BY <1>3
  <2> DEFINE k == kept[n - 1]
  <2>2. k \in Seq(D) /\ Len(k) > 0 /\ k[1] = s[1] /\ s[n] \in D
    BY <1>4, <1>6
  <2>3. kept[n] = IF s[n] \in S THEN Append(k, s[n]) ELSE k
    BY <2>1
  <2> HIDE DEF k
  <2>4. QED BY <2>2, <2>3
<1>7. Bad = {}
  <2> SUFFICES ASSUME Bad # {} PROVE FALSE
    OBVIOUS
  <2>1. PICK m \in Bad : \A k \in Bad : m <= k
    BY LeastNumber, Bad \in SUBSET Nat
  <2>2. m \in 1..Len(s) /\ ~ Fine(m)
    BY <2>1
  <2> HIDE DEF Fine
  <2>3. m # 1
    BY <1>5, <2>2
  <2>4. Fine(m - 1)
    <3>1. m - 1 \in 1..Len(s) /\ ~ (m <= m - 1)
      BY <2>2, <2>3
    <3>2. QED BY <3>1, <2>1
  <2>5. QED BY <1>6, <2>2, <2>3, <2>4
<1>8. Fine(Len(s))
  <2> HIDE DEF Fine
  <2>1. Len(s) \in 1..Len(s)
    BY <1>4
  <2>2. QED BY <1>7, <2>1
<1>9. QED BY <1>2, <1>8

\* An element of a concatenation is at its place in one of the two.
LEMMA ConcatPlaces ==
    ASSUME NEW D, NEW s \in Seq(D), NEW t \in Seq(D), NEW u, u = s \o t
    PROVE  /\ \A i \in DOMAIN u : \/ i \in DOMAIN s /\ u[i] = s[i]
                                  \/ \E k \in DOMAIN t : i = Len(s) + k /\ u[i] = t[k]
           /\ s = <<>> => u = t
           /\ s # <<>> => 1 \in DOMAIN s /\ u[1] = s[1]
           /\ u = <<>> => t = <<>>
<1>1. /\ u \in Seq(D) /\ Len(u) = Len(s) + Len(t) /\ Len(s) \in Nat /\ Len(t) \in Nat
      /\ \A i \in 1..Len(s) : u[i] = s[i]
      /\ \A i \in 1..Len(t) : u[Len(s) + i] = t[i]
  OBVIOUS
<1>2. ASSUME NEW i \in DOMAIN u
      PROVE  (i \in DOMAIN s /\ u[i] = s[i]) \/ \E k \in DOMAIN t : i = Len(s) + k /\ u[i] = t[k]
  <2>1. i \in 1..(Len(s) + Len(t)) /\ DOMAIN s = 1..Len(s) /\ DOMAIN t = 1..Len(t)
    BY <1>1, <1>2
  <2>2. CASE i \in 1..Len(s)
    BY <1>1, <2>1, <2>2
  <2>3. CASE i \notin 1..Len(s)
    <3> DEFINE k == i - Len(s)
    <3>1. k \in 1..Len(t) /\ i = Len(s) + k
      BY <1>1, <2>1, <2>3
    <3> HIDE DEF k
    <3>2. QED BY <1>1, <2>1, <3>1
  <2>4. QED BY <2>2, <2>3
<1>3. s = <<>> => u = t
  OBVIOUS
<1>4. s # <<>> => 1 \in DOMAIN s /\ u[1] = s[1]
  BY <1>1
<1>5. u = <<>> => t = <<>>
  BY <1>1
<1>6. QED BY <1>2, <1>3, <1>4, <1>5
===============================================================================
