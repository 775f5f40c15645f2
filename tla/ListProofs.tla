----------------------------- MODULE ListProofs -----------------------------
(***************************************************************************)
(* Facts about recursive functions on 0..n and about Filter, for lists of  *)
(* any length.  Induction is by a smallest counterexample: the sets here   *)
(* stand for the predicates that the provers cannot instantiate.           *)
(***************************************************************************)
EXTENDS Lists, WellFoundedInduction, TLAPS

\* A set of naturals has a smallest element.
LEMMA Smallest ==
    ASSUME NEW T, T \subseteq Nat, T # {}
    PROVE  \E x \in T : \A y \in T : x <= y
<1> DEFINE R == OpToRel(<, Nat)
<1>1. \A x, y \in Nat : y < x => <<y, x>> \in R
  BY DEF OpToRel
<1>2. IsWellFoundedOn(R, Nat)
  BY NatLessThanWellFounded
<1> HIDE DEF R
<1>3. PICK x \in T : \A y \in T : ~(<<y, x>> \in R)
  BY <1>2, WFMin, Zenon
<1>4. \A y \in T : ~(y < x)
  BY <1>1, <1>3, Zenon
<1>5. \A y \in T : x <= y
  BY <1>4
<1> QED
  BY <1>5

\* Induction: a set that has 0, and with i - 1 also i, has all of 0..n.
LEMMA Induction ==
    ASSUME NEW n \in Nat, NEW P, 0 \in P,
           \A i \in 1..n : i - 1 \in P => i \in P
    PROVE  0..n \subseteq P
<1> DEFINE Bad == (0..n) \ P
<1> SUFFICES ASSUME Bad # {} PROVE FALSE
  OBVIOUS
<1>1. Bad \subseteq Nat
  OBVIOUS
<1> HIDE DEF Bad
<1>2. PICK m \in Bad : \A k \in Bad : m <= k
  BY <1>1, Smallest
<1>3. m \in 1..n /\ m \notin P
  BY <1>2 DEF Bad
<1>4. m - 1 \in 0..n /\ m - 1 \notin Bad
  BY <1>2, <1>3
<1>5. m - 1 \in P
  BY <1>4 DEF Bad
<1> QED
  BY <1>3, <1>5

\* f starts with a and goes on with the step G.
Iterates(f, n, a, G) == f[0] = a /\ \A i \in 1..n : f[i] = G[<<f[i - 1], i>>]

Steps(S, n) == [S \X (1..n) -> S]

\* For every step there is such a function.
LEMMA Iteration ==
    ASSUME NEW S, NEW n \in Nat, NEW a \in S, NEW G \in Steps(S, n)
    PROVE  \E f \in [0..n -> S] : Iterates(f, n, a, G)
<1> USE DEF Steps
<1> DEFINE Is(f, m) == f[0] = a /\ \A i \in 1..m : f[i] = G[<<f[i - 1], i>>]
           P == {m \in 0..n : \E f \in [0..m -> S] : Is(f, m)}
<1>1. 0 \in P
  <2> DEFINE f == [i \in 0..0 |-> a]
  <2>1. f \in [0..0 -> S] /\ Is(f, 0)
    OBVIOUS
  <2> HIDE DEF f
  <2> QED
    BY <2>1
<1>2. ASSUME NEW m \in 1..n, m - 1 \in P PROVE m \in P
  <2>1. PICK f \in [0..(m - 1) -> S] : Is(f, m - 1)
    BY <1>2
  <2> DEFINE g == [i \in 0..m |-> IF i = m THEN G[<<f[m - 1], m>>] ELSE f[i]]
  <2>2. f[m - 1] \in S /\ \A i \in 0..(m - 1) : f[i] \in S
    BY <2>1
  <2>3. G[<<f[m - 1], m>>] \in S
    BY <2>2
  <2>4. g \in [0..m -> S]
    BY <2>2, <2>3
  <2>5. g[0] = a
    BY <2>1
  <2>6. \A i \in 1..m : g[i] = G[<<g[i - 1], i>>]
    <3>1. ASSUME NEW i \in 1..m PROVE g[i] = G[<<g[i - 1], i>>]
      <4>1. g[i - 1] = f[i - 1]
        OBVIOUS
      <4>2. CASE i = m
        <5>1. g[m] = G[<<f[m - 1], m>>]
          OBVIOUS
        <5> QED
          BY <4>1, <4>2, <5>1
      <4>3. CASE i # m
        <5>1. i \in 1..(m - 1) /\ g[i] = f[i]
          BY <4>3
        <5> QED
          BY <2>1, <4>1, <5>1
      <4> QED
        BY <4>2, <4>3
    <3> QED
      BY <3>1
  <2> HIDE DEF g
  <2>7. Is(g, m)
    BY <2>5, <2>6
  <2> QED
    BY <2>4, <2>7
<1>3. n \in P
  <2> HIDE DEF P
  <2>1. 0..n \subseteq P
    BY <1>1, <1>2, Induction
  <2> QED
    BY <2>1
<1> QED
  BY <1>3 DEF Iterates

\* The function that Filter is defined by.
Kept(seq, Keep, f) ==
    /\ f[0] = <<>>
    /\ \A i \in 1..Len(seq) :
         f[i] = IF seq[i] \in Keep THEN Append(f[i - 1], seq[i]) ELSE f[i - 1]

LEMMA FilterIs ==
    ASSUME NEW S, NEW seq \in Seq(S), NEW Keep
    PROVE  \E f : Kept(seq, Keep, f) /\ Filter(seq, Keep) = f[Len(seq)]
<1> DEFINE n == Len(seq)
           G == [x \in Seq(S) \X (1..n) |->
                   IF seq[x[2]] \in Keep THEN Append(x[1], seq[x[2]]) ELSE x[1]]
<1>1. n \in Nat /\ \A i \in 1..n : seq[i] \in S
  OBVIOUS
<1>2. G \in [Seq(S) \X (1..n) -> Seq(S)]
  BY <1>1
<1>3. \A s \in Seq(S), i \in 1..n :
         G[<<s, i>>] = IF seq[i] \in Keep THEN Append(s, seq[i]) ELSE s
  OBVIOUS
<1>4. <<>> \in Seq(S)
  OBVIOUS
<1> HIDE DEF G, n
<1>5. PICK f \in [0..n -> Seq(S)] :
         f[0] = <<>> /\ \A i \in 1..n : f[i] = G[<<f[i - 1], i>>]
  <2> DEFINE T == Seq(S)
             a == <<>>
  <2>1. n \in Nat /\ a \in T /\ G \in Steps(T, n)
    BY <1>1, <1>2, <1>4 DEF Steps
  <2> HIDE DEF T, a
  <2>2. \E f \in [0..n -> T] : Iterates(f, n, a, G)
    BY <2>1, Iteration
  <2> QED
    BY <2>2 DEF T, a, Iterates
<1>6. \A i \in 1..n : f[i] = IF seq[i] \in Keep THEN Append(f[i - 1], seq[i]) ELSE f[i - 1]
  <2>1. \A i \in 1..n : f[i - 1] \in Seq(S)
    BY <1>1, <1>5
  <2> QED
    BY <1>3, <1>5, <2>1
<1> DEFINE Rec(g) == [i \in 0..n |-> IF i = 0 THEN <<>>
                          ELSE IF seq[i] \in Keep THEN Append(g[i - 1], seq[i]) ELSE g[i - 1]]
<1>7. f = Rec(f)
  <2>1. \A i \in 0..n : i = 0 \/ i \in 1..n
    BY <1>1
  <2>2. \A i \in 0..n : f[i] = Rec(f)[i]
    BY <1>5, <1>6, <2>1
  <2> QED
    BY <1>5, <2>2
<1> HIDE DEF Rec
<1> DEFINE F == CHOOSE g : g = Rec(g)
<1>8. F = Rec(F)
  BY <1>7
<1>9. Filter(seq, Keep) = F[n]
  BY DEF Filter, Rec, n
<1> HIDE DEF F
<1>10. Kept(seq, Keep, F)
  <2>1. \A i \in 0..n : F[i] = Rec(F)[i]
    BY <1>8
  <2>2. F[0] = <<>>
    BY <1>1, <2>1 DEF Rec
  <2>3. \A i \in 1..n :
           F[i] = IF seq[i] \in Keep THEN Append(F[i - 1], seq[i]) ELSE F[i - 1]
    BY <1>1, <2>1 DEF Rec
  <2> QED
    BY <2>2, <2>3 DEF Kept, n
<1> QED
  BY <1>9, <1>10 DEF n

\* Filter takes its elements from the list, whatever it keeps.
LEMMA FilterType ==
    ASSUME NEW S, NEW seq \in Seq(S), NEW Keep
    PROVE  Filter(seq, Keep) \in Seq(S)
<1>1. PICK f : Kept(seq, Keep, f) /\ Filter(seq, Keep) = f[Len(seq)]
  BY FilterIs
<1> DEFINE P == {m \in 0..Len(seq) : f[m] \in Seq(S)}
<1>2. Len(seq) \in Nat /\ \A i \in 1..Len(seq) : seq[i] \in S
  OBVIOUS
<1>3. 0 \in P
  <2>1. f[0] = <<>>
    BY <1>1 DEF Kept
  <2>2. f[0] \in Seq(S)
    BY <2>1
  <2> QED
    BY <1>2, <2>2
<1>4. ASSUME NEW m \in 1..Len(seq), m - 1 \in P PROVE m \in P
  <2>1. f[m - 1] \in Seq(S)
    BY <1>4
  <2>2. f[m] = IF seq[m] \in Keep THEN Append(f[m - 1], seq[m]) ELSE f[m - 1]
    BY <1>1, <1>2 DEF Kept
  <2>3. f[m] \in Seq(S)
    BY <1>2, <2>1, <2>2
  <2> QED
    BY <2>3
<1>5. 0..Len(seq) \subseteq P
  <2> HIDE DEF P
  <2> QED
    BY <1>2, <1>3, <1>4, Induction
<1> QED
  BY <1>1, <1>2, <1>5

Rising(s) == \A i, j \in 1..Len(s) : i < j => s[i] < s[j]

\* The elements of s are among the first m of seq, and in Keep.
Among(s, seq, m, Keep) == \A i \in 1..Len(s) : s[i] \in Keep /\ \E j \in 1..m : s[i] = seq[j]

\* Filter keeps the order of a list of numbers, and adds nothing.
LEMMA FilterRises ==
    ASSUME NEW seq \in Seq(Nat), NEW Keep, Rising(seq)
    PROVE  /\ Filter(seq, Keep) \in Seq(Nat) /\ Rising(Filter(seq, Keep))
           /\ Among(Filter(seq, Keep), seq, Len(seq), Keep)
<1>1. PICK f : Kept(seq, Keep, f) /\ Filter(seq, Keep) = f[Len(seq)]
  BY FilterIs
<1> DEFINE P == {m \in 0..Len(seq) : f[m] \in Seq(Nat) /\ Rising(f[m]) /\ Among(f[m], seq, m, Keep)}
<1>2. Len(seq) \in Nat /\ \A i \in 1..Len(seq) : seq[i] \in Nat
  OBVIOUS
<1>3. 0 \in P
  <2>1. f[0] = <<>>
    BY <1>1, <1>2 DEF Kept
  <2>2. f[0] \in Seq(Nat) /\ Len(f[0]) = 0
    BY <2>1
  <2>3. Rising(f[0]) /\ Among(f[0], seq, 0, Keep)
    BY <2>2 DEF Rising, Among
  <2> QED
    BY <1>2, <2>2, <2>3
<1>4. ASSUME NEW m \in 1..Len(seq), m - 1 \in P PROVE m \in P
  <2>1. f[m - 1] \in Seq(Nat) /\ Rising(f[m - 1]) /\ Among(f[m - 1], seq, m - 1, Keep)
    BY <1>4
  <2>2. f[m] = IF seq[m] \in Keep THEN Append(f[m - 1], seq[m]) ELSE f[m - 1]
    BY <1>1, <1>2 DEF Kept
  <2>3. CASE seq[m] \notin Keep
    <3>1. Among(f[m - 1], seq, m, Keep)
      BY <1>2, <2>1 DEF Among
    <3> QED
      BY <2>1, <2>2, <2>3, <3>1
  <2>4. CASE seq[m] \in Keep
    <3> DEFINE s == f[m - 1]
               t == f[m]
    <3>1. s \in Seq(Nat) /\ t = Append(s, seq[m]) /\ seq[m] \in Nat
      BY <1>2, <2>1, <2>2, <2>4
    <3> HIDE DEF s, t
    <3>2. /\ t \in Seq(Nat) /\ Len(s) \in Nat /\ Len(t) = Len(s) + 1 /\ t[Len(s) + 1] = seq[m]
          /\ \A i \in 1..Len(s) : t[i] = s[i] /\ s[i] \in Nat
      BY <3>1
    <3>3. \A i \in 1..Len(s) : s[i] < seq[m]
      <4>1. \A j \in 1..(m - 1) : seq[j] < seq[m]
        BY <1>2 DEF Rising
      <4> QED
        BY <2>1, <4>1 DEF Among, s
    <3>4. Rising(s) /\ Among(s, seq, m - 1, Keep)
      BY <2>1 DEF s
    <3>5. Rising(t)
      <4> SUFFICES ASSUME NEW i \in 1..Len(t), NEW j \in 1..Len(t), i < j
                   PROVE  t[i] < t[j]
        BY DEF Rising
      <4>1. i \in 1..Len(s)
        BY <3>2
      <4>2. CASE j \in 1..Len(s)
        BY <3>2, <3>4, <4>1, <4>2 DEF Rising
      <4>3. CASE j = Len(s) + 1
        BY <3>2, <3>3, <4>1, <4>3
      <4>4. j \in 1..Len(s) \/ j = Len(s) + 1
        <5>1. Len(s) \in Nat /\ Len(t) = Len(s) + 1
          BY <3>2
        <5> QED
          BY <5>1
      <4> QED
        BY <4>2, <4>3, <4>4
    <3>6. Among(t, seq, m, Keep)
      <4> SUFFICES ASSUME NEW i \in 1..Len(t)
                   PROVE  t[i] \in Keep /\ \E j \in 1..m : t[i] = seq[j]
        BY DEF Among
      <4>1. CASE i \in 1..Len(s)
        <5>1. PICK j \in 1..(m - 1) : s[i] = seq[j]
          BY <3>4, <4>1 DEF Among
        <5>2. j \in 1..m /\ s[i] \in Keep
          BY <3>4, <4>1 DEF Among
        <5> QED
          BY <3>2, <4>1, <5>1, <5>2
      <4>2. CASE i = Len(s) + 1
        <5>1. m \in 1..m
          OBVIOUS
        <5> QED
          BY <2>4, <3>2, <4>2, <5>1
      <4> QED
        BY <3>2, <4>1, <4>2
    <3> QED
      BY <3>2, <3>5, <3>6 DEF t
  <2> QED
    BY <2>3, <2>4
<1>5. 0..Len(seq) \subseteq P
  <2> HIDE DEF P
  <2> QED
    BY <1>2, <1>3, <1>4, Induction
<1>6. Len(seq) \in P
  BY <1>2, <1>5
<1> QED
  BY <1>1, <1>6

OneToOne(s) == \A i, j \in 1..Len(s) : s[i] = s[j] => i = j

\* Each element of seq up to the m-th that is in Keep is in s.
Has(s, seq, m, Keep) == \A j \in 1..m : seq[j] \in Keep => \E i \in 1..Len(s) : s[i] = seq[j]

\* One element more, that is not in the list, leaves a list one-to-one.
LEMMA AppendOneToOne ==
    ASSUME NEW S, NEW s \in Seq(S), NEW x \in S, OneToOne(s),
           \A i \in 1..Len(s) : s[i] # x
    PROVE  OneToOne(Append(s, x))
<1> DEFINE t == Append(s, x)
<1>1. /\ Len(s) \in Nat /\ Len(t) = Len(s) + 1 /\ t[Len(s) + 1] = x
      /\ \A i \in 1..Len(s) : t[i] = s[i]
  OBVIOUS
<1> HIDE DEF t
<1> SUFFICES ASSUME NEW i \in 1..Len(t), NEW j \in 1..Len(t), t[i] = t[j]
             PROVE  i = j
  BY DEF OneToOne, t
<1>2. i \in 1..Len(s) \/ i = Len(s) + 1
  BY <1>1
<1>3. j \in 1..Len(s) \/ j = Len(s) + 1
  BY <1>1
<1>4. CASE i \in 1..Len(s) /\ j \in 1..Len(s)
  BY <1>1, <1>4 DEF OneToOne
<1>5. CASE i \in 1..Len(s) /\ j = Len(s) + 1
  BY <1>1, <1>5
<1>6. CASE i = Len(s) + 1 /\ j \in 1..Len(s)
  BY <1>1, <1>6
<1> QED
  BY <1>2, <1>3, <1>4, <1>5, <1>6

\* Filter gives the elements of a list that are in Keep, all of them, and each
\* once when the list has each once.
LEMMA FilterElements ==
    ASSUME NEW S, NEW seq \in Seq(S), NEW Keep, OneToOne(seq)
    PROVE  /\ Filter(seq, Keep) \in Seq(S) /\ OneToOne(Filter(seq, Keep))
           /\ Among(Filter(seq, Keep), seq, Len(seq), Keep)
           /\ Has(Filter(seq, Keep), seq, Len(seq), Keep)
<1>1. PICK f : Kept(seq, Keep, f) /\ Filter(seq, Keep) = f[Len(seq)]
  BY FilterIs
<1> DEFINE Good(s, m) == /\ s \in Seq(S) /\ OneToOne(s)
                         /\ Among(s, seq, m, Keep) /\ Has(s, seq, m, Keep)
           P == {m \in 0..Len(seq) : Good(f[m], m)}
<1>2. Len(seq) \in Nat /\ \A i \in 1..Len(seq) : seq[i] \in S
  OBVIOUS
<1>3. 0 \in P
  <2>1. f[0] = <<>>
    BY <1>1, <1>2 DEF Kept
  <2>2. f[0] \in Seq(S) /\ Len(f[0]) = 0
    BY <2>1
  <2>3. OneToOne(f[0]) /\ Among(f[0], seq, 0, Keep) /\ Has(f[0], seq, 0, Keep)
    BY <2>2 DEF OneToOne, Among, Has
  <2> QED
    BY <1>2, <2>2, <2>3
<1>4. ASSUME NEW m \in 1..Len(seq), m - 1 \in P PROVE m \in P
  <2> DEFINE s == f[m - 1]
             t == f[m]
  <2>1. Good(s, m - 1)
    BY <1>4
  <2>2. t = IF seq[m] \in Keep THEN Append(s, seq[m]) ELSE s
    BY <1>1, <1>2 DEF Kept
  <2> SUFFICES Good(t, m)
    OBVIOUS
  <2> HIDE DEF s, t
  <2>3. m \in Nat /\ m - 1 \in Nat /\ m \in 1..m /\ seq[m] \in S
    BY <1>2
  <2>4. \A j \in 1..m : j \in 1..(m - 1) \/ j = m
    BY <2>3
  <2>5. \A j \in 1..(m - 1) : j \in 1..m /\ j # m /\ j \in 1..Len(seq)
    BY <1>2, <2>3
  <2>6. CASE seq[m] \notin Keep
    <3>1. Among(s, seq, m, Keep)
      BY <2>1, <2>5 DEF Among
    <3>2. Has(s, seq, m, Keep)
      BY <2>1, <2>4, <2>6 DEF Has
    <3> QED
      BY <2>1, <2>2, <2>6, <3>1, <3>2
  <2>7. CASE seq[m] \in Keep
    <3>1. s \in Seq(S) /\ t = Append(s, seq[m])
      BY <2>1, <2>2, <2>7
    <3>2. /\ t \in Seq(S) /\ Len(s) \in Nat /\ Len(t) = Len(s) + 1
          /\ t[Len(s) + 1] = seq[m] /\ \A i \in 1..Len(s) : t[i] = s[i]
      BY <2>3, <3>1
    <3>3. \A i \in 1..Len(s) : s[i] # seq[m]
      BY <2>1, <2>5 DEF Among, OneToOne
    <3>4. OneToOne(t)
      BY <2>1, <2>3, <3>1, <3>3, AppendOneToOne
    <3>5. \A i \in 1..Len(t) : i \in 1..Len(s) \/ i = Len(s) + 1
      BY <3>2
    <3>6. Len(s) + 1 \in 1..Len(t) /\ \A i \in 1..Len(s) : i \in 1..Len(t)
      BY <3>2
    <3>7. Among(t, seq, m, Keep)
      BY <2>1, <2>3, <2>5, <2>7, <3>2, <3>5 DEF Among
    <3>8. Has(t, seq, m, Keep)
      BY <2>1, <2>4, <3>2, <3>6 DEF Has
    <3> QED
      BY <3>2, <3>4, <3>7, <3>8
  <2> QED
    BY <2>6, <2>7
<1>5. 0..Len(seq) \subseteq P
  <2> HIDE DEF P
  <2> QED
    BY <1>2, <1>3, <1>4, Induction
<1>6. Len(seq) \in P
  BY <1>2, <1>5
<1> QED
  BY <1>1, <1>6

\* Filter gives the elements of a list that are in Keep, and all of them.
LEMMA FilterKeeps ==
    ASSUME NEW S, NEW seq \in Seq(S), NEW Keep
    PROVE  /\ Filter(seq, Keep) \in Seq(S)
           /\ Among(Filter(seq, Keep), seq, Len(seq), Keep)
           /\ Has(Filter(seq, Keep), seq, Len(seq), Keep)
<1>1. PICK f : Kept(seq, Keep, f) /\ Filter(seq, Keep) = f[Len(seq)]
  BY FilterIs
<1> DEFINE Good(s, m) == s \in Seq(S) /\ Among(s, seq, m, Keep) /\ Has(s, seq, m, Keep)
           P == {m \in 0..Len(seq) : Good(f[m], m)}
<1>2. Len(seq) \in Nat /\ \A i \in 1..Len(seq) : seq[i] \in S
  OBVIOUS
<1>3. 0 \in P
  <2>1. f[0] = <<>>
    BY <1>1, <1>2 DEF Kept
  <2>2. f[0] \in Seq(S) /\ Len(f[0]) = 0
    BY <2>1
  <2>3. Among(f[0], seq, 0, Keep) /\ Has(f[0], seq, 0, Keep)
    BY <2>2 DEF Among, Has
  <2> QED
    BY <1>2, <2>2, <2>3
<1>4. ASSUME NEW m \in 1..Len(seq), m - 1 \in P PROVE m \in P
  <2> DEFINE s == f[m - 1]
             t == f[m]
  <2>1. Good(s, m - 1)
    BY <1>4
  <2>2. t = IF seq[m] \in Keep THEN Append(s, seq[m]) ELSE s
    BY <1>1, <1>2 DEF Kept
  <2> SUFFICES Good(t, m)
    OBVIOUS
  <2> HIDE DEF s, t
  <2>3. m \in Nat /\ m - 1 \in Nat /\ m \in 1..m /\ seq[m] \in S
    BY <1>2
  <2>4. \A j \in 1..m : j \in 1..(m - 1) \/ j = m
    BY <2>3
  <2>5. \A j \in 1..(m - 1) : j \in 1..m
    BY <2>3
  <2>6. CASE seq[m] \notin Keep
    <3>1. Among(s, seq, m, Keep)
      BY <2>1, <2>5 DEF Among
    <3>2. Has(s, seq, m, Keep)
      BY <2>1, <2>4, <2>6 DEF Has
    <3> QED
      BY <2>1, <2>2, <2>6, <3>1, <3>2
  <2>7. CASE seq[m] \in Keep
    <3>1. s \in Seq(S) /\ t = Append(s, seq[m])
      BY <2>1, <2>2, <2>7
    <3>2. /\ t \in Seq(S) /\ Len(s) \in Nat /\ Len(t) = Len(s) + 1
          /\ t[Len(s) + 1] = seq[m] /\ \A i \in 1..Len(s) : t[i] = s[i]
      BY <2>3, <3>1
    <3>3. \A i \in 1..Len(t) : i \in 1..Len(s) \/ i = Len(s) + 1
      BY <3>2
    <3>4. Len(s) + 1 \in 1..Len(t) /\ \A i \in 1..Len(s) : i \in 1..Len(t)
      BY <3>2
    <3>5. Among(t, seq, m, Keep)
      BY <2>1, <2>3, <2>5, <2>7, <3>2, <3>3 DEF Among
    <3>6. Has(t, seq, m, Keep)
      BY <2>1, <2>4, <3>2, <3>4 DEF Has
    <3> QED
      BY <3>2, <3>5, <3>6
  <2> QED
    BY <2>6, <2>7
<1>5. 0..Len(seq) \subseteq P
  <2> HIDE DEF P
  <2> QED
    BY <1>2, <1>3, <1>4, Induction
<1>6. Len(seq) \in P
  BY <1>2, <1>5
<1> QED
  BY <1>1, <1>6

\* The function that Through is defined by.
Leads(G, start, seq, f) ==
    f[0] = start /\ \A i \in 1..Len(seq) : f[i] = G[f[i - 1]][seq[i]]

LEMMA ThroughIs ==
    ASSUME NEW S, NEW E, NEW G, \A s \in S, e \in E : G[s][e] \in S,
           NEW start \in S, NEW seq \in Seq(E)
    PROVE  \E f : Leads(G, start, seq, f) /\ Through(G, start, seq) = f[Len(seq)]
<1> DEFINE n == Len(seq)
           H == [x \in S \X (1..n) |-> G[x[1]][seq[x[2]]]]
<1>1. n \in Nat /\ \A i \in 1..n : seq[i] \in E
  OBVIOUS
<1>2. \A s \in S, i \in 1..n : G[s][seq[i]] \in S
  BY <1>1
<1> HIDE DEF n
<1>3. H \in [S \X (1..n) -> S]
  BY <1>2
<1>4. \A s \in S, i \in 1..n : H[<<s, i>>] = G[s][seq[i]]
  OBVIOUS
<1> HIDE DEF H
<1>5. PICK f \in [0..n -> S] : f[0] = start /\ \A i \in 1..n : f[i] = H[<<f[i - 1], i>>]
  <2>1. H \in Steps(S, n)
    BY <1>3 DEF Steps
  <2>2. \E f \in [0..n -> S] : Iterates(f, n, start, H)
    BY <1>1, <2>1, Iteration
  <2> QED
    BY <2>2 DEF Iterates
<1>6. ASSUME NEW i \in 1..n PROVE f[i] = G[f[i - 1]][seq[i]]
  <2>1. f[i - 1] \in S
    BY <1>1, <1>5
  <2>2. H[<<f[i - 1], i>>] = G[f[i - 1]][seq[i]]
    BY <1>4, <2>1
  <2> QED
    BY <1>5, <2>2
<1> DEFINE Rec(g) == [i \in 0..n |-> IF i = 0 THEN start ELSE G[g[i - 1]][seq[i]]]
<1>7. f = Rec(f)
  <2>1. \A i \in 0..n : i = 0 \/ i \in 1..n
    BY <1>1
  <2>2. \A i \in 0..n : f[i] = Rec(f)[i]
    BY <1>5, <1>6, <2>1
  <2> QED
    BY <1>5, <2>2
<1> HIDE DEF Rec
<1> DEFINE F == CHOOSE g : g = Rec(g)
<1>8. F = Rec(F)
  BY <1>7
<1>9. Through(G, start, seq) = F[n]
  BY DEF Through, Rec, n
<1> HIDE DEF F
<1>10. Leads(G, start, seq, F)
  <2>1. \A i \in 0..n : F[i] = Rec(F)[i]
    BY <1>8
  <2>2. F[0] = start
    BY ONLY <1>1, <2>1 DEF Rec
  <2>3. \A i \in 1..n : F[i] = G[F[i - 1]][seq[i]]
    BY ONLY <1>1, <2>1 DEF Rec
  <2> QED
    BY <2>2, <2>3 DEF Leads, n
<1> QED
  BY <1>9, <1>10 DEF n

\* What holds at the start, and after i steps when it held after i - 1, holds when
\* the list was gone through: P has a pair <<i, s>> when it holds of s after i steps.
LEMMA ThroughInduction ==
    ASSUME NEW S, NEW E, NEW G, \A s \in S, e \in E : G[s][e] \in S,
           NEW start \in S, NEW seq \in Seq(E),
           NEW P, <<0, start>> \in P,
           \A i \in 1..Len(seq), s \in S :
               <<i - 1, s>> \in P => <<i, G[s][seq[i]]>> \in P
    PROVE  Through(G, start, seq) \in S /\ <<Len(seq), Through(G, start, seq)>> \in P
<1>1. PICK f : Leads(G, start, seq, f) /\ Through(G, start, seq) = f[Len(seq)]
  BY ThroughIs
<1>2. Len(seq) \in Nat /\ \A i \in 1..Len(seq) : seq[i] \in E
  OBVIOUS
<1> DEFINE Q == {i \in 0..Len(seq) : f[i] \in S /\ <<i, f[i]>> \in P}
<1>3. 0 \in Q
  <2>1. f[0] = start
    BY <1>1 DEF Leads
  <2>2. 0 \in 0..Len(seq)
    BY <1>2
  <2> QED
    BY <2>1, <2>2
<1>4. ASSUME NEW m \in 1..Len(seq), m - 1 \in Q PROVE m \in Q
  <2>1. f[m - 1] \in S /\ <<m - 1, f[m - 1]>> \in P
    BY <1>4
  <2>2. f[m] = G[f[m - 1]][seq[m]]
    BY <1>1 DEF Leads
  <2>3. f[m] \in S
    BY <1>2, <2>1, <2>2
  <2>4. <<m, f[m]>> \in P
    BY <2>1, <2>2
  <2> QED
    BY <1>2, <2>3, <2>4
<1>5. 0..Len(seq) \subseteq Q
  <2> HIDE DEF Q
  <2> QED
    BY <1>2, <1>3, <1>4, Induction
<1> QED
  BY <1>1, <1>2, <1>5

\* What holds at the start and is kept by each step holds in the end.
LEMMA ThroughKeeps ==
    ASSUME NEW S, NEW E, NEW G, \A s \in S, e \in E : G[s][e] \in S,
           NEW start \in S, NEW seq \in Seq(E),
           NEW P, start \in P,
           \A i \in 1..Len(seq), s \in S : s \in P => G[s][seq[i]] \in P
    PROVE  Through(G, start, seq) \in S /\ Through(G, start, seq) \in P
<1> DEFINE Q == {x \in Nat \X S : x[2] \in P}
<1>1. <<0, start>> \in Q
  OBVIOUS
<1>2. \A i \in 1..Len(seq), s \in S : G[s][seq[i]] \in S
  OBVIOUS
<1>3. ASSUME NEW i \in 1..Len(seq), NEW s \in S, <<i - 1, s>> \in Q
      PROVE  <<i, G[s][seq[i]]>> \in Q
  <2>1. s \in P
    BY <1>3
  <2>2. G[s][seq[i]] \in P
    BY <2>1
  <2>3. G[s][seq[i]] \in S
    BY <1>2
  <2>4. i \in Nat
    OBVIOUS
  <2> QED
    BY <2>2, <2>3, <2>4
<1> DEFINE end == Through(G, start, seq)
<1>4. end \in S /\ <<Len(seq), end>> \in Q
  <2> HIDE DEF Q
  <2> QED
    BY <1>1, <1>3, ThroughInduction
<1> HIDE DEF end
<1>5. end \in P
  BY <1>4
<1> QED
  BY <1>4, <1>5 DEF end

\* s with e behind it.
LEMMA Appended ==
    ASSUME NEW S, NEW s \in Seq(S), NEW e \in S, NEW t \in Seq(S), Len(t) = Len(s) + 1,
           \A i \in 1..Len(s) : t[i] = s[i], t[Len(s) + 1] = e
    PROVE  s \o <<e>> = t
<1> DEFINE u == s \o <<e>>
<1>1. u \in Seq(S) /\ Len(u) = Len(s) + 1 /\ u[Len(s) + 1] = e
      /\ \A i \in 1..Len(s) : u[i] = s[i]
  OBVIOUS
<1> HIDE DEF u
<1>2. \A i \in 1..Len(t) : u[i] = t[i]
  BY <1>1
<1>3. u = t
  BY <1>1, <1>2
<1> QED
  BY <1>3 DEF u

\* What the lists of requests are made of.
LEMMA ShortLists ==
    ASSUME NEW a, NEW b, NEW c, NEW d
    PROVE  /\ <<a>> \o <<>> = <<a>> /\ <<a, b>> \o <<>> = <<a, b>>
           /\ <<a>> \o <<b>> = <<a, b>>
           /\ <<a, b>> \o <<c>> = <<a, b, c>>
           /\ <<a, b, c>> \o <<d>> = <<a, b, c, d>>
<1> DEFINE S == {a, b, c, d}
<1>1. \A s \in Seq(S) : s \o <<>> = s
  OBVIOUS
<1>2. /\ <<a>> \in Seq(S) /\ <<a, b>> \in Seq(S) /\ <<a, b, c>> \in Seq(S)
      /\ <<a, b, c, d>> \in Seq(S)
  OBVIOUS
<1>3. a \in S /\ b \in S /\ c \in S /\ d \in S
  OBVIOUS
<1> HIDE DEF S
<1>4. <<a>> \o <<b>> = <<a, b>>
  <2> DEFINE s == <<a>>
             t == <<a, b>>
  <2>1. /\ s \in Seq(S) /\ t \in Seq(S) /\ Len(s) = 1 /\ Len(t) = Len(s) + 1
        /\ t[Len(s) + 1] = b /\ \A i \in 1..Len(s) : t[i] = s[i]
    BY <1>2
  <2> HIDE DEF s, t
  <2>2. s \o <<b>> = t
    BY <1>3, <2>1, Appended
  <2> QED
    BY <2>2 DEF s, t
<1>5. <<a, b>> \o <<c>> = <<a, b, c>>
  <2> DEFINE s == <<a, b>>
             t == <<a, b, c>>
  <2>1. /\ s \in Seq(S) /\ t \in Seq(S) /\ Len(s) = 2 /\ Len(t) = Len(s) + 1
        /\ t[Len(s) + 1] = c /\ \A i \in 1..Len(s) : t[i] = s[i]
    BY <1>2
  <2> HIDE DEF s, t
  <2>2. s \o <<c>> = t
    BY <1>3, <2>1, Appended
  <2> QED
    BY <2>2 DEF s, t
<1>6. <<a, b, c>> \o <<d>> = <<a, b, c, d>>
  <2> DEFINE s == <<a, b, c>>
             t == <<a, b, c, d>>
  <2>1. /\ s \in Seq(S) /\ t \in Seq(S) /\ Len(s) = 3 /\ Len(t) = Len(s) + 1
        /\ t[Len(s) + 1] = d /\ \A i \in 1..Len(s) : t[i] = s[i]
    BY <1>2
  <2> HIDE DEF s, t
  <2>2. s \o <<d>> = t
    BY <1>3, <2>1, Appended
  <2> QED
    BY <2>2 DEF s, t
<1> QED
  BY <1>1, <1>2, <1>4, <1>5, <1>6

\* Filter leaves a list as it is when it keeps all that is in it.
LEMMA FilterAll ==
    ASSUME NEW S, NEW seq \in Seq(S), NEW Keep, \A i \in 1..Len(seq) : seq[i] \in Keep
    PROVE  Filter(seq, Keep) = seq
<1>1. PICK f : Kept(seq, Keep, f) /\ Filter(seq, Keep) = f[Len(seq)]
  BY FilterIs
<1> DEFINE n == Len(seq)
           P == {m \in 0..n : f[m] \in Seq(S) /\ Len(f[m]) = m
                              /\ \A i \in 1..m : f[m][i] = seq[i]}
<1>2. n \in Nat /\ \A i \in 1..n : seq[i] \in S /\ seq[i] \in Keep
  OBVIOUS
<1>3. 0 \in P
  <2>1. f[0] = <<>>
    BY <1>1 DEF Kept
  <2>2. <<>> \in Seq(S) /\ Len(<<>>) = 0
    OBVIOUS
  <2>3. f[0] \in Seq(S) /\ Len(f[0]) = 0
    BY <2>1, <2>2
  <2>4. 0 \in 0..n
    BY <1>2
  <2> QED
    BY <2>3, <2>4
<1>4. ASSUME NEW m \in 1..n, m - 1 \in P PROVE m \in P
  <2>1. f[m] = Append(f[m - 1], seq[m])
    BY <1>1, <1>2 DEF Kept
  <2> DEFINE s == f[m - 1]
             e == seq[m]
             t == f[m]
  <2>2. s \in Seq(S) /\ Len(s) = m - 1 /\ e \in S /\ t = Append(s, e)
    BY <1>2, <1>4, <2>1
  <2>3. \A i \in 1..(m - 1) : s[i] = seq[i]
    BY <1>4
  <2> HIDE DEF s, t
  <2>4. t \in Seq(S) /\ Len(t) = m /\ t[m] = e /\ \A i \in 1..(m - 1) : t[i] = s[i]
    <3> HIDE DEF e
    <3> QED
      BY <2>2
  <2>5. \A i \in 1..m : t[i] = seq[i]
    BY <2>3, <2>4
  <2> QED
    BY <2>4, <2>5 DEF t
<1>5. n \in P
  <2> HIDE DEF P, n
  <2>1. 0..n \subseteq P
    BY <1>2, <1>3, <1>4, Induction
  <2> QED
    BY <1>2, <2>1
<1>6. f[n] \in Seq(S) /\ Len(f[n]) = n /\ \A i \in 1..n : f[n][i] = seq[i]
  BY <1>5
<1> DEFINE g == f[n]
<1>7. g = seq
  <2>1. g \in Seq(S) /\ Len(g) = Len(seq) /\ \A i \in 1..Len(seq) : g[i] = seq[i]
    BY <1>6
  <2> HIDE DEF g
  <2> QED
    BY <2>1
<1> QED
  BY <1>1, <1>7
=============================================================================
