---------------------------- MODULE BroksProofs ----------------------------
(***************************************************************************)
(* The safety properties of Broks.tla, proved for any limits on queues and *)
(* batches, any number of updates and any failures.                        *)
(*                                                                         *)
(* ExternalInOrder needs an invariant that spans the whole way of a brok:  *)
(* the queue of the module, external_module_broks, the scheduler's global  *)
(* queue and the broker's own queue, in this order, hold versions that     *)
(* never fall (InLine).  That the global queue is before the broker's own  *)
(* one needs that a broker who is not registered has none (Unregistered).  *)
(***************************************************************************)
EXTENDS Broks, ListProofs, TLAPS

\* The versions a queue tells of.
Told(s) == {s[i].v : i \in 1..Len(s)}

Sorted(s) == \A i, j \in 1..Len(s) : i <= j => s[i].v <= s[j].v

NotAbove(S, T) == \A x \in S, y \in T : x <= y

\* The queues between a module that was told version t and the scheduler, in the
\* order in which the module gets what they hold.
Line(t, q, e, g, o) ==
    /\ Sorted(q) /\ Sorted(e) /\ Sorted(g) /\ Sorted(o)
    /\ NotAbove({t}, Told(q) \cup Told(e) \cup Told(g) \cup Told(o))
    /\ NotAbove(Told(q), Told(e) \cup Told(g) \cup Told(o))
    /\ NotAbove(Told(e), Told(g) \cup Told(o))
    /\ NotAbove(Told(g), Told(o))

InLine == ~overtaken => Line(extTold, to_q, external, broks, own)

\* Nothing tells of a version the host has not had.
Past ==
    /\ extTold <= version
    /\ NotAbove(Told(to_q) \cup Told(external) \cup Told(broks) \cup Told(own), {version})

Unregistered == ~registered => own = <<>>

\* Without a limit on the batch get_broks empties both queues.
NotOvertaken == broks_batch = 0 => ~overtaken

IInv == TypeOK /\ Past /\ InLine /\ Unregistered /\ NotOvertaken

-----------------------------------------------------------------------------
(* Queues *)

\* Every brok has a version.
LEMMA ToldType ==
    ASSUME NEW s \in Seq(Brok)
    PROVE  Told(s) \subseteq Versions
<1>1. \A i \in 1..Len(s) : s[i] \in Brok
  OBVIOUS
<1> QED
  BY <1>1 DEF Told, Brok

LEMMA ToldEmpty == Told(<<>>) = {} /\ Sorted(<<>>)
  BY DEF Told, Sorted

LEMMA ToldConcat ==
    ASSUME NEW s \in Seq(Brok), NEW t \in Seq(Brok)
    PROVE  /\ s \o t \in Seq(Brok)
           /\ Told(s \o t) = Told(s) \cup Told(t)
           /\ Sorted(s) /\ Sorted(t) /\ NotAbove(Told(s), Told(t)) => Sorted(s \o t)
<1>1. /\ s \o t \in Seq(Brok)
      /\ Len(s \o t) = Len(s) + Len(t) /\ Len(s) \in Nat /\ Len(t) \in Nat
  OBVIOUS
<1>2. \A i \in 1..Len(s) : (s \o t)[i] = s[i]
  OBVIOUS
<1>3. \A i \in 1..Len(t) : (s \o t)[Len(s) + i] = t[i]
  OBVIOUS
<1>4. \A i \in 1..Len(s \o t) : i \in 1..Len(s) \/ (i - Len(s) \in 1..Len(t)
                                                    /\ i = Len(s) + (i - Len(s)))
  BY <1>1
<1> HIDE <1>1
<1>5. Told(s \o t) = Told(s) \cup Told(t)
  <2>1. ASSUME NEW x \in Told(s \o t) PROVE x \in Told(s) \cup Told(t)
    BY <1>2, <1>3, <1>4 DEF Told
  <2>2. ASSUME NEW x \in Told(s) \cup Told(t) PROVE x \in Told(s \o t)
    <3>1. \A i \in 1..Len(s) : i \in 1..Len(s \o t)
      BY <1>1
    <3>2. \A i \in 1..Len(t) : Len(s) + i \in 1..Len(s \o t)
      BY <1>1
    <3>3. CASE x \in Told(s)
      <4>1. PICK i \in 1..Len(s) : x = s[i].v
        BY <3>3 DEF Told
      <4> QED
        BY <1>2, <3>1, <4>1 DEF Told
    <3>4. CASE x \in Told(t)
      <4>1. PICK i \in 1..Len(t) : x = t[i].v
        BY <3>4 DEF Told
      <4>2. x = (s \o t)[Len(s) + i].v
        BY <1>3, <4>1
      <4> QED
        BY <3>2, <4>1, <4>2 DEF Told
    <3> QED
      BY <2>2, <3>3, <3>4
  <2> QED
    BY <2>1, <2>2
<1>6. ASSUME Sorted(s), Sorted(t), NotAbove(Told(s), Told(t))
      PROVE  Sorted(s \o t)
  <2>1. \A i \in 1..Len(s), j \in 1..Len(t) : s[i].v <= t[j].v
    BY <1>6 DEF NotAbove, Told
  <2> SUFFICES ASSUME NEW i \in 1..Len(s \o t), NEW j \in 1..Len(s \o t), i <= j
               PROVE  (s \o t)[i].v <= (s \o t)[j].v
    BY DEF Sorted
  <2>2. CASE i \in 1..Len(s) /\ j \in 1..Len(s)
    BY <1>2, <1>6, <2>2 DEF Sorted
  <2>3. CASE i \in 1..Len(s) /\ j - Len(s) \in 1..Len(t)
    BY <1>2, <1>3, <1>4, <2>1, <2>3, <1>1
  <2>4. CASE i - Len(s) \in 1..Len(t) /\ j - Len(s) \in 1..Len(t)
    <3> DEFINE a == i - Len(s)
               b == j - Len(s)
    <3>1. a <= b /\ i = Len(s) + a /\ j = Len(s) + b
      BY <1>1, <2>4
    <3>2. t[a].v <= t[b].v
      BY <1>6, <2>4, <3>1 DEF Sorted
    <3> QED
      BY <1>3, <2>4, <3>1, <3>2
  <2>5. CASE i - Len(s) \in 1..Len(t) /\ j \in 1..Len(s)
    BY <1>1, <2>5
  <2> QED
    BY <1>4, <2>2, <2>3, <2>4, <2>5
<1> QED
  BY <1>1, <1>5, <1>6

LEMMA ToldOne ==
    ASSUME NEW b \in Brok
    PROVE  <<b>> \in Seq(Brok) /\ Told(<<b>>) = {b.v} /\ Sorted(<<b>>)
  BY DEF Told, Sorted, Brok, Versions

LEMMA ToldPart ==
    ASSUME NEW s \in Seq(Brok), NEW k \in Nat, NEW n \in Nat, n <= Len(s)
    PROVE  /\ SubSeq(s, k + 1, n) \in Seq(Brok)
           /\ Told(SubSeq(s, k + 1, n)) \subseteq Told(s)
           /\ Sorted(s) => Sorted(SubSeq(s, k + 1, n))
<1> DEFINE p == SubSeq(s, k + 1, n)
<1>1. /\ p \in Seq(Brok) /\ Len(p) \in Nat
      /\ \A i \in 1..Len(p) : k + i \in 1..Len(s) /\ p[i] = s[k + i]
  OBVIOUS
<1> HIDE DEF p
<1>2. Told(p) \subseteq Told(s)
  BY <1>1 DEF Told
<1>3. ASSUME Sorted(s) PROVE Sorted(p)
  <2> SUFFICES ASSUME NEW i \in 1..Len(p), NEW j \in 1..Len(p), i <= j
               PROVE  p[i].v <= p[j].v
    BY DEF Sorted
  <2>1. k + i <= k + j
    BY <1>1
  <2> QED
    BY <1>1, <1>3, <2>1 DEF Sorted
<1>4. p \in Seq(Brok) /\ Told(p) \subseteq Told(s) /\ (Sorted(s) => Sorted(p))
  BY <1>1, <1>2, <1>3
<1> QED
  BY <1>4 DEF p
\* What is appended is at the end.
LEMMA ToldAppend ==
    ASSUME NEW s \in Seq(Brok), NEW b \in Brok
    PROVE  /\ Append(s, b) \in Seq(Brok)
           /\ Told(Append(s, b)) = Told(s) \cup {b.v}
           /\ Sorted(s) /\ NotAbove(Told(s), {b.v}) => Sorted(Append(s, b))
<1>1. Append(s, b) = s \o <<b>>
  OBVIOUS
<1> QED
  BY <1>1, ToldOne, ToldConcat

\* A slice is the beginning of its list, whatever the count.
LEMMA SliceIsPrefix ==
    ASSUME NEW s \in Seq(Brok), NEW n \in Int
    PROVE  \E k \in 0..Len(s) : Slice(s, n) = SubSeq(s, 1, k)
<1>1. Len(s) \in Nat /\ SubSeq(s, 1, Len(s)) = s /\ SubSeq(s, 1, 0) = <<>>
  OBVIOUS
<1> DEFINE k == IF n >= 0 THEN n ELSE Len(s) + n
<1>2. CASE k <= 0
  BY <1>1, <1>2 DEF Slice
<1>3. CASE k > 0 /\ k >= Len(s)
  BY <1>1, <1>3 DEF Slice
<1>4. CASE k > 0 /\ k < Len(s)
  BY <1>1, <1>4 DEF Slice, First
<1> QED
  BY <1>1, <1>2, <1>3, <1>4

\* A queue s is cut into p, which is taken, and r, which stays.
Parted(s, p, r) ==
    /\ p \in Seq(Brok) /\ r \in Seq(Brok)
    /\ Told(p) \subseteq Told(s) /\ Told(r) \subseteq Told(s)
    /\ Sorted(s) => Sorted(p) /\ Sorted(r) /\ NotAbove(Told(p), Told(r))

\* What is taken from a queue and what stays.
LEMMA TakeAndRest ==
    ASSUME NEW s \in Seq(Brok), NEW k \in 0..Len(s), NEW p, p = SubSeq(s, 1, k)
    PROVE  /\ Parted(s, p, Rest(s, p))
           /\ k = Len(s) => Rest(s, p) = <<>>
<1>1. Len(p) = k /\ Len(s) \in Nat /\ k \in Nat /\ \A i \in 1..k : p[i] = s[i]
  OBVIOUS
<1>2. p \in Seq(Brok) /\ Told(p) \subseteq Told(s) /\ (Sorted(s) => Sorted(p))
  BY ToldPart, <1>1
<1> DEFINE r == SubSeq(s, k + 1, Len(s))
<1>3. Rest(s, p) = r
  BY <1>1 DEF Rest
<1>4. r \in Seq(Brok) /\ Told(r) \subseteq Told(s) /\ (Sorted(s) => Sorted(r))
  BY ToldPart, <1>1
<1>5. /\ Len(r) \in Nat
      /\ \A i \in 1..Len(r) : k + i \in 1..Len(s) /\ r[i] = s[k + i]
      /\ k = Len(s) => r = <<>>
  BY <1>1
<1> HIDE DEF r
<1>6. ASSUME Sorted(s) PROVE NotAbove(Told(p), Told(r))
  <2> SUFFICES ASSUME NEW i \in 1..k, NEW j \in 1..Len(r)
               PROVE  p[i].v <= r[j].v
    BY <1>1 DEF NotAbove, Told
  <2>1. i \in 1..Len(s) /\ k + j \in 1..Len(s) /\ i <= k + j
    BY <1>1, <1>5
  <2> QED
    BY <1>1, <1>5, <1>6, <2>1 DEF Sorted
<1>7. Parted(s, p, r)
  BY <1>2, <1>4, <1>6 DEF Parted
<1> QED
  BY <1>3, <1>5, <1>7

\* What get_broks takes of a queue is its beginning.
LEMMA FromGlobalIs ==
    ASSUME TypeOK
    PROVE  \E k \in 0..Len(broks) :
             /\ FromGlobal = SubSeq(broks, 1, k)
             /\ broks_batch = 0 => k = Len(broks)
<1>1. /\ broks \in Seq(Brok) /\ Len(broks) \in Nat
      /\ broks_batch \in Nat /\ broks_batch \in Int
  BY ConstantsAssumption DEF TypeOK
<1>2. CASE broks_batch = 0
  <2>1. broks = SubSeq(broks, 1, Len(broks)) /\ Len(broks) \in 0..Len(broks)
    BY <1>1
  <2> QED
    BY <1>2, <2>1 DEF FromGlobal
<1>3. CASE broks_batch # 0
  <2>1. PICK k \in 0..Len(broks) : Slice(broks, broks_batch) = SubSeq(broks, 1, k)
    BY <1>1, SliceIsPrefix
  <2> QED
    BY <1>3, <2>1 DEF FromGlobal
<1> QED
  BY <1>2, <1>3

LEMMA FromOwnIs ==
    ASSUME TypeOK, NEW o \in Seq(Brok)
    PROVE  \E k \in 0..Len(o) : FromOwn(o) = SubSeq(o, 1, k)
<1>1. broks_batch \in Nat /\ Len(o) \in Nat /\ Len(FromGlobal) \in Nat
  <2>1. PICK k \in 0..Len(broks) : FromGlobal = SubSeq(broks, 1, k)
    BY FromGlobalIs
  <2> QED
    BY <2>1, ConstantsAssumption DEF TypeOK
<1>2. CASE broks_batch = 0
  <2>1. o = SubSeq(o, 1, Len(o)) /\ Len(o) \in 0..Len(o)
    BY <1>1
  <2> QED
    BY <1>2, <2>1 DEF FromOwn
<1>3. CASE broks_batch # 0
  <2> DEFINE n == Least(broks_batch, Len(o)) - Len(FromGlobal)
  <2>1. n \in Int
    BY <1>1 DEF Least
  <2> HIDE DEF n
  <2>2. \E k \in 0..Len(o) : Slice(o, n) = SubSeq(o, 1, k)
    BY <2>1, SliceIsPrefix
  <2> QED
    BY <1>3, <2>2 DEF FromOwn, n
<1> QED
  BY <1>2, <1>3

LEMMA InitialBroksTell ==
    ASSUME version \in Versions
    PROVE  /\ InitialBroks \in Seq(Brok)
           /\ Told(InitialBroks) = {version} /\ Sorted(InitialBroks)
<1>1. \A i \in 1..3 : InitialBroks[i] \in Brok /\ InitialBroks[i].v = version
  BY DEF InitialBroks, B, Brok
<1>2. InitialBroks \in Seq(Brok) /\ Len(InitialBroks) = 3
  BY DEF InitialBroks, B, Brok
<1> QED
  BY <1>1, <1>2 DEF Told, Sorted, Versions

-----------------------------------------------------------------------------
(* The copy a module keeps *)

LEMMA ApplyType ==
    ASSUME NEW m \in Regenerator, NEW b \in Brok
    PROVE  Apply(m, b) \in Regenerator
<1>1. m.configs \in BOOLEAN /\ m.inp \in {None, Empty} \cup Versions /\ m.host \in {NoHost}
    \cup Versions
  BY DEF Regenerator
<1>2. b.v \in Versions
  BY DEF Brok
<1>3. None # Empty
  BY DEF None, Empty
<1> QED
  BY <1>1, <1>2, <1>3 DEF Apply, Regenerator

\* Whatever is applied, the copy stays one.
LEMMA ManageType ==
    ASSUME NEW m \in Regenerator, NEW s \in Seq(Brok)
    PROVE  manage_broks(m, s) \in Regenerator
<1> DEFINE n == Len(s)
           G == [x \in Regenerator \X (1..n) |-> Apply(x[1], s[x[2]])]
           Rec(g) == [i \in 0..n |-> IF i = 0 THEN m ELSE Apply(g[i - 1], s[i])]
           F == CHOOSE g : g = Rec(g)
<1>1. n \in Nat /\ \A i \in 1..n : s[i] \in Brok
  OBVIOUS
<1>2. G \in Steps(Regenerator, n)
  <2>1. \A x \in Regenerator \X (1..n) : Apply(x[1], s[x[2]]) \in Regenerator
    <3>1. ASSUME NEW x \in Regenerator \X (1..n) PROVE Apply(x[1], s[x[2]]) \in Regenerator
      <4>1. x[1] \in Regenerator /\ s[x[2]] \in Brok
        BY <1>1
      <4> QED
        BY <4>1, ApplyType
    <3> QED
      BY <3>1
  <2> QED
    BY <2>1 DEF Steps
<1>3. \A y \in Regenerator, i \in 1..n : G[<<y, i>>] = Apply(y, s[i])
  OBVIOUS
<1>4. manage_broks(m, s) = F[n]
  BY DEF manage_broks
<1> HIDE DEF G, n, F
<1>5. PICK f \in [0..n -> Regenerator] : Iterates(f, n, m, G)
  BY <1>1, <1>2, Iteration
<1>6. f = Rec(f)
  <2>1. \A i \in 1..n : f[i - 1] \in Regenerator /\ f[i] = G[<<f[i - 1], i>>]
    BY <1>1, <1>5 DEF Iterates
  <2>2. \A i \in 1..n : f[i] = Apply(f[i - 1], s[i])
    BY <1>3, <2>1
  <2>3. f[0] = m
    BY <1>5 DEF Iterates
  <2>4. \A i \in 0..n : i = 0 \/ i \in 1..n
    BY <1>1
  <2>5. \A i \in 0..n : f[i] = Rec(f)[i]
    BY <2>2, <2>3, <2>4
  <2> QED
    BY <1>5, <2>5
<1> HIDE DEF Rec
<1>7. F = Rec(F)
  BY <1>6 DEF F
<1>8. F[0] = m /\ \A i \in 1..n : F[i] = Apply(F[i - 1], s[i])
  <2>1. \A i \in 0..n : F[i] = Rec(F)[i]
    BY <1>7
  <2> QED
    BY <1>1, <2>1 DEF Rec
<1> DEFINE P == {i \in 0..n : F[i] \in Regenerator}
<1>9. 0 \in P
  BY <1>1, <1>8
<1>10. ASSUME NEW i \in 1..n, i - 1 \in P PROVE i \in P
  <2>1. F[i - 1] \in Regenerator /\ s[i] \in Brok
    BY <1>1, <1>10
  <2>2. F[i] \in Regenerator
    BY <1>8, <2>1, ApplyType
  <2> QED
    BY <2>2
<1>11. 0..n \subseteq P
  <2> HIDE DEF P
  <2> QED
    BY <1>1, <1>9, <1>10, Induction
<1> QED
  BY <1>1, <1>4, <1>11

-----------------------------------------------------------------------------
(* Types *)

\* What the answer of get_broks and what it leaves are made of.
LEMMA GetBroksIs ==
    ASSUME TypeOK, get_broks
    PROVE  /\ Own \in Seq(Brok) /\ FromGlobal \in Seq(Brok) /\ FromOwn(Own) \in Seq(Brok)
           /\ Answer \in Seq(Brok) /\ Told(Answer) = Told(FromGlobal) \cup Told(FromOwn(Own))
           /\ broks' \in Seq(Brok) /\ own' \in Seq(Brok)
           /\ Told(FromGlobal) \subseteq Told(broks) /\ Told(broks') \subseteq Told(broks)
           /\ Told(FromOwn(Own)) \subseteq Told(Own) /\ Told(own') \subseteq Told(Own)
           /\ Sorted(broks) => /\ Sorted(FromGlobal) /\ Sorted(broks')
                               /\ NotAbove(Told(FromGlobal), Told(broks'))
           /\ Sorted(Own) => /\ Sorted(FromOwn(Own)) /\ Sorted(own')
                             /\ NotAbove(Told(FromOwn(Own)), Told(own'))
           /\ broks_batch = 0 => broks' = <<>>
<1>1. Own \in Seq(Brok)
  BY InitialBroksTell DEF Own, TypeOK
<1>2. PICK k \in 0..Len(broks) : FromGlobal = SubSeq(broks, 1, k)
    /\ (broks_batch = 0 => k = Len(broks))
  BY FromGlobalIs
<1>3. PICK m \in 0..Len(Own) : FromOwn(Own) = SubSeq(Own, 1, m)
  BY <1>1, FromOwnIs
<1>4. broks \in Seq(Brok) /\ broks' = Rest(broks, FromGlobal) /\ own' = Rest(Own, FromOwn(Own))
  BY DEF TypeOK, get_broks
<1>5. /\ FromGlobal \in Seq(Brok) /\ broks' \in Seq(Brok)
      /\ Told(FromGlobal) \subseteq Told(broks) /\ Told(broks') \subseteq Told(broks)
      /\ Sorted(broks) => /\ Sorted(FromGlobal) /\ Sorted(broks')
                          /\ NotAbove(Told(FromGlobal), Told(broks'))
      /\ k = Len(broks) => broks' = <<>>
  <2>1. FromGlobal = SubSeq(broks, 1, k) /\ broks \in Seq(Brok) /\ k \in 0..Len(broks)
    BY <1>2, <1>4
  <2>2. /\ Parted(broks, FromGlobal, Rest(broks, FromGlobal))
        /\ k = Len(broks) => Rest(broks, FromGlobal) = <<>>
    BY <2>1, TakeAndRest, Zenon
  <2>3. Parted(broks, FromGlobal, broks') /\ (k = Len(broks) => broks' = <<>>)
    BY <1>4, <2>2, Zenon
  <2> QED
    BY <2>3, Zenon DEF Parted
<1>6. /\ FromOwn(Own) \in Seq(Brok) /\ own' \in Seq(Brok)
      /\ Told(FromOwn(Own)) \subseteq Told(Own) /\ Told(own') \subseteq Told(Own)
      /\ Sorted(Own) => /\ Sorted(FromOwn(Own)) /\ Sorted(own')
                        /\ NotAbove(Told(FromOwn(Own)), Told(own'))
  <2>1. FromOwn(Own) = SubSeq(Own, 1, m) /\ m \in 0..Len(Own)
    BY <1>3
  <2>2. Parted(Own, FromOwn(Own), Rest(Own, FromOwn(Own)))
    BY <1>1, <2>1, TakeAndRest, Zenon
  <2>3. Parted(Own, FromOwn(Own), own')
    BY <1>4, <2>2, Zenon
  <2> QED
    BY <2>3, Zenon DEF Parted
<1>7. Answer \in Seq(Brok) /\ Told(Answer) = Told(FromGlobal) \cup Told(FromOwn(Own))
  BY <1>5, <1>6, ToldConcat DEF Answer
<1> QED
  BY <1>1, <1>2, <1>5, <1>6, <1>7

LEMMA VersionsAre == Versions \subseteq Nat /\ 0 \in Versions /\ MaxVersion \in Nat
  BY ConstantsAssumption DEF Versions

LEMMA NewType == NewRegenerator \in Regenerator
  BY DEF NewRegenerator, Regenerator, None, Empty

LEMMA FaultType ==
    ASSUME TypeOK, Fault
    PROVE  faults' \in 0..MaxFaults
  BY ConstantsAssumption DEF Fault, TypeOK

\* A brok is appended to one of the two queues.
LEMMA AddBrokType ==
    ASSUME TypeOK, NEW b \in Brok, add_Brok(b)
    PROVE  broks' \in Seq(Brok) /\ own' \in Seq(Brok)
<1>1. broks \in Seq(Brok) /\ own \in Seq(Brok)
  BY DEF TypeOK
<1>2. Append(broks, b) \in Seq(Brok) /\ Append(own, b) \in Seq(Brok)
  BY <1>1, ToldAppend
<1> QED
  BY <1>1, <1>2 DEF add_Brok

LEMMA InitTypes ==
    ASSUME Init
    PROVE  TypeOK
<1>1. B("log", 0) \in Brok
  BY VersionsAre DEF B, Brok
<1>2. broks \in Seq(Brok) /\ <<>> \in Seq(Brok)
  BY <1>1, ToldOne DEF Init
<1>3. running \subseteq 1..inst
  BY DEF Init
<1>4. own \in Seq(Brok) /\ queue \in Seq(Brok) /\ external \in Seq(Brok) /\ to_q \in Seq(Brok)
  BY <1>2 DEF Init
<1>5. faults \in 0..MaxFaults /\ run_id \in Nat \ {0} /\ running_id \in 0..run_id
  BY ConstantsAssumption DEF Init
<1> QED
  BY <1>2, <1>3, <1>4, <1>5, VersionsAre, NewType DEF Init, TypeOK

LEMMA SchedulerTypes ==
    ASSUME TypeOK, UpdateHost \/ Alive \/ clean_queues \/ \E r \in BOOLEAN : SchedulerReset(r)
    PROVE  TypeOK'
<1> USE VersionsAre
<1>1. CASE UpdateHost
  <2>1. version' \in Versions /\ B("update_host_status", version') \in Brok
    BY <1>1, ConstantsAssumption DEF UpdateHost, TypeOK, B, Brok, Versions
  <2>2. broks' \in Seq(Brok) /\ own' \in Seq(Brok)
    BY <1>1, <2>1, AddBrokType DEF UpdateHost
  <2> QED
    BY <1>1, <2>1, <2>2 DEF UpdateHost, TypeOK, linkVars, queueVars, extVars, intVars
<1>2. CASE Alive
  <2>1. B("update_program_status", version) \in Brok
    BY DEF TypeOK, B, Brok
  <2>2. broks' \in Seq(Brok) /\ own' \in Seq(Brok)
    BY <1>2, <2>1, AddBrokType DEF Alive
  <2> QED
    BY <1>2, <2>2 DEF Alive, TypeOK, linkVars, queueVars, extVars, intVars
<1>3. CASE clean_queues
  <2>1. broks' \in Seq(Brok) /\ own' \in Seq(Brok)
    BY <1>3, ConstantsAssumption DEF clean_queues, TypeOK, First
  <2> QED
    BY <1>3, <2>1 DEF clean_queues, TypeOK, linkVars, queueVars, extVars, intVars
<1>4. ASSUME NEW r \in BOOLEAN, SchedulerReset(r) PROVE TypeOK'
  <2>1. faults' \in 0..MaxFaults
    BY <1>4, FaultType DEF SchedulerReset
  <2>2. run_id' \in Nat \ {0} /\ running_id' \in 0..run_id'
    BY <1>4 DEF SchedulerReset, TypeOK, linkVars
  <2>3. broks' \in Seq(Brok) /\ own' \in Seq(Brok)
    BY <1>4 DEF SchedulerReset
  <2> QED
    BY <1>4, <2>1, <2>2, <2>3 DEF SchedulerReset, TypeOK, linkVars, queueVars, extVars, intVars
<1> QED
  BY <1>1, <1>2, <1>3, <1>4

LEMMA ModuleTypes ==
    ASSUME TypeOK, ExternalManages \/ MinutePasses \/ ExternalDies \/ wait_new_conf
    PROVE  TypeOK'
<1> USE VersionsAre
<1>1. CASE ExternalManages
  <2>1. Head(to_q) \in Brok /\ Tail(to_q) \in Seq(Brok)
    BY <1>1 DEF ExternalManages, TypeOK
  <2>2. ext' \in Regenerator /\ extTold' \in Versions
    BY <1>1, <2>1, ApplyType DEF ExternalManages, TypeOK, Brok
  <2>3. asked' \in BOOLEAN /\ need' \in BOOLEAN
    BY <1>1 DEF ExternalManages, TypeOK
  <2> QED
    BY <1>1, <2>1, <2>2, <2>3 DEF ExternalManages, TypeOK, schedVars, linkVars, queueVars,
        intVars
<1>2. CASE MinutePasses
  BY <1>2 DEF MinutePasses, TypeOK, schedVars, linkVars, queueVars, intVars
<1>3. CASE ExternalDies
  <2>1. faults' \in 0..MaxFaults
    BY <1>3, FaultType DEF ExternalDies
  <2> QED
    BY <1>3, <2>1, NewType DEF ExternalDies, TypeOK, schedVars, linkVars, queueVars, intVars
<1>4. CASE wait_new_conf
  <2>1. faults' \in 0..MaxFaults
    BY <1>4, FaultType DEF wait_new_conf
  <2> QED
    BY <1>4, <2>1 DEF wait_new_conf, TypeOK, schedVars, linkVars, queueVars, extVars, intVars
<1> QED
  BY <1>1, <1>2, <1>3, <1>4

LEMMA ZombieTypes ==
    ASSUME TypeOK, check_and_del_zombie_modules
    PROVE  TypeOK'
<1> DEFINE tagged == to_restart \cup IF Failing THEN {inst} ELSE {}
<1>1. tagged \subseteq 1..inst /\ inst \in Nat /\ running \subseteq 1..inst
  BY DEF TypeOK
<1> HIDE DEF tagged
<1>2. to_restart' \subseteq 1..inst /\ running' \subseteq 1..inst
  BY <1>1 DEF check_and_del_zombie_modules, TypeOK, tagged
<1>3. faults' \in 0..MaxFaults
  <2>1. Fault \/ faults' = faults
    BY DEF check_and_del_zombie_modules
  <2> QED
    BY <2>1, FaultType DEF TypeOK
<1>4. \/ to_q' = <<>> /\ ext' = NewRegenerator /\ asked' = TRUE /\ need' = FALSE
      \/ UNCHANGED <<to_q, ext, asked, need>>
  BY DEF check_and_del_zombie_modules
<1>5. to_q' \in Seq(Brok) /\ ext' \in Regenerator /\ asked' \in BOOLEAN /\ need' \in BOOLEAN
  <2>1. to_q \in Seq(Brok) /\ <<>> \in Seq(Brok)
    BY DEF TypeOK
  <2>2. ext \in Regenerator /\ asked \in BOOLEAN /\ need \in BOOLEAN
    BY DEF TypeOK
  <2>3. CASE to_q' = <<>> /\ ext' = NewRegenerator /\ asked' = TRUE /\ need' = FALSE
    BY <2>1, <2>3, NewType, Zenon
  <2>4. CASE UNCHANGED <<to_q, ext, asked, need>>
    BY <2>1, <2>2, <2>4
  <2> QED
    BY <1>4, <2>3, <2>4, Zenon
<1>6. /\ pc' = "conf" /\ intTagged' = FALSE
      /\ UNCHANGED <<module, schedVars, linkVars, queueVars, cur_conf, inst,
                     extTold, int, intTold, lost>>
  BY DEF check_and_del_zombie_modules
<1> QED
  BY <1>2, <1>3, <1>5, <1>6 DEF TypeOK, schedVars, linkVars, queueVars

LEMMA ConfigureTypes ==
    ASSUME TypeOK, Configure
    PROVE  TypeOK'
<1>1. /\ pc' = "get"
      /\ UNCHANGED <<module, schedVars, queueVars, intTagged, intTold, lost>>
  BY DEF Configure
<1>2. CASE ~cur_conf /\ Replaced
  <2>1. inst' \in Nat \ {0} /\ to_restart' \subseteq 1..inst' /\ running' \subseteq 1..inst'
    <3>1. inst \in Nat /\ inst' = inst + 1 /\ 1..inst \subseteq 1..inst' /\ inst' \in 1..inst'
      BY <1>2 DEF Replaced, TypeOK
    <3> QED
      BY <1>2, <3>1 DEF Replaced, TypeOK
  <2>2. to_q' \in Seq(Brok) /\ ext' \in Regenerator /\ int' \in Regenerator
    BY <1>2, NewType DEF Replaced
  <2>3. running_id' \in 0..run_id'
    BY <1>1, <1>2 DEF Replaced, TypeOK, schedVars
  <2> QED
    BY <1>1, <1>2, <2>1, <2>2, <2>3 DEF Replaced, TypeOK, schedVars, queueVars
<1>3. ASSUME NEW moved \in BOOLEAN, setup_new_conf(moved) PROVE TypeOK'
  <2>1. faults' \in 0..MaxFaults
    BY <1>3, FaultType DEF setup_new_conf
  <2>2. running_id' \in 0..run_id'
    BY <1>1, <1>3 DEF setup_new_conf, TypeOK, schedVars
  <2> QED
    BY <1>1, <1>3, <2>1, <2>2 DEF setup_new_conf, TypeOK, schedVars, queueVars, extVars
<1>4. CASE UNCHANGED <<con, running_id, cur_conf, int, extVars, faults>>
  BY <1>1, <1>4 DEF TypeOK, schedVars, queueVars, extVars
<1> QED
  BY <1>2, <1>3, <1>4 DEF Configure

\* The scheduler after fill_initial_broks.
LEMMA FillTypes ==
    ASSUME TypeOK, fill_initial_broks
    PROVE  /\ own' \in Seq(Brok) /\ broks' \in Seq(Brok) /\ version' \in Versions
           /\ registered' \in BOOLEAN /\ run_id' = run_id /\ overtaken' \in BOOLEAN
  BY InitialBroksTell DEF TypeOK, fill_initial_broks

LEMMA GetNewBroksTypes ==
    ASSUME TypeOK, get_new_broks
    PROVE  TypeOK'
<1> DEFINE Scheduler == /\ own' \in Seq(Brok) /\ broks' \in Seq(Brok) /\ version' \in Versions
                        /\ registered' \in BOOLEAN /\ run_id' = run_id /\ overtaken' \in BOOLEAN
<1>1. pc' = "give" /\ UNCHANGED <<module, cur_conf, extVars, intVars>>
  BY DEF get_new_broks
<1>2. CASE do_pynag_con_init
  <2>1. Scheduler
    <3>1. fill_initial_broks \/ UNCHANGED schedVars
      BY <1>2 DEF do_pynag_con_init
    <3> QED
      BY <3>1, FillTypes DEF TypeOK, schedVars
  <2>2. faults' \in 0..MaxFaults
    <3>1. Fault \/ faults' = faults
      BY <1>2 DEF do_pynag_con_init
    <3> QED
      BY <3>1, FaultType DEF TypeOK
  <2>3. con' \in BOOLEAN /\ running_id' \in 0..run_id /\ lost' \in BOOLEAN
      /\ UNCHANGED queueVars
    <3>1. con' = TRUE \/ con' = con
      BY <1>2 DEF do_pynag_con_init
    <3>2. running_id' = run_id \/ running_id' = running_id
      BY <1>2 DEF do_pynag_con_init
    <3>3. lost' = FALSE \/ lost' = lost
      BY <1>2 DEF do_pynag_con_init
    <3>4. UNCHANGED queueVars
      BY <1>2 DEF do_pynag_con_init
    <3>5. con \in BOOLEAN /\ lost \in BOOLEAN
      BY DEF TypeOK
    <3>6. running_id \in 0..run_id /\ run_id \in 0..run_id
      BY DEF TypeOK
    <3>7. con' \in BOOLEAN /\ lost' \in BOOLEAN
      BY <3>1, <3>3, <3>5, Zenon
    <3> QED
      BY <3>2, <3>4, <3>6, <3>7, Zenon
  <2> QED
    BY <1>1, <2>1, <2>2, <2>3 DEF TypeOK, queueVars, extVars, intVars
<1>3. CASE FetchBroks
  <2>1. Scheduler
    <3>1. get_broks \/ UNCHANGED schedVars
      BY <1>3 DEF FetchBroks
    <3>2. CASE get_broks
      <4>1. broks' \in Seq(Brok) /\ own' \in Seq(Brok)
        BY <3>2, GetBroksIs
      <4> QED
        BY <3>2, <4>1 DEF get_broks, TypeOK
    <3> QED
      BY <3>1, <3>2 DEF TypeOK, schedVars
  <2>2. faults' \in 0..MaxFaults
    <3>1. Fault \/ faults' = faults
      BY <1>3 DEF FetchBroks
    <3> QED
      BY <3>1, FaultType DEF TypeOK
  <2>3. queue' \in Seq(Brok) /\ external' \in Seq(Brok)
    <3>1. (get_broks /\ add_broks_to_queue(Answer)) \/ UNCHANGED queueVars
      BY <1>3 DEF FetchBroks
    <3>2. CASE get_broks /\ add_broks_to_queue(Answer)
      <4>1. queue \in Seq(Brok) /\ external \in Seq(Brok) /\ Answer \in Seq(Brok)
        BY <3>2, GetBroksIs DEF TypeOK
      <4> QED
        BY <3>2, <4>1, ToldConcat DEF add_broks_to_queue
    <3> QED
      BY <3>1, <3>2 DEF TypeOK, queueVars
  <2>4. con' \in BOOLEAN /\ lost' \in BOOLEAN /\ running_id' = running_id
    <3>1. con' = FALSE \/ con' = con
      BY <1>3 DEF FetchBroks
    <3>2. lost' = (lost /\ registered) \/ lost' = lost \/ lost' = (lost \/ Answer # <<>>)
      BY <1>3 DEF FetchBroks
    <3>3. running_id' = running_id
      BY <1>3 DEF FetchBroks
    <3> QED
      BY <3>1, <3>2, <3>3 DEF TypeOK
  <2> QED
    BY <1>1, <2>1, <2>2, <2>3, <2>4 DEF TypeOK, extVars, intVars
<1> QED
  BY <1>2, <1>3 DEF get_new_broks

LEMMA GiveBroksTypes ==
    ASSUME TypeOK, GiveBroks
    PROVE  TypeOK'
<1>1. to_q \in Seq(Brok) /\ external \in Seq(Brok) /\ queue \in Seq(Brok)
  BY DEF TypeOK
<1>2. to_q' \in Seq(Brok) /\ external' \in Seq(Brok)
  <2>1. to_q' = to_q \o external \/ to_q' = to_q
    BY DEF GiveBroks
  <2>2. external' = <<>>
    BY DEF GiveBroks
  <2>3. to_q \o external \in Seq(Brok) /\ <<>> \in Seq(Brok)
    BY <1>1
  <2> QED
    BY <1>1, <2>1, <2>2, <2>3, Zenon
<1>3. PICK k \in 0..Len(queue) :
        /\ LET taken == SubSeq(Reverse(queue), 1, k) IN
           \/ /\ int' = IF External THEN int ELSE manage_broks(int, taken)
              /\ intTold' = IF External \/ k = 0 THEN intTold ELSE Last(taken).v
              /\ UNCHANGED <<intTagged, faults>>
           \/ /\ ~External /\ k > 0 /\ Fault /\ intTagged' = TRUE
              /\ UNCHANGED <<int, intTold>>
        /\ queue' = Reverse(SubSeq(queue, 1, Len(queue) - k))
  BY DEF GiveBroks
<1> DEFINE taken == SubSeq(Reverse(queue), 1, k)
<1>4. \A s \in Seq(Brok) : Reverse(s) \in Seq(Brok) /\ Len(Reverse(s)) = Len(s)
  <2>1. ASSUME NEW s \in Seq(Brok) PROVE Reverse(s) \in Seq(Brok) /\ Len(Reverse(s)) = Len(s)
    <3>1. Len(s) \in Nat /\ \A i \in 1..Len(s) : s[(Len(s) - i) + 1] \in Brok
      OBVIOUS
    <3> QED
      BY <3>1 DEF Reverse
  <2> QED
    BY <2>1
<1>5. /\ taken \in Seq(Brok)
      /\ k > 0 => Last(taken) \in Brok
  <2>1. Reverse(queue) \in Seq(Brok) /\ Len(Reverse(queue)) = Len(queue) /\ Len(queue) \in Nat
    BY <1>1, <1>4
  <2>2. taken \in Seq(Brok) /\ Len(taken) = k
    BY <2>1
  <2> HIDE DEF taken
  <2> QED
    BY <2>2 DEF Last
<1>6. queue' \in Seq(Brok)
  <2>1. SubSeq(queue, 1, Len(queue) - k) \in Seq(Brok)
    BY <1>1
  <2> QED
    BY <1>3, <1>4, <2>1
<1> HIDE DEF taken
<1>7. int' \in Regenerator /\ intTold' \in Versions /\ intTagged' \in BOOLEAN
  <2>1. int' = int \/ int' = manage_broks(int, taken)
    BY <1>3 DEF taken
  <2>2. intTold' = intTold \/ (k > 0 /\ intTold' = Last(taken).v)
    BY <1>3 DEF taken
  <2>3. intTagged' = intTagged \/ intTagged' = TRUE
    BY <1>3
  <2>4. int' \in Regenerator
    BY <1>5, <2>1, ManageType DEF TypeOK
  <2>5. intTold' \in Versions
    BY <1>5, <2>2 DEF TypeOK, Brok
  <2> QED
    BY <2>3, <2>4, <2>5 DEF TypeOK
<1>8. faults' \in 0..MaxFaults
  <2>1. Fault \/ faults' = faults
    BY <1>3
  <2> QED
    BY <2>1, FaultType DEF TypeOK
<1>9. /\ pc' = "messages"
      /\ UNCHANGED <<module, schedVars, linkVars, cur_conf, inst, to_restart,
                     running, ext, asked, need, extTold, lost>>
  BY DEF GiveBroks
<1> QED
  BY <1>2, <1>6, <1>7, <1>8, <1>9 DEF TypeOK, schedVars, linkVars

LEMMA TypeStep ==
    ASSUME TypeOK, [Next]_vars
    PROVE  TypeOK'
<1>1. CASE GetMessages
  <2>1. con' \in BOOLEAN /\ running_id' \in 0..run_id /\ need' \in BOOLEAN
    <3>1. \/ need' = FALSE /\ con' = FALSE /\ running_id' = 0
          \/ need' = need /\ con' = con /\ running_id' = running_id
      BY <1>1 DEF GetMessages, linkVars
    <3>2. con \in BOOLEAN /\ need \in BOOLEAN
      BY DEF TypeOK
    <3>3. running_id \in 0..run_id /\ 0 \in 0..run_id
      BY DEF TypeOK
    <3> QED
      BY <3>1, <3>2, <3>3, Zenon
  <2> QED
    BY <1>1, <2>1 DEF GetMessages, TypeOK, schedVars, queueVars, intVars
<1>2. CASE UNCHANGED vars
  BY <1>2 DEF TypeOK, vars, schedVars, linkVars, queueVars, extVars, intVars
<1> QED
  BY <1>1, <1>2, SchedulerTypes, ModuleTypes, ZombieTypes, ConfigureTypes,
     GetNewBroksTypes, GiveBroksTypes DEF Next, BrokerTurn

-----------------------------------------------------------------------------
(* The order of the versions *)

\* Queues that lose broks stay in line.
LEMMA LineShrinks ==
    ASSUME NEW t, NEW q, NEW e, NEW g, NEW o, NEW q2, NEW e2, NEW g2, NEW o2,
           Line(t, q, e, g, o),
           Told(q2) \subseteq Told(q), Told(e2) \subseteq Told(e),
           Told(g2) \subseteq Told(g), Told(o2) \subseteq Told(o),
           Sorted(q2), Sorted(e2), Sorted(g2), Sorted(o2)
    PROVE  Line(t, q2, e2, g2, o2)
  BY DEF Line, NotAbove

\* A step that only removes broks keeps both invariants.
LEMMA Removed ==
    ASSUME Past, InLine, UNCHANGED <<version, extTold, overtaken>>,
           Told(to_q') \subseteq Told(to_q), Told(external') \subseteq Told(external),
           Told(broks') \subseteq Told(broks), Told(own') \subseteq Told(own),
           Sorted(to_q) => Sorted(to_q'), Sorted(external) => Sorted(external'),
           Sorted(broks) => Sorted(broks'), Sorted(own) => Sorted(own')
    PROVE  Past' /\ InLine'
<1>1. Past'
  BY DEF Past, NotAbove
<1>2. ASSUME ~overtaken' PROVE Line(extTold', to_q', external', broks', own')
  <2>1. Line(extTold, to_q, external, broks, own)
    BY <1>2 DEF InLine
  <2>2. Sorted(to_q') /\ Sorted(external') /\ Sorted(broks') /\ Sorted(own')
    BY <2>1 DEF Line
  <2>3. Line(extTold, to_q', external', broks', own')
    BY <2>1, <2>2, LineShrinks
  <2> QED
    BY <2>3
<1> QED
  BY <1>1, <1>2 DEF InLine

\* What the scheduler raises is at least what it ever told.
LEMMA Raised ==
    ASSUME TypeOK, Past, InLine, Unregistered, NEW b \in Brok, add_Brok(b),
           version <= b.v, b.v = version',
               UNCHANGED <<extTold, overtaken, registered, to_q, external>>
    PROVE  Past' /\ InLine' /\ Unregistered'
<1> USE VersionsAre
<1>1. /\ broks \in Seq(Brok) /\ own \in Seq(Brok) /\ to_q \in Seq(Brok)
    /\ external \in Seq(Brok)
      /\ version \in Nat /\ extTold \in Nat /\ b.v \in Nat
  BY DEF TypeOK, Brok
<1>2. /\ Told(broks) \subseteq Nat /\ Told(own) \subseteq Nat
      /\ Told(to_q) \subseteq Nat /\ Told(external) \subseteq Nat
  BY <1>1, ToldType
<1>3. /\ NotAbove(Told(to_q), {b.v}) /\ NotAbove(Told(external), {b.v})
      /\ NotAbove(Told(broks), {b.v}) /\ NotAbove(Told(own), {b.v}) /\ extTold <= b.v
  BY <1>1, <1>2 DEF Past, NotAbove
<1>4. CASE registered
  <2>1. own' = Append(own, b) /\ broks' = broks
    BY <1>4 DEF add_Brok
  <2>2. Told(own') = Told(own) \cup {b.v} /\ (Sorted(own) => Sorted(own'))
    BY <1>1, <1>3, <2>1, ToldAppend
  <2>3. Past'
    BY <1>1, <1>3, <2>1, <2>2 DEF Past, NotAbove
  <2>4. ASSUME ~overtaken PROVE Line(extTold, to_q, external, broks, own')
    <3>1. Line(extTold, to_q, external, broks, own)
      BY <2>4 DEF InLine
    <3> QED
      BY <1>3, <2>2, <3>1 DEF Line, NotAbove
  <2> QED
    BY <1>4, <2>1, <2>3, <2>4 DEF InLine, Unregistered
<1>5. CASE ~registered
  <2>1. own = <<>> /\ own' = own /\ broks' = Append(broks, b)
    BY <1>5 DEF add_Brok, Unregistered
  <2>2. Told(broks') = Told(broks) \cup {b.v} /\ (Sorted(broks) => Sorted(broks'))
    BY <1>1, <1>3, <2>1, ToldAppend
  <2>3. Told(own) = {} /\ Sorted(own)
    BY <2>1, ToldEmpty
  <2>4. Past'
    BY <1>1, <1>3, <2>1, <2>2 DEF Past, NotAbove
  <2>5. ASSUME ~overtaken PROVE Line(extTold, to_q, external, broks', own)
    <3>1. Line(extTold, to_q, external, broks, own)
      BY <2>5 DEF InLine
    <3> QED
      BY <1>3, <2>2, <2>3, <3>1 DEF Line, NotAbove
  <2> QED
    BY <2>1, <2>4, <2>5 DEF InLine, Unregistered
<1> QED
  BY <1>4, <1>5

LEMMA SchedulerLine ==
    ASSUME IInv, TypeOK',
        UpdateHost \/ Alive \/ clean_queues \/ \E r \in BOOLEAN : SchedulerReset(r)
    PROVE  Past' /\ InLine' /\ Unregistered' /\ NotOvertaken'
<1> USE VersionsAre
<1>1. TypeOK /\ Past /\ InLine /\ Unregistered /\ NotOvertaken
  BY DEF IInv
<1>2. UNCHANGED <<extTold, overtaken, to_q, external>>
  BY DEF UpdateHost, Alive, clean_queues, SchedulerReset, queueVars, extVars
<1>3. CASE UpdateHost
  <2> DEFINE b == B("update_host_status", version')
  <2>1. b \in Brok /\ b.v = version' /\ version <= b.v
    BY <1>1, <1>3 DEF UpdateHost, TypeOK, B, Brok
  <2>2. add_Brok(b) /\ registered' = registered
    BY <1>3 DEF UpdateHost
  <2> HIDE DEF b
  <2> QED
    BY <1>1, <1>2, <2>1, <2>2, Raised DEF NotOvertaken
<1>4. CASE Alive
  <2> DEFINE b == B("update_program_status", version)
  <2>1. b \in Brok /\ b.v = version' /\ version <= b.v
    BY <1>1, <1>4 DEF Alive, TypeOK, B, Brok
  <2>2. add_Brok(b) /\ registered' = registered
    BY <1>4 DEF Alive
  <2> HIDE DEF b
  <2> QED
    BY <1>1, <1>2, <2>1, <2>2, Raised DEF NotOvertaken
<1>5. CASE clean_queues
  <2>1. /\ broks \in Seq(Brok) /\ own \in Seq(Brok)
        /\ Len(broks) \in Nat /\ Len(own) \in Nat /\ max_broks \in Nat
    <3>1. broks \in Seq(Brok) /\ own \in Seq(Brok)
      BY <1>1 DEF TypeOK
    <3> QED
      BY <3>1, ConstantsAssumption
  <2>2. broks' = broks \/ (max_broks <= Len(broks) /\ broks' = SubSeq(broks, 0 + 1, max_broks))
    BY <1>5, <2>1 DEF clean_queues, First
  <2>3. own' = own \/ (max_broks <= Len(own) /\ own' = SubSeq(own, 0 + 1, max_broks))
    BY <1>5, <2>1 DEF clean_queues, First
  <2>4. Told(broks') \subseteq Told(broks) /\ (Sorted(broks) => Sorted(broks'))
    BY <2>1, <2>2, ToldPart
  <2>5. Told(own') \subseteq Told(own) /\ (Sorted(own) => Sorted(own'))
    BY <2>1, <2>3, ToldPart
  <2>6. own = <<>> => own' = <<>>
    BY <2>1, <1>5 DEF clean_queues
  <2>7. UNCHANGED <<version, registered>>
    BY <1>5 DEF clean_queues
  <2> QED
    BY <1>1, <1>2, <2>4, <2>5, <2>6, <2>7, Removed DEF Unregistered, NotOvertaken
<1>6. ASSUME NEW r \in BOOLEAN, SchedulerReset(r)
      PROVE  Past' /\ InLine' /\ Unregistered' /\ NotOvertaken'
  <2>1. broks' = <<>> /\ own' = <<>> /\ version' = version
    BY <1>6 DEF SchedulerReset
  <2> QED
    BY <1>1, <1>2, <2>1, Removed, ToldEmpty DEF Unregistered, NotOvertaken
<1> QED
  BY <1>3, <1>4, <1>5, <1>6

\* The module takes the first brok of its queue.
LEMMA ManagesLine ==
    ASSUME IInv, TypeOK', ExternalManages
    PROVE  /\ Past' /\ InLine' /\ Unregistered' /\ NotOvertaken'
           /\ overtaken \/ extTold' >= extTold
<1> USE VersionsAre
<1>1. TypeOK /\ Past /\ InLine /\ Unregistered /\ NotOvertaken
  BY DEF IInv
<1>2. UNCHANGED <<version, broks, own, registered, overtaken, external>>
  BY DEF ExternalManages, schedVars, queueVars
<1>3. /\ to_q \in Seq(Brok) /\ to_q # <<>> /\ to_q' = Tail(to_q) /\ extTold' = to_q[1].v
      /\ Len(to_q) \in Nat /\ 1 \in 1..Len(to_q)
  <2>1. to_q \in Seq(Brok)
    BY <1>1 DEF TypeOK
  <2>2. to_q # <<>> /\ to_q' = Tail(to_q) /\ extTold' = Head(to_q).v
    BY DEF ExternalManages
  <2>3. Len(to_q) \in Nat /\ 1 \in 1..Len(to_q) /\ Head(to_q) = to_q[1]
    BY <2>1, <2>2
  <2> QED
    BY <2>1, <2>2, <2>3
<1>4. /\ Len(Tail(to_q)) \in Nat
      /\ \A i \in 1..Len(Tail(to_q)) : i + 1 \in 1..Len(to_q) /\ Tail(to_q)[i] = to_q[i + 1]
  BY <1>3
<1>5. Told(to_q') \subseteq Told(to_q) /\ extTold' \in Told(to_q)
  BY <1>3, <1>4 DEF Told
<1>6. Past'
  BY <1>1, <1>2, <1>5 DEF Past, NotAbove
<1>7. ASSUME ~overtaken
      PROVE  Line(extTold', to_q', external, broks, own) /\ extTold' >= extTold
  <2>1. Line(extTold, to_q, external, broks, own)
    BY <1>1, <1>7 DEF InLine
  <2>2. \A i \in 1..Len(to_q) : to_q[1].v <= to_q[i].v
    BY <1>3, <2>1 DEF Line, Sorted
  <2>3. NotAbove({extTold'}, Told(to_q'))
    BY <1>3, <1>4, <2>2 DEF NotAbove, Told
  <2>4. Sorted(to_q')
    <3> SUFFICES ASSUME NEW i \in 1..Len(Tail(to_q)), NEW j \in 1..Len(Tail(to_q)), i <= j
                 PROVE  Tail(to_q)[i].v <= Tail(to_q)[j].v
      BY <1>3 DEF Sorted
    <3>1. i + 1 <= j + 1
      BY <1>4
    <3> QED
      BY <1>4, <2>1, <3>1 DEF Line, Sorted
  <2>5. extTold' >= extTold
    <3>1. extTold <= extTold'
      BY <1>5, <2>1 DEF Line, NotAbove
    <3>2. extTold \in Nat /\ extTold' \in Nat
      BY <1>1 DEF TypeOK
    <3> QED
      BY <3>1, <3>2
  <2> QED
    BY <1>5, <2>1, <2>3, <2>4, <2>5 DEF Line, NotAbove
<1> QED
  BY <1>1, <1>2, <1>6, <1>7 DEF InLine, Unregistered, NotOvertaken

\* The steps of the broker and its modules that leave the scheduler alone.
LEMMA BrokerLine ==
    ASSUME IInv, TypeOK',
           \/ MinutePasses \/ ExternalDies \/ wait_new_conf
           \/ check_and_del_zombie_modules \/ Configure \/ GetMessages
    PROVE  Past' /\ InLine' /\ Unregistered' /\ NotOvertaken' /\ extTold' = extTold
<1>1. Past /\ InLine /\ Unregistered /\ NotOvertaken
  BY DEF IInv
<1>2. UNCHANGED <<schedVars, extTold, external>>
  BY DEF MinutePasses, ExternalDies, wait_new_conf, check_and_del_zombie_modules, Configure,
         Replaced, setup_new_conf, GetMessages, queueVars, extVars
<1>3. to_q' = to_q \/ to_q' = <<>>
  BY DEF MinutePasses, ExternalDies, wait_new_conf, check_and_del_zombie_modules, Configure,
         Replaced, setup_new_conf, GetMessages, extVars
<1>4. Told(to_q') \subseteq Told(to_q) /\ (Sorted(to_q) => Sorted(to_q'))
  BY <1>3, ToldEmpty
<1>5. UNCHANGED <<version, broks, own, registered, overtaken, extTold, external>>
  BY <1>2 DEF schedVars
<1> QED
  BY <1>1, <1>4, <1>5, Removed DEF Unregistered, NotOvertaken

LEMMA GiveBroksLine ==
    ASSUME IInv, TypeOK', GiveBroks
    PROVE  Past' /\ InLine' /\ Unregistered' /\ NotOvertaken' /\ extTold' = extTold
<1>1. TypeOK /\ Past /\ InLine /\ Unregistered /\ NotOvertaken
  BY DEF IInv
<1>2. /\ UNCHANGED <<version, broks, own, registered, overtaken, extTold>>
      /\ external' = <<>> /\ (to_q' = to_q \o external \/ to_q' = to_q)
  BY DEF GiveBroks, schedVars
<1>3. CASE to_q' = to_q
  BY <1>1, <1>2, <1>3, Removed, ToldEmpty DEF Unregistered, NotOvertaken
<1>4. CASE to_q' = to_q \o external
  <2>1. to_q \in Seq(Brok) /\ external \in Seq(Brok)
    BY <1>1 DEF TypeOK
  <2>2. /\ Told(to_q') = Told(to_q) \cup Told(external)
        /\ Sorted(to_q) /\ Sorted(external)
            /\ NotAbove(Told(to_q), Told(external)) => Sorted(to_q')
    BY <1>4, <2>1, ToldConcat
  <2>3. Told(external') = {} /\ Sorted(external')
    BY <1>2, ToldEmpty
  <2>4. Past'
    BY <1>1, <1>2, <2>2, <2>3 DEF Past, NotAbove
  <2>5. ASSUME ~overtaken PROVE Line(extTold, to_q', external', broks, own)
    <3>1. Line(extTold, to_q, external, broks, own)
      BY <1>1, <2>5 DEF InLine
    <3>2. Sorted(to_q')
      BY <2>2, <3>1 DEF Line, NotAbove
    <3> QED
      BY <2>2, <2>3, <3>1, <3>2 DEF Line, NotAbove
  <2> QED
    BY <1>1, <1>2, <2>4, <2>5 DEF InLine, Unregistered, NotOvertaken
<1> QED
  BY <1>2, <1>3, <1>4

\* The initial broks tell the version of the host: they may follow everything else.
LEMMA InitialLine ==
    ASSUME TypeOK, Past, ~overtaken, InLine
    PROVE  Line(extTold, to_q, external, broks, InitialBroks)
<1>1. Told(InitialBroks) = {version} /\ Sorted(InitialBroks)
  BY InitialBroksTell DEF TypeOK
<1>2. Line(extTold, to_q, external, broks, own)
  BY DEF InLine
<1> QED
  BY <1>1, <1>2 DEF Line, NotAbove, Past

LEMMA FillLine ==
    ASSUME TypeOK, Past, InLine, NotOvertaken, fill_initial_broks,
        UNCHANGED <<extTold, to_q, external>>
    PROVE  Past' /\ InLine' /\ Unregistered' /\ NotOvertaken'
<1>1. own' = InitialBroks /\ registered' = TRUE /\ UNCHANGED <<version, broks, overtaken>>
  BY DEF fill_initial_broks
<1>2. Told(own') = {version}
  BY <1>1, InitialBroksTell DEF TypeOK
<1>3. version <= version
  BY VersionsAre DEF TypeOK
<1>4. Past'
  BY <1>1, <1>2, <1>3 DEF Past, NotAbove
<1>5. InLine'
  BY <1>1, InitialLine DEF InLine
<1> QED
  BY <1>1, <1>4, <1>5 DEF Unregistered, NotOvertaken

\* get_broks, whether its answer comes back or not.
LEMMA GetBroksLine ==
    ASSUME IInv, get_broks, UNCHANGED <<extTold, to_q>>,
           external' = external \/ external' = external \o Answer
    PROVE  Past' /\ InLine' /\ Unregistered' /\ NotOvertaken'
<1> USE VersionsAre
<1>1. TypeOK /\ Past /\ InLine /\ Unregistered /\ NotOvertaken
  BY DEF IInv
<1>2. registered' = TRUE /\ version' = version
  BY DEF get_broks
<1> DEFINE G == FromGlobal
           O == FromOwn(Own)
<1>3. overtaken' = (overtaken \/ (O # <<>> /\ broks' # <<>>))
  BY DEF get_broks
<1>4. /\ external \in Seq(Brok) /\ G \in Seq(Brok) /\ O \in Seq(Brok) /\ Answer = G \o O
      /\ Answer \in Seq(Brok) /\ Told(Answer) = Told(G) \cup Told(O)
      /\ Told(G) \subseteq Told(broks) /\ Told(broks') \subseteq Told(broks)
      /\ Told(O) \subseteq Told(Own) /\ Told(own') \subseteq Told(Own)
      /\ Sorted(broks) => Sorted(G) /\ Sorted(broks') /\ NotAbove(Told(G), Told(broks'))
      /\ Sorted(Own) => Sorted(O) /\ Sorted(own') /\ NotAbove(Told(O), Told(own'))
      /\ broks_batch = 0 => broks' = <<>>
  BY <1>1, GetBroksIs DEF TypeOK, Answer
<1> HIDE DEF G, O
<1>5. NotAbove(Told(Own), {version})
  <2>1. CASE registered
    BY <1>1, <2>1 DEF Own, Past, NotAbove
  <2>2. CASE ~registered
    BY <1>1, <2>2, InitialBroksTell DEF Own, TypeOK, NotAbove
  <2> QED
    BY <2>1, <2>2
<1>6. Told(external') \subseteq Told(external) \cup Told(G) \cup Told(O)
  <2>1. external \in Seq(Brok) /\ Answer \in Seq(Brok) /\ Told(Answer) = Told(G) \cup Told(O)
    BY <1>4
  <2>2. Told(external \o Answer) = Told(external) \cup Told(Answer)
    BY <2>1, ToldConcat
  <2> QED
    BY <2>1, <2>2, Zenon
<1>7. Past'
  BY <1>1, <1>2, <1>4, <1>5, <1>6 DEF Past, NotAbove
<1>8. ASSUME ~overtaken' PROVE Line(extTold, to_q, external', broks', own')
  <2>1. ~overtaken /\ (O = <<>> \/ broks' = <<>>)
    BY <1>3, <1>8
  <2>2. Line(extTold, to_q, external, broks, Own)
    <3>1. CASE registered
      BY <1>1, <2>1, <3>1 DEF Own, InLine
    <3>2. CASE ~registered
      BY <1>1, <2>1, <3>2, InitialLine DEF Own
    <3> QED
      BY <3>1, <3>2
  <2>3. /\ Sorted(broks') /\ Sorted(own') /\ Sorted(G) /\ Sorted(O)
        /\ NotAbove(Told(G), Told(broks')) /\ NotAbove(Told(O), Told(own'))
    BY <1>4, <2>2 DEF Line
  <2>4. CASE external' = external
    BY <1>4, <2>2, <2>3, <2>4 DEF Line, NotAbove
  <2>5. CASE external' = external \o Answer
    <3>1. NotAbove(Told(O), Told(broks'))
      BY <2>1, ToldEmpty DEF NotAbove
    <3>2. NotAbove(Told(G), Told(O)) /\ NotAbove(Told(G), Told(own'))
        /\ NotAbove(Told(broks'), Told(own'))
      BY <1>4, <2>2 DEF Line, NotAbove
    <3>3. Sorted(Answer)
      BY <1>4, <2>3, <3>2, ToldConcat
    <3>4. NotAbove(Told(external), Told(Answer))
      BY <1>4, <2>2 DEF Line, NotAbove
    <3>5. Sorted(external') /\ Told(external') = Told(external) \cup Told(Answer)
      BY <1>4, <2>2, <2>5, <3>3, <3>4, ToldConcat DEF Line
    <3> QED
      BY <1>4, <2>2, <2>3, <3>1, <3>2, <3>5 DEF Line, NotAbove
  <2> QED
    BY <2>4, <2>5
<1>9. NotOvertaken'
  BY <1>1, <1>3, <1>4 DEF NotOvertaken
<1> QED
  BY <1>2, <1>7, <1>8, <1>9 DEF InLine, Unregistered

LEMMA GetNewBroksLine ==
    ASSUME IInv, TypeOK', get_new_broks
    PROVE  Past' /\ InLine' /\ Unregistered' /\ NotOvertaken' /\ extTold' = extTold
<1>1. TypeOK /\ Past /\ InLine /\ Unregistered /\ NotOvertaken
  BY DEF IInv
<1>2. UNCHANGED <<extTold, to_q>>
  BY DEF get_new_broks, extVars
<1>3. \/ UNCHANGED <<schedVars, external>>
      \/ fill_initial_broks /\ UNCHANGED external
      \/ get_broks /\ external' = external
      \/ get_broks /\ external' = external \o Answer
  BY DEF get_new_broks, do_pynag_con_init, FetchBroks, add_broks_to_queue, queueVars
<1>4. CASE UNCHANGED <<schedVars, external>>
  <2>1. UNCHANGED <<version, broks, own, registered, overtaken, external>>
    BY <1>4 DEF schedVars
  <2> QED
    BY <1>1, <1>2, <2>1, Removed DEF Unregistered, NotOvertaken
<1>5. CASE fill_initial_broks /\ UNCHANGED external
  BY <1>1, <1>2, <1>5, FillLine
<1>6. CASE get_broks /\ (external' = external \/ external' = external \o Answer)
  BY <1>2, <1>6, GetBroksLine
<1> QED
  BY <1>2, <1>3, <1>4, <1>5, <1>6

-----------------------------------------------------------------------------
(* The theorems *)

LEMMA InitIInv ==
    ASSUME Init
    PROVE  IInv
<1>1. TypeOK
  BY InitTypes
<1>2. B("log", 0) \in Brok /\ B("log", 0).v = 0
  BY VersionsAre DEF B, Brok
<1>3. /\ version = 0 /\ extTold = 0 /\ broks = <<B("log", 0)>> /\ own = <<>>
      /\ external = <<>> /\ to_q = <<>> /\ overtaken = FALSE
  BY DEF Init
<1>4. Told(broks) = {0} /\ Sorted(broks)
  BY <1>2, <1>3, ToldOne
<1>5. Told(<<>>) = {} /\ Sorted(<<>>)
  BY ToldEmpty
<1>6. Past
  BY <1>3, <1>4, <1>5 DEF Past, NotAbove
<1>7. Line(extTold, to_q, external, broks, own)
  BY <1>3, <1>4, <1>5 DEF Line, NotAbove
<1> QED
  BY <1>1, <1>3, <1>6, <1>7 DEF IInv, InLine, Unregistered, NotOvertaken

LEMMA Step ==
    ASSUME IInv, [Next]_vars
    PROVE  IInv' /\ (overtaken \/ extTold' = extTold \/ extTold' >= extTold)
<1>1. TypeOK'
  BY TypeStep DEF IInv
<1>2. CASE \/ UpdateHost \/ Alive \/ clean_queues
           \/ \E r \in BOOLEAN : SchedulerReset(r)
  <2>1. extTold' = extTold
    BY <1>2 DEF UpdateHost, Alive, clean_queues, SchedulerReset, extVars
  <2> QED
    BY <1>1, <1>2, <2>1, SchedulerLine DEF IInv
<1>3. CASE ExternalManages
  BY <1>1, <1>3, ManagesLine DEF IInv
<1>4. CASE \/ MinutePasses \/ ExternalDies \/ wait_new_conf
           \/ check_and_del_zombie_modules \/ Configure \/ GetMessages
  BY <1>1, <1>4, BrokerLine DEF IInv
<1>5. CASE GiveBroks
  BY <1>1, <1>5, GiveBroksLine DEF IInv
<1>6. CASE get_new_broks
  BY <1>1, <1>6, GetNewBroksLine DEF IInv
<1>7. CASE UNCHANGED vars
  <2>1. UNCHANGED <<version, broks, own, registered, overtaken, extTold, external, to_q>>
    BY <1>7 DEF vars, schedVars, queueVars, extVars
  <2> QED
    BY <1>1, <2>1, Removed DEF IInv, Unregistered, NotOvertaken
<1> QED
  BY <1>2, <1>3, <1>4, <1>5, <1>6, <1>7 DEF Next, BrokerTurn

\* The inductive invariant of Broks.tla.
THEOREM Invariance == Spec => []IInv
<1>1. Init => IInv
  BY InitIInv
<1>2. IInv /\ [Next]_vars => IInv'
  BY Step
<1> QED
  BY <1>1, <1>2, PTL DEF Spec

\* Queues hold broks, the copies of the modules are copies, whatever the limits
\* (scheduler.py get_broks, brokerdaemon.py do_loop_turn, regenerator.py).
THEOREM TypeCorrect == Spec => []TypeOK
<1>1. IInv => TypeOK
  BY DEF IInv
<1> QED
  BY <1>1, Invariance, PTL

\* ExternalInOrder: an external module is never told an older state of the host
\* after a newer one, unless get_broks left older broks behind before.
THEOREM ToldInOrder == Spec => ExternalInOrder
<1>1. IInv /\ [Next]_vars => [overtaken \/ extTold' >= extTold]_extTold
  BY Step
<1> QED
  BY <1>1, Invariance, PTL DEF Spec, ExternalInOrder

\* With broks_batch = 0 (no limit) get_broks never leaves broks behind: versions
\* never fall, without exception.
THEOREM InOrderWithoutBatch ==
    ASSUME broks_batch = 0
    PROVE  Spec => [][extTold' >= extTold]_extTold
<1>1. IInv /\ [Next]_vars => [extTold' >= extTold]_extTold
  BY Step DEF IInv, NotOvertaken
<1> QED
  BY <1>1, Invariance, PTL DEF Spec

=============================================================================
