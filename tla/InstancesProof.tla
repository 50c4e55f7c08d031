---------------------------- MODULE InstancesProof ----------------------------
(***************************************************************************)
(* Proofs about instances: the list of them with their groups              *)
(* (InstanceList), the servers that some of them run (Server), and the     *)
(* list of the mods that one has (ResourceFolder).                         *)
(***************************************************************************)
EXTENDS InstanceList, Server, ResourceFolder, FiniteSetTheorems, SequenceTheorems, WellFoundedInduction, TLAPS

-----------------------------------------------------------------------------
(* Induction. *)

\* A set that has 0, and with each number the next, has all natural numbers: otherwise
\* there would be a least one that it has not.
LEMMA Induction ==
    ASSUME NEW S, 0 \in S, \A n \in Nat : n \in S => n + 1 \in S
    PROVE  Nat \subseteq S
<1> DEFINE Below == {pair \in Nat \X Nat : pair[1] < pair[2]}
           Rest == Nat \ S
<1>1. IsWellFoundedOn(Below, Nat)
  BY NatLessThanWellFounded DEF OpToRel
<1>2. Rest # {} => \E n \in Rest : \A m \in Rest : <<m, n>> \notin Below
  <2> HIDE DEF Below
  <2> QED
    BY <1>1, WFMin
<1>3. ASSUME NEW n \in Rest
      PROVE  n - 1 \in Rest /\ <<n - 1, n>> \in Below
  <2>1. n # 0 /\ n \in Nat
    OBVIOUS
  <2>2. n - 1 \in Nat /\ n - 1 < n /\ (n - 1) + 1 = n
    BY <2>1
  <2> QED
    BY <2>1, <2>2
<1> QED
  BY <1>2, <1>3

-----------------------------------------------------------------------------
(* loadList(). *)

\* The sweep is what its definition says.
LEMMA SweptIs ==
    ASSUME rows \in Seq(Ids), NEW d
    PROVE  Swept(d) = [p \in 1 .. Len(rows) + 1 |->
                          IF p > Len(rows) THEN [rows |-> rows, front |-> 0, back |-> 0]
                          ELSE IF rows[p] \in d THEN Swept(d)[p + 1]
                          ELSE Stretched(Swept(d)[p + 1], p)]
<1> DEFINE n == Len(rows)
           Step(s, p) == IF rows[p] \in d THEN s ELSE Stretched(s, p)
           last == [rows |-> rows, front |-> 0, back |-> 0]
           From(k, f) == f = [p \in k .. n + 1 |-> IF p > n THEN last ELSE Step(f[p + 1], p)]
           Good == {k \in Nat : k <= n => \E f : From(n + 1 - k, f)}
<1>1. n \in Nat
  OBVIOUS
<1> HIDE DEF Step, last, n
<1>2. 0 \in Good
  <2>1. From(n + 1, [p \in n + 1 .. n + 1 |-> last])
    BY <1>1
  <2>2. n + 1 - 0 = n + 1 /\ 0 <= n
    BY <1>1
  <2>3. \E f : From(n + 1 - 0, f)
    BY <2>1, <2>2
  <2> QED
    BY <2>2, <2>3
<1>3. ASSUME NEW k \in Nat, k \in Good, k + 1 <= n
      PROVE  \E f : From(n - k, f)
  <2>1. PICK f : From(n + 1 - k, f)
    BY <1>1, <1>3
  <2> DEFINE g == [p \in n - k .. n + 1 |-> IF p = n - k THEN Step(f[p + 1], p) ELSE f[p]]
  <2>2. \A p \in n - k + 1 .. n + 1 : g[p] = f[p]
    BY <1>1, <1>3
  <2>3. \A p \in n - k .. n + 1 : g[p] = (IF p > n THEN last ELSE Step(g[p + 1], p))
    <3>1. SUFFICES ASSUME NEW p \in n - k .. n + 1
                   PROVE  g[p] = (IF p > n THEN last ELSE Step(g[p + 1], p))
      OBVIOUS
    <3>2. CASE p = n - k
      <4>1. p + 1 \in n - k + 1 .. n + 1 /\ p <= n
        BY <1>1, <1>3, <3>2
      <4> QED
        BY <1>1, <2>2, <3>2, <4>1
    <3>3. CASE p # n - k
      <4>1. p \in n + 1 - k .. n + 1 /\ p > n - k
        BY <1>1, <1>3, <3>3
      <4>2. g[p] = (IF p > n THEN last ELSE Step(f[p + 1], p))
        BY <2>1, <2>2, <4>1, <1>1, <1>3
      <4>3. p <= n => p + 1 \in n - k + 1 .. n + 1
        BY <1>1, <1>3, <4>1
      <4> QED
        BY <2>2, <4>2, <4>3, <1>1
    <3> QED
      BY <3>2, <3>3
  <2>4. From(n - k, g)
    BY <2>3
  <2> QED
    BY <2>4
<1>4. \A k \in Nat : k \in Good => k + 1 \in Good
  <2>1. \A k \in Nat : n + 1 - (k + 1) = n - k
    BY <1>1
  <2> QED
    BY <1>3, <2>1
<1>5. n \in Good
  <2> HIDE DEF Good
  <2> QED
    BY <1>1, <1>2, <1>4, Induction
<1>6. \E f : From(1, f)
  BY <1>1, <1>5
<1>7. Swept(d) = CHOOSE f : From(1, f)
  BY DEF Swept, Step, last, n
<1>8. From(1, Swept(d))
  BY <1>6, <1>7
<1> QED
  BY <1>8 DEF Step, last, n

\* A sequence without the part from `front' to `back'.
LEMMA ErasedPart ==
    ASSUME NEW s, s.rows \in Seq(Ids), s.front \in 1 .. s.back, s.back \in 1 .. Len(s.rows)
    PROVE  /\ Erased(s) \in Seq(Ids)
           /\ Len(Erased(s)) = Len(s.rows) - (s.back - s.front + 1)
           /\ \A i \in 1 .. s.front - 1 : Erased(s)[i] = s.rows[i]
           /\ \A i \in s.front .. Len(s.rows) - (s.back - s.front + 1) :
                 Erased(s)[i] = s.rows[i + (s.back - s.front + 1)]
<1> DEFINE r == s.rows
           f == s.front
           b == s.back
           head == SubSeq(r, 1, f - 1)
           tail == SubSeq(r, b + 1, Len(r))
<1>1. r \in Seq(Ids) /\ f \in 1 .. b /\ b \in 1 .. Len(r) /\ Len(r) \in Nat
  OBVIOUS
<1> HIDE DEF r, f, b
<1>2. /\ head \in Seq(Ids) /\ Len(head) = f - 1
      /\ \A i \in 1 .. f - 1 : head[i] = r[i]
  BY <1>1
<1>3. /\ tail \in Seq(Ids) /\ Len(tail) = Len(r) - b
      /\ \A i \in 1 .. Len(r) - b : tail[i] = r[b + i]
  BY <1>1
<1>4. Erased(s) = head \o tail
  BY DEF Erased, r, f, b
<1> HIDE DEF head, tail
<1>5. /\ head \o tail \in Seq(Ids)
      /\ Len(head \o tail) = (f - 1) + (Len(r) - b)
      /\ \A i \in 1 .. f - 1 : (head \o tail)[i] = head[i]
      /\ \A i \in f .. (f - 1) + (Len(r) - b) : (head \o tail)[i] = tail[i - (f - 1)]
  <2>1. head \o tail \in Seq(Ids) /\ Len(head \o tail) = Len(head) + Len(tail)
    BY <1>2, <1>3, ConcatProperties
  <2>2. ASSUME NEW i \in 1 .. f - 1
        PROVE  (head \o tail)[i] = head[i]
    BY <1>1, <1>2, <1>3
  <2>3. ASSUME NEW i \in f .. (f - 1) + (Len(r) - b)
        PROVE  (head \o tail)[i] = tail[i - (f - 1)]
    <3>1. i \in 1 .. Len(head) + Len(tail) /\ i > Len(head)
      BY <1>1, <1>2, <1>3
    <3>2. (head \o tail)[i] = tail[i - Len(head)]
      BY <1>2, <1>3, <3>1
    <3> QED
      BY <1>2, <3>2
  <2> QED
    BY <1>2, <1>3, <2>1, <2>2, <2>3
<1>6. \A i \in f .. (f - 1) + (Len(r) - b) : tail[i - (f - 1)] = r[i + (b - f + 1)]
  <2>1. SUFFICES ASSUME NEW i \in f .. (f - 1) + (Len(r) - b)
                 PROVE  tail[i - (f - 1)] = r[i + (b - f + 1)]
    OBVIOUS
  <2>2. i - (f - 1) \in 1 .. Len(r) - b /\ b + (i - (f - 1)) = i + (b - f + 1)
    BY <1>1
  <2> QED
    BY <1>3, <2>2
<1>7. (f - 1) + (Len(r) - b) = Len(r) - (b - f + 1)
  BY <1>1
<1> QED
  BY <1>2, <1>4, <1>5, <1>6, <1>7 DEF r, f, b

\* What the sweep has made of the rows before it comes to row p - 1: no row from p on
\* has to go, or those from front to back have, and beyond there are those that stay.
SweptTrue(s, p, d) ==
    /\ s.rows \in Seq(Ids) /\ IsInjective(s.rows) /\ s.front \in Nat /\ s.back \in Nat
    /\ DOMAIN s = {"rows", "front", "back"}
    /\ s.back = 0 => s.rows = rows /\ \A j \in p .. Len(rows) : rows[j] \in d
    /\ s.back # 0 =>
          /\ p <= s.front /\ s.front <= s.back /\ s.back <= Len(s.rows) /\ s.back <= Len(rows)
          /\ \A i \in 1 .. s.back : s.rows[i] = rows[i]
          /\ \A j \in p .. s.front - 1 : rows[j] \in d
          /\ \A j \in s.front .. s.back : rows[j] \notin d
          /\ \A i \in s.back + 1 .. Len(s.rows) :
                \E j \in s.back + 1 .. Len(rows) : s.rows[i] = rows[j] /\ rows[j] \in d
          /\ \A j \in s.back + 1 .. Len(rows) :
                rows[j] \in d => \E i \in s.back + 1 .. Len(s.rows) : s.rows[i] = rows[j]

\* A list `x' with the rows before `f', and of the others those of instances in `d'.
LeftTrue(x, f, d) ==
    /\ x \in Seq(Ids) /\ IsInjective(x) /\ f - 1 <= Len(x)
    /\ \A i \in 1 .. f - 1 : x[i] = rows[i]
    /\ \A i \in f .. Len(x) : \E j \in f .. Len(rows) : x[i] = rows[j] /\ rows[j] \in d
    /\ \A j \in f .. Len(rows) : rows[j] \in d => \E i \in f .. Len(x) : x[i] = rows[j]

\* What is left when the range is erased.
LEMMA ErasedTrue ==
    ASSUME rows \in Seq(Ids), NEW d, NEW p \in 1 .. Len(rows) + 1, NEW s, SweptTrue(s, p, d),
           s.back # 0
    PROVE  LeftTrue(Erased(s), s.front, d)
<1> DEFINE f == s.front
           b == s.back
           r == s.rows
           x == Erased(s)
           cut == b - f + 1
<1>1. /\ p \in Nat /\ p >= 1 /\ Len(rows) \in Nat /\ f \in Nat /\ b \in Nat
      /\ r \in Seq(Ids) /\ IsInjective(r)
      /\ p <= f /\ f <= b /\ b <= Len(r) /\ b <= Len(rows)
      /\ Len(r) \in Nat
  BY DEF SweptTrue
<1>2. /\ x \in Seq(Ids) /\ Len(x) = Len(r) - cut
      /\ \A i \in 1 .. f - 1 : x[i] = r[i]
      /\ \A i \in f .. Len(r) - cut : x[i] = r[i + cut]
  <2>1. s.rows \in Seq(Ids) /\ s.front \in 1 .. s.back /\ s.back \in 1 .. Len(s.rows)
    BY <1>1
  <2> QED
    BY <2>1, ErasedPart
<1>3. /\ \A i \in 1 .. b : r[i] = rows[i]
      /\ \A j \in f .. b : rows[j] \notin d
      /\ \A i \in b + 1 .. Len(r) : \E j \in b + 1 .. Len(rows) : r[i] = rows[j] /\ rows[j] \in d
      /\ \A j \in b + 1 .. Len(rows) : rows[j] \in d => \E i \in b + 1 .. Len(r) : r[i] = rows[j]
  BY DEF SweptTrue
<1> HIDE DEF f, b, r, x
<1>4. cut \in Nat /\ cut >= 1 /\ f + cut = b + 1 /\ Len(r) - cut >= f - 1
  BY <1>1
<1>5. IsInjective(x)
  <2> DEFINE at(i) == IF i < f THEN i ELSE i + cut
  <2>1. DOMAIN x = 1 .. Len(x) /\ DOMAIN r = 1 .. Len(r)
    BY <1>1, <1>2
  <2>2. \A i \in 1 .. Len(x) : at(i) \in 1 .. Len(r) /\ x[i] = r[at(i)]
    BY <1>1, <1>2, <1>4
  <2>3. \A i, j \in 1 .. Len(x) : at(i) = at(j) => i = j
    BY <1>1, <1>2, <1>4
  <2> HIDE DEF at
  <2> QED
    BY <1>1, <2>1, <2>2, <2>3 DEF IsInjective
<1>6. f - 1 <= Len(x)
  BY <1>2, <1>4, <1>1
<1>7. \A i \in 1 .. f - 1 : x[i] = rows[i]
  BY <1>1, <1>2, <1>3
<1>8. ASSUME NEW i \in f .. Len(x)
      PROVE  \E j \in f .. Len(rows) : x[i] = rows[j] /\ rows[j] \in d
  <2>1. i + cut \in b + 1 .. Len(r) /\ x[i] = r[i + cut]
    BY <1>1, <1>2, <1>4
  <2>2. PICK j \in b + 1 .. Len(rows) : r[i + cut] = rows[j] /\ rows[j] \in d
    BY <1>3, <2>1
  <2>3. j \in f .. Len(rows)
    BY <1>1
  <2> QED
    BY <2>1, <2>2, <2>3
<1>9. ASSUME NEW j \in f .. Len(rows), rows[j] \in d
      PROVE  \E i \in f .. Len(x) : x[i] = rows[j]
  <2>1. j \in b + 1 .. Len(rows)
    BY <1>1, <1>3, <1>9
  <2>2. PICK k \in b + 1 .. Len(r) : r[k] = rows[j]
    BY <1>3, <1>9, <2>1
  <2>3. k - cut \in f .. Len(x) /\ (k - cut) + cut = k
    BY <1>1, <1>2, <1>4
  <2>4. x[k - cut] = r[k]
    BY <1>2, <2>3
  <2> QED
    BY <2>2, <2>3, <2>4
<1> QED
  BY <1>2, <1>5, <1>6, <1>7, <1>8, <1>9 DEF f, x, LeftTrue

\* One more row, from last to first.
LEMMA StretchedTrue ==
    ASSUME rows \in Seq(Ids), IsInjective(rows), NEW d, NEW p \in 1 .. Len(rows),
           rows[p] \notin d, NEW s, SweptTrue(s, p + 1, d)
    PROVE  SweptTrue(Stretched(s, p), p, d)
<1>1. p \in Nat /\ p >= 1 /\ p <= Len(rows) /\ Len(rows) \in Nat /\ p + 1 \in 1 .. Len(rows) + 1
  OBVIOUS
<1>2. CASE s.back = 0
  <2>1. Stretched(s, p) = [rows |-> rows, front |-> p, back |-> p]
    BY <1>2 DEF Stretched, SweptTrue
  <2>2. \A j \in p + 1 .. Len(rows) : rows[j] \in d
    BY <1>2 DEF SweptTrue
  <2> QED
    BY <1>1, <2>1, <2>2 DEF SweptTrue
<1>3. CASE s.back # 0 /\ p = s.front - 1
  <2>1. Stretched(s, p) = [rows |-> s.rows, front |-> p, back |-> s.back]
    BY <1>3 DEF Stretched, SweptTrue
  <2>2. /\ s.front \in Nat /\ s.back \in Nat /\ s.front <= s.back /\ s.back <= Len(s.rows)
        /\ s.back <= Len(rows)
        /\ \A j \in s.front .. s.back : rows[j] \notin d
    BY <1>3 DEF SweptTrue
  <2>3. \A j \in p .. s.back : rows[j] \notin d
    BY <1>1, <1>3, <2>2
  <2>4. \A j \in p .. p - 1 : rows[j] \in d
    BY <1>1
  <2> QED
    BY <1>1, <1>3, <2>1, <2>2, <2>3, <2>4 DEF SweptTrue
<1>4. CASE s.back # 0 /\ p # s.front - 1
  <2> DEFINE x == Erased(s)
  <2>1. Stretched(s, p) = [rows |-> x, front |-> p, back |-> p]
    BY <1>4 DEF Stretched
  <2>2. /\ s.front \in Nat /\ p + 1 <= s.front /\ p < s.front - 1 /\ s.front <= Len(rows)
        /\ \A j \in p + 1 .. s.front - 1 : rows[j] \in d
    BY <1>1, <1>4 DEF SweptTrue
  <2>3. LeftTrue(x, s.front, d)
    <3>1. p + 1 \in 1 .. Len(rows) + 1 /\ s.back # 0
      BY <1>1, <1>4
    <3> QED
      BY <3>1, ErasedTrue
  <2> HIDE DEF x
  <2>4. Len(x) \in Nat /\ p <= Len(x) /\ \A i \in 1 .. p : x[i] = rows[i]
    BY <1>1, <2>2, <2>3 DEF LeftTrue
  <2>5. ASSUME NEW i \in p + 1 .. Len(x)
        PROVE  \E j \in p + 1 .. Len(rows) : x[i] = rows[j] /\ rows[j] \in d
    <3>1. CASE i <= s.front - 1
      <4>1. i \in p + 1 .. s.front - 1 /\ i \in 1 .. s.front - 1 /\ i \in p + 1 .. Len(rows)
        BY <1>1, <2>2, <2>4, <3>1
      <4> QED
        BY <2>2, <2>3, <4>1 DEF LeftTrue
    <3>2. CASE i >= s.front
      <4>1. PICK j \in s.front .. Len(rows) : x[i] = rows[j] /\ rows[j] \in d
        BY <2>2, <2>3, <2>4, <3>2, <1>1 DEF LeftTrue
      <4>2. j \in p + 1 .. Len(rows)
        BY <1>1, <2>2
      <4> QED
        BY <4>1, <4>2
    <3> QED
      BY <1>1, <2>2, <2>4, <3>1, <3>2
  <2>6. ASSUME NEW j \in p + 1 .. Len(rows), rows[j] \in d
        PROVE  \E i \in p + 1 .. Len(x) : x[i] = rows[j]
    <3>1. CASE j <= s.front - 1
      <4>1. j \in 1 .. s.front - 1 /\ j \in p + 1 .. Len(x)
        BY <1>1, <2>2, <2>3, <2>4, <3>1 DEF LeftTrue
      <4> QED
        BY <2>3, <4>1 DEF LeftTrue
    <3>2. CASE j >= s.front
      <4>1. PICK i \in s.front .. Len(x) : x[i] = rows[j]
        BY <2>2, <2>3, <2>6, <3>2, <1>1 DEF LeftTrue
      <4>2. i \in p + 1 .. Len(x)
        BY <1>1, <2>2, <2>4
      <4> QED
        BY <4>1, <4>2
    <3> QED
      BY <1>1, <2>2, <3>1, <3>2
  <2>7. /\ \A j \in p .. p - 1 : rows[j] \in d
        /\ \A j \in p .. p : rows[j] \notin d
    BY <1>1
  <2> QED
    BY <1>1, <2>1, <2>3, <2>4, <2>5, <2>6, <2>7 DEF SweptTrue, LeftTrue
<1> QED
  BY <1>2, <1>3, <1>4


\* Before each row, and after the first, the sweep is as SweptTrue says.
LEMMA SweptAll ==
    ASSUME rows \in Seq(Ids), IsInjective(rows), NEW d
    PROVE  \A p \in 1 .. Len(rows) + 1 : SweptTrue(Swept(d)[p], p, d)
<1> DEFINE n == Len(rows)
           f == Swept(d)
           Good == {k \in Nat : k <= n => SweptTrue(f[n + 1 - k], n + 1 - k, d)}
<1>1. n \in Nat
  OBVIOUS
<1>2. f = [p \in 1 .. n + 1 |-> IF p > n THEN [rows |-> rows, front |-> 0, back |-> 0]
                                ELSE IF rows[p] \in d THEN f[p + 1]
                                ELSE Stretched(f[p + 1], p)]
  BY SweptIs
<1> HIDE DEF n, f
<1>3. SweptTrue(f[n + 1], n + 1, d)
  <2>1. f[n + 1] = [rows |-> rows, front |-> 0, back |-> 0]
    BY <1>1, <1>2
  <2>2. \A j \in n + 1 .. n : rows[j] \in d
    BY <1>1
  <2> QED
    BY <1>1, <2>1, <2>2 DEF SweptTrue, n
<1>4. ASSUME NEW p \in 1 .. n, SweptTrue(f[p + 1], p + 1, d)
      PROVE  SweptTrue(f[p], p, d)
  <2>1. p \in 1 .. n + 1 /\ ~(p > n) /\ p \in Nat /\ p <= n
    BY <1>1
  <2>2. CASE rows[p] \in d
    <3>1. f[p] = f[p + 1]
      BY <1>2, <2>1, <2>2
    <3>2. SweptTrue(f[p + 1], p, d)
      BY <1>1, <1>4, <2>1, <2>2 DEF SweptTrue, n
    <3> QED
      BY <3>1, <3>2
  <2>3. CASE rows[p] \notin d
    <3>1. f[p] = Stretched(f[p + 1], p)
      BY <1>2, <2>1, <2>3
    <3>2. SweptTrue(Stretched(f[p + 1], p), p, d)
      BY <1>4, <2>3, StretchedTrue DEF n
    <3> QED
      BY <3>1, <3>2
  <2> QED
    BY <2>2, <2>3
<1>5. 0 \in Good
  <2>1. n + 1 - 0 = n + 1
    BY <1>1
  <2> QED
    BY <1>3, <2>1
<1>6. ASSUME NEW k \in Nat, k \in Good
      PROVE  k + 1 \in Good
  <2>1. SUFFICES ASSUME k + 1 <= n
                 PROVE  SweptTrue(f[n + 1 - (k + 1)], n + 1 - (k + 1), d)
    OBVIOUS
  <2> DEFINE p == n + 1 - (k + 1)
  <2>2. p \in 1 .. n /\ p + 1 = n + 1 - k /\ k <= n
    BY <1>1, <2>1
  <2>3. SweptTrue(f[p + 1], p + 1, d)
    <3> HIDE DEF p
    <3> QED
      BY <1>6, <2>2
  <2> HIDE DEF p
  <2>4. SweptTrue(f[p], p, d)
    BY <1>4, <2>2, <2>3
  <2> QED
    BY <2>4 DEF p
<1>7. Nat \subseteq Good
  <2> HIDE DEF Good
  <2> QED
    BY <1>5, <1>6, Induction
<1>8. ASSUME NEW p \in 1 .. n + 1
      PROVE  SweptTrue(f[p], p, d)
  <2>1. n + 1 - p \in Nat /\ n + 1 - p <= n /\ n + 1 - (n + 1 - p) = p
    BY <1>1
  <2>2. n + 1 - p \in Good
    BY <1>7, <2>1
  <2> QED
    BY <2>1, <2>2
<1> QED
  BY <1>8 DEF n, f

\* The rows that stay are those of the instances that are still there, each once.
LEMMA KeptRows ==
    ASSUME rows \in Seq(Ids), IsInjective(rows), NEW d
    PROVE  Kept(d) \in Seq(Ids) /\ IsInjective(Kept(d)) /\ ToSet(Kept(d)) = Listed \cap d
<1> DEFINE s == Swept(d)[1]
<1>1. Len(rows) \in Nat /\ 1 \in 1 .. Len(rows) + 1 /\ DOMAIN rows = 1 .. Len(rows)
  OBVIOUS
<1>2. SweptTrue(s, 1, d)
  BY <1>1, SweptAll
<1>3. Listed = {rows[j] : j \in 1 .. Len(rows)}
  BY <1>1 DEF Listed, ToSet
<1>4. Kept(d) = IF s.back = 0 THEN rows ELSE Erased(s)
  BY DEF Kept
<1> HIDE DEF s
<1>5. CASE s.back = 0
  <2>1. \A j \in 1 .. Len(rows) : rows[j] \in d
    BY <1>2, <1>5 DEF SweptTrue
  <2>2. Listed = Listed \cap d
    BY <1>3, <2>1
  <2> QED
    BY <1>4, <1>5, <2>2 DEF Listed
<1>6. CASE s.back # 0
  <2> DEFINE x == Erased(s)
             f == s.front
  <2>1. LeftTrue(x, f, d)
    BY <1>1, <1>2, <1>6, ErasedTrue
  <2>2. f \in Nat /\ 1 <= f /\ f <= Len(rows) /\ \A j \in 1 .. f - 1 : rows[j] \in d
    BY <1>1, <1>2, <1>6 DEF SweptTrue
  <2>3. Kept(d) = x
    BY <1>4, <1>6
  <2> HIDE DEF x, f
  <2>4. x \in Seq(Ids) /\ IsInjective(x) /\ Len(x) \in Nat /\ f - 1 <= Len(x)
        /\ \A i \in 1 .. f - 1 : x[i] = rows[i]
    BY <2>1 DEF LeftTrue
  <2>5. ASSUME NEW i \in 1 .. Len(x)
        PROVE  \E j \in 1 .. Len(rows) : x[i] = rows[j] /\ rows[j] \in d
    <3>1. CASE i <= f - 1
      <4>1. i \in 1 .. f - 1 /\ i \in 1 .. Len(rows)
        BY <1>1, <2>2, <3>1
      <4> QED
        BY <2>2, <2>4, <4>1
    <3>2. CASE i > f - 1
      <4>1. i \in f .. Len(x)
        BY <2>2, <2>4, <3>2
      <4>2. PICK j \in f .. Len(rows) : x[i] = rows[j] /\ rows[j] \in d
        BY <2>1, <4>1 DEF LeftTrue
      <4> QED
        BY <1>1, <2>2, <4>2
    <3> QED
      BY <2>2, <3>1, <3>2
  <2>6. ASSUME NEW j \in 1 .. Len(rows), rows[j] \in d
        PROVE  \E i \in 1 .. Len(x) : x[i] = rows[j]
    <3>1. CASE j <= f - 1
      <4>1. j \in 1 .. f - 1 /\ j \in 1 .. Len(x)
        BY <1>1, <2>2, <2>4, <3>1
      <4> QED
        BY <2>4, <4>1
    <3>2. CASE j > f - 1
      <4>1. j \in f .. Len(rows)
        BY <1>1, <2>2, <3>2
      <4>2. PICK i \in f .. Len(x) : x[i] = rows[j]
        BY <2>1, <2>6, <4>1 DEF LeftTrue
      <4> QED
        BY <2>2, <2>4, <4>2
    <3> QED
      BY <1>1, <2>2, <3>1, <3>2
  <2>7. ToSet(x) = {x[i] : i \in 1 .. Len(x)}
    BY <2>4 DEF ToSet
  <2>8. ToSet(x) = Listed \cap d
    <3>1. ASSUME NEW e \in ToSet(x)
          PROVE  e \in Listed \cap d
      <4>1. PICK i \in 1 .. Len(x) : e = x[i]
        BY <2>7
      <4> QED
        BY <1>3, <2>5, <4>1
    <3>2. ASSUME NEW e \in Listed \cap d
          PROVE  e \in ToSet(x)
      <4>1. PICK j \in 1 .. Len(rows) : e = rows[j]
        BY <1>3
      <4> QED
        BY <2>6, <2>7, <4>1
    <3> QED
      BY <3>1, <3>2
  <2> QED
    BY <2>3, <2>4, <2>8
<1> QED
  BY <1>5, <1>6

\* What iterating over a directory makes of the instances in it.
LEMMA SeqOfSet ==
    ASSUME NEW S, IsFiniteSet(S)
    PROVE  SetToSeq(S) \in Seq(S) /\ IsInjective(SetToSeq(S)) /\ ToSet(SetToSeq(S)) = S
<1> DEFINE n == Cardinality(S)
           q == SetToSeq(S)
<1>1. n \in Nat
  BY FS_CardinalityType
<1>2. \E g \in [1 .. n -> S] : IsInjective(g)
  <2>1. PICK g : g \in Bijection(1 .. n, S)
    <3>1. ExistsBijection(1 .. n, S)
      BY <1>1, FS_CountingElements, FS_NatBijection
    <3> QED
      BY <3>1 DEF ExistsBijection
  <2> QED
    BY <2>1 DEF Bijection, Injection, IsInjective
<1>3. q \in [1 .. n -> S] /\ IsInjective(q)
  BY <1>2 DEF SetToSeq
<1> HIDE DEF q
<1>4. q \in Injection(1 .. n, S)
  BY <1>3 DEF Injection
<1>5. Cardinality(1 .. n) = n
  BY <1>1, FS_Interval
<1>6. IsFiniteSet(1 .. n)
  BY <1>1, FS_Interval
<1>7. q \in Surjection(1 .. n, S)
  BY <1>4, <1>5, FS_Injection
<1>8. ToSet(q) = S
  BY <1>3, <1>7 DEF ToSet, Surjection
<1> QED
  BY <1>1, <1>3, <1>8 DEF q

\* The lists of two sets that share nothing, one after the other.
LEMMA Joined ==
    ASSUME NEW x \in Seq(Ids), NEW y \in Seq(Ids), IsInjective(x), IsInjective(y),
           ToSet(x) \cap ToSet(y) = {}
    PROVE  x \o y \in Seq(Ids) /\ IsInjective(x \o y) /\ ToSet(x \o y) = ToSet(x) \cup ToSet(y)
<1> DEFINE z == x \o y
<1>1. /\ z \in Seq(Ids) /\ Len(z) = Len(x) + Len(y)
      /\ \A i \in 1 .. Len(x) + Len(y) : z[i] = IF i <= Len(x) THEN x[i] ELSE y[i - Len(x)]
  BY ConcatProperties
<1> HIDE DEF z
<1>2. /\ Len(x) \in Nat /\ Len(y) \in Nat
      /\ DOMAIN x = 1 .. Len(x) /\ DOMAIN y = 1 .. Len(y) /\ DOMAIN z = 1 .. Len(x) + Len(y)
  BY <1>1
<1>3. /\ ToSet(x) = {x[i] : i \in 1 .. Len(x)} /\ ToSet(y) = {y[i] : i \in 1 .. Len(y)}
      /\ ToSet(z) = {z[i] : i \in 1 .. Len(x) + Len(y)}
  BY <1>2 DEF ToSet
<1>4. ASSUME NEW i \in 1 .. Len(x)
      PROVE  i \in 1 .. Len(x) + Len(y) /\ z[i] = x[i] /\ z[i] \in ToSet(x)
  BY <1>1, <1>2, <1>3
<1>5. ASSUME NEW i \in 1 .. Len(y)
      PROVE  i + Len(x) \in 1 .. Len(x) + Len(y) /\ z[i + Len(x)] = y[i]
  BY <1>1, <1>2
<1>6. ASSUME NEW i \in 1 .. Len(x) + Len(y), i > Len(x)
      PROVE  i - Len(x) \in 1 .. Len(y) /\ z[i] = y[i - Len(x)] /\ z[i] \in ToSet(y)
  <2>1. i - Len(x) \in 1 .. Len(y)
    BY <1>2, <1>6
  <2> QED
    BY <1>1, <1>2, <1>3, <1>6, <2>1
<1>7. ASSUME NEW i \in 1 .. Len(x) + Len(y), i <= Len(x)
      PROVE  i \in 1 .. Len(x)
  BY <1>2, <1>7
<1>8. ToSet(z) = ToSet(x) \cup ToSet(y)
  <2>1. ToSet(z) \subseteq ToSet(x) \cup ToSet(y)
    <3>1. SUFFICES ASSUME NEW i \in 1 .. Len(x) + Len(y)
                   PROVE  z[i] \in ToSet(x) \cup ToSet(y)
      BY <1>3
    <3>2. CASE i <= Len(x)
      BY <1>4, <1>7, <3>2
    <3>3. CASE i > Len(x)
      BY <1>6, <3>3
    <3> QED
      BY <1>2, <3>2, <3>3
  <2>2. ToSet(x) \subseteq ToSet(z)
    BY <1>3, <1>4
  <2>3. ToSet(y) \subseteq ToSet(z)
    BY <1>3, <1>5
  <2> QED
    BY <2>1, <2>2, <2>3
<1>9. ASSUME NEW i \in 1 .. Len(x) + Len(y), NEW j \in 1 .. Len(x) + Len(y), z[i] = z[j]
      PROVE  i = j
  <2>1. CASE i <= Len(x) /\ j <= Len(x)
    <3>1. i \in DOMAIN x /\ j \in DOMAIN x /\ x[i] = x[j]
      BY <1>2, <1>4, <1>7, <1>9, <2>1
    <3> QED
      BY <3>1 DEF IsInjective
  <2>2. CASE i > Len(x) /\ j > Len(x)
    <3>1. i - Len(x) \in DOMAIN y /\ j - Len(x) \in DOMAIN y /\ y[i - Len(x)] = y[j - Len(x)]
      BY <1>2, <1>6, <1>9, <2>2
    <3>2. i - Len(x) = j - Len(x)
      BY <3>1 DEF IsInjective
    <3> QED
      BY <1>2, <3>2
  <2>3. CASE i <= Len(x) /\ j > Len(x)
    <3>1. z[i] \in ToSet(x) /\ z[j] \in ToSet(y)
      BY <1>4, <1>6, <1>7, <2>3
    <3> QED
      BY <1>9, <3>1
  <2>4. CASE i > Len(x) /\ j <= Len(x)
    <3>1. z[j] \in ToSet(x) /\ z[i] \in ToSet(y)
      BY <1>4, <1>6, <1>7, <2>4
    <3> QED
      BY <1>9, <3>1
  <2> QED
    BY <1>2, <2>1, <2>2, <2>3, <2>4
<1>10. IsInjective(z)
  BY <1>2, <1>9 DEF IsInjective
<1> QED
  BY <1>1, <1>8, <1>10 DEF z

\* A list has each of the instances of Listed once.
ListOfIds(r) == r \in Seq(Ids) /\ IsInjective(r)

\* The rows of the first loadList().
LEMMA StartedRows ==
    ASSUME dirs \subseteq Ids
    PROVE  ListOfIds(StartRows) /\ ToSet(StartRows) = dirs
<1>1. IsFiniteSet(dirs)
  BY ListAssumption, FS_Subset
<1>2. SetToSeq(dirs) \in Seq(dirs)
  BY <1>1, SeqOfSet
<1>3. SetToSeq(dirs) \in Seq(Ids)
  BY <1>2
<1> QED
  BY <1>1, <1>3, SeqOfSet DEF StartRows, ListOfIds

\* loadList() makes the list that of the directories.
LEMMA LoadedRows ==
    ASSUME ListOfIds(rows), NEW d \in SUBSET Ids
    PROVE  /\ ListOfIds(Kept(d) \o Found(d)) /\ ToSet(Kept(d) \o Found(d)) = d
           /\ Found(d) # <<>> <=> d \ Listed # {}
<1>1. IsFiniteSet(d \ Listed)
  BY ListAssumption, FS_Subset
<1>2. /\ Found(d) \in Seq(d \ Listed) /\ IsInjective(Found(d)) /\ ToSet(Found(d)) = d \ Listed
  BY <1>1, SeqOfSet DEF Found
<1>3. Found(d) \in Seq(Ids)
  BY <1>2
<1>4. Kept(d) \in Seq(Ids) /\ IsInjective(Kept(d)) /\ ToSet(Kept(d)) = Listed \cap d
  BY KeptRows DEF ListOfIds
<1>5. ToSet(Kept(d)) \cap ToSet(Found(d)) = {}
  BY <1>2, <1>4
<1>6. /\ Kept(d) \o Found(d) \in Seq(Ids) /\ IsInjective(Kept(d) \o Found(d))
      /\ ToSet(Kept(d) \o Found(d)) = ToSet(Kept(d)) \cup ToSet(Found(d))
  BY <1>2, <1>3, <1>4, <1>5, Joined
<1>7. Found(d) # <<>> <=> d \ Listed # {}
  <2>1. Found(d) = <<>> => ToSet(Found(d)) = {}
    BY DEF ToSet
  <2>2. Found(d) # <<>> => 1 \in DOMAIN Found(d)
    BY <1>2
  <2>3. Found(d) # <<>> => ToSet(Found(d)) # {}
    BY <2>2 DEF ToSet
  <2> QED
    BY <1>2, <2>1, <2>3
<1> QED
  BY <1>2, <1>4, <1>6, <1>7 DEF ListOfIds

-----------------------------------------------------------------------------
(* InstanceList: the types of its variables, and the list. *)

GroupsOrNone == Groups \cup {NoGroup}
Labels == Groups \cup {NoGroup, Absent}

\* The group an instance has in the file.
Stored(i) == InFile(file, i)

MemoryTyped(m) == m.index \in [Ids -> Labels] /\ m.counts \in [Groups -> Nat]

Jobs == [phase : {"None", "Working", "Waiting", "Failed", "Aborted", "Succeeded"},
         target : Ids \cup {New}, group : GroupsOrNone, sleep : Nat]

Trashed == [id : Ids, group : GroupsOrNone]

ListTypes ==
    /\ dirs \subseteq Ids /\ file \in GroupFiles \cup {NoFile}
    /\ told \in BOOLEAN /\ missed \in BOOLEAN /\ loaded \in BOOLEAN
    /\ ListOfIds(rows) /\ known = Listed
    /\ MemoryTyped(Memory)
    /\ trash \in Seq(Trashed) /\ jobs \in [Stagings -> Jobs]
    /\ wanted \in [Ids -> GroupsOrNone]

ListInv == ListTypes /\ InstancesAreListed

\* Names of groups are neither of the two that stand for none.
LEMMA NamesOfGroups == NoGroup \notin Groups /\ Absent \notin Groups /\ NoGroup # Absent
  BY ListAssumption DEF NoGroup, Absent

\* The group file that is written is one, and a save leaves one or none.
LEMMA WrittenTyped ==
    ASSUME NEW idx, NEW ids
    PROVE  Written(idx, ids) \in GroupFiles
  BY DEF Written, GroupFiles

LEMMA SavesTyped ==
    ASSUME NEW d, d.file \in GroupFiles \cup {NoFile}, NEW idx, NEW ids, NEW given,
           NEW e \in Saves(d, idx, ids, given)
    PROVE  e.file \in GroupFiles \cup {NoFile}
  BY WrittenTyped DEF Saves

LEMMA SaveTyped ==
    ASSUME file \in GroupFiles \cup {NoFile}, NEW idx, NEW ids, NEW given,
           SaveGroups(idx, ids, given)
    PROVE  file' \in GroupFiles \cup {NoFile}
  BY SavesTyped DEF SaveGroups, Disk

\* The group file is read at most once, and only one that is there.
LEMMA ReadsIs ==
    ASSUME NEW d, NEW f, NEW r \in Reads(d, f)
    PROVE  r \in BOOLEAN /\ (r => ~loaded /\ f # NoFile)
  BY DEF Reads

\* What is read from a file is typed.
LEMMA ReadTyped ==
    ASSUME NEW f \in GroupFiles
    PROVE  MemoryTyped(ReadFrom(f))
<1>1. \A g \in Groups : Cardinality({i \in Ids : f[i] = g}) \in Nat
  <2>1. SUFFICES ASSUME NEW g \in Groups
                 PROVE  Cardinality({i \in Ids : f[i] = g}) \in Nat
    OBVIOUS
  <2>2. IsFiniteSet({i \in Ids : f[i] = g})
    BY ListAssumption, FS_Subset
  <2> QED
    BY <2>2, FS_CardinalityType
<1>2. ReadFrom(f).index \in [Ids -> Labels]
  BY DEF ReadFrom, GroupFiles, Labels
<1>3. ReadFrom(f).counts \in [Groups -> Nat]
  BY <1>1 DEF ReadFrom
<1> QED
  BY <1>2, <1>3 DEF MemoryTyped

\* An empty memory is typed.
LEMMA EmptyTyped == MemoryTyped(Empty)
  BY DEF Empty, MemoryTyped, Labels

\* The counts stay numbers.
LEMMA CountsTyped ==
    ASSUME NEW c \in [Groups -> Nat], NEW g
    PROVE  More(c, g) \in [Groups -> Nat] /\ Less(c, g) \in [Groups -> Nat]
<1>1. More(c, g) \in [Groups -> Nat]
  BY DEF More
<1>2. CASE g \in Groups
  <2>1. (IF c[g] > 1 THEN c[g] - 1 ELSE 0) \in Nat
    BY <1>2
  <2> QED
    BY <1>1, <1>2, <2>1 DEF Less
<1>3. CASE g \notin Groups
  BY <1>1, <1>3 DEF Less
<1> QED
  BY <1>2, <1>3

\* An entry that comes, goes or changes leaves the memory typed.
LEMMA EntriesTyped ==
    ASSUME NEW m, MemoryTyped(m), NEW i \in Ids, NEW g \in GroupsOrNone
    PROVE  MemoryTyped(Entered(m, i, g)) /\ MemoryTyped(Regrouped(m, i, g))
           /\ MemoryTyped(Forgotten(m, i))
<1>1. m.index \in [Ids -> Labels] /\ m.counts \in [Groups -> Nat]
  BY DEF MemoryTyped
<1>2. g \in Labels /\ Absent \in Labels
  BY DEF GroupsOrNone, Labels
<1>3. /\ More(m.counts, g) \in [Groups -> Nat]
      /\ Less(m.counts, m.index[i]) \in [Groups -> Nat]
      /\ More(Less(m.counts, m.index[i]), g) \in [Groups -> Nat]
  BY <1>1, CountsTyped
<1> QED
  BY <1>1, <1>2, <1>3 DEF MemoryTyped, Entered, Regrouped, Forgotten

\* So does loadList().
LEMMA LoadedTyped ==
    ASSUME NEW m, MemoryTyped(m), NEW f \in GroupFiles \cup {NoFile}, NEW r, r => f # NoFile
    PROVE  MemoryTyped(Loaded(r, f, m))
  BY ReadTyped DEF Loaded

\* What loadList() leaves behind.
LEMMA LoadedList ==
    ASSUME ListOfIds(rows), NEW d \in SUBSET Ids, NEW r, LoadList(d, r)
    PROVE  ListOfIds(rows') /\ Listed' = d /\ known' = d /\ loaded' \in BOOLEAN
  BY LoadedRows DEF LoadList, Listed

\* The memory after a step that keeps `m'.
LEMMA KeptMemory ==
    ASSUME NEW m, MemoryTyped(m), Keep(m)
    PROVE  MemoryTyped(Memory)' /\ index' = m.index /\ counts' = m.counts
  BY DEF MemoryTyped, Memory, Keep

\* A delay is a number.
LEMMA DelayTyped ==
    ASSUME NEW n \in Nat
    PROVE  Min({2 * n, MaxBackoff}) \in Nat
<1>1. 2 * n \in Nat /\ MaxBackoff \in Nat
  BY ListAssumption
<1>2. \E x \in {2 * n, MaxBackoff} : \A y \in {2 * n, MaxBackoff} : x <= y
  <2>1. 2 * n <= MaxBackoff \/ MaxBackoff <= 2 * n
    BY <1>1
  <2> QED
    BY <1>1, <2>1
<1>3. Min({2 * n, MaxBackoff}) \in {2 * n, MaxBackoff}
  BY <1>2 DEF Min
<1> QED
  BY <1>1, <1>3

\* An announcement that is lost is counted as one.
LEMMA Relocked ==
    ASSUME ListInv, Relock, UNCHANGED <<dirs, rows>>
    PROVE  told' \in BOOLEAN /\ missed' \in BOOLEAN /\ InstancesAreListed'
  BY DEF ListInv, ListTypes, Relock, InstancesAreListed, Listed

\* The state the launcher starts in has the types, and the list of what is on disk.
LEMMA InitList == Init => ListInv
<1> SUFFICES ASSUME Init
             PROVE  ListInv
  OBVIOUS
<1>1. dirs \subseteq Ids /\ file \in GroupFiles \cup {NoFile}
  BY ListAssumption DEF Init
<1>2. ListOfIds(rows) /\ Listed = dirs /\ known = Listed
  BY <1>1, StartedRows DEF Init, Listed
<1>3. MemoryTyped(StartMemory(loaded)) /\ loaded \in BOOLEAN
  <2>1. loaded \in BOOLEAN /\ (loaded => file \in GroupFiles)
    BY <1>1 DEF Init, StartReads
  <2> QED
    BY <2>1, ReadTyped, EmptyTyped DEF StartMemory
<1>4. MemoryTyped(Memory)
  BY <1>3 DEF Init, Memory, MemoryTyped
<1>5. trash \in Seq(Trashed)
  BY DEF Init
<1>6. jobs \in [Stagings -> Jobs]
  BY DEF Init, Jobs, NoJob, GroupsOrNone
<1>7. wanted \in [Ids -> GroupsOrNone]
  BY <1>1 DEF Init, InFile, GroupFiles, GroupsOrNone
<1>8. told \in BOOLEAN /\ missed \in BOOLEAN /\ loaded \in BOOLEAN
  BY <1>3 DEF Init
<1>9. InstancesAreListed
  BY <1>2 DEF InstancesAreListed, ListOfIds
<1> QED
  BY <1>1, <1>2, <1>4, <1>5, <1>6, <1>7, <1>8, <1>9 DEF ListInv, ListTypes

\* When a step loads the list, it lists what is there.
LEMMA ListIsLoaded ==
    ASSUME ListInv, NEW r, LoadList(dirs', r), dirs' \in SUBSET Ids
    PROVE  /\ InstancesAreListed' /\ ListOfIds(rows)' /\ known' = Listed' /\ Listed' = dirs'
           /\ loaded' \in BOOLEAN
<1>1. ListOfIds(rows)
  BY DEF ListInv, ListTypes
<1>2. ListOfIds(rows') /\ Listed' = dirs' /\ known' = dirs' /\ loaded' \in BOOLEAN
  BY <1>1, LoadedList
<1> QED
  BY <1>2 DEF InstancesAreListed, ListOfIds

\* An instance that appears was given no group.
LEMMA AppearsTyped ==
    ASSUME wanted \in [Ids -> GroupsOrNone], NEW i \in Ids, NEW d, Appears(i, d)
    PROVE  wanted' \in [Ids -> GroupsOrNone]
  BY DEF Appears, GroupsOrNone

\* A commit keeps the types, and the list.
LEMMA CommitList ==
    ASSUME ListInv, NEW t \in Stagings, TryCommit(t)
    PROVE  ListInv'
<1> USE DEF ListInv
<1>1. /\ jobs \in [Stagings -> Jobs] /\ jobs[t] \in Jobs /\ jobs[t].group \in GroupsOrNone
      /\ jobs[t].target \in Ids \cup {New} /\ jobs[t].sleep \in Nat
      /\ dirs \subseteq Ids /\ file \in GroupFiles \cup {NoFile} /\ MemoryTyped(Memory)
      /\ told \in BOOLEAN /\ missed \in BOOLEAN /\ loaded \in BOOLEAN
      /\ wanted \in [Ids -> GroupsOrNone] /\ trash \in Seq(Trashed)
      /\ ListOfIds(rows) /\ known = Listed /\ InstancesAreListed
  BY DEF ListTypes, Jobs
<1>2. trash' = trash
  BY DEF TryCommit
<1>3. ASSUME NEW id \in Ids, CommitNew(t, id), jobs' = [jobs EXCEPT ![t].phase = "Succeeded"]
      PROVE  ListInv'
  <2> DEFINE m == Entered(Memory, id, jobs[t].group)
  <2>1. /\ dirs' = dirs \cup {id} /\ told' \in {told, FALSE} /\ missed' = FALSE
        /\ SaveGroups(index', known', {id})
        /\ wanted' = [wanted EXCEPT ![id] = jobs[t].group]
    BY <1>3 DEF CommitNew
  <2>0. PICK r \in Reads(dirs', file) : LoadList(dirs', r) /\ Keep(Loaded(r, file, m))
    BY <1>3 DEF CommitNew
  <2>2. MemoryTyped(Memory)'
    BY <1>1, <2>0, ReadsIs, EntriesTyped, LoadedTyped, KeptMemory
  <2>3. dirs' \in SUBSET Ids /\ told' \in BOOLEAN /\ missed' \in BOOLEAN
    BY <1>1, <2>1
  <2>4. InstancesAreListed' /\ ListOfIds(rows)' /\ known' = Listed' /\ loaded' \in BOOLEAN
    BY <2>0, <2>3, ListIsLoaded
  <2>5. file' \in GroupFiles \cup {NoFile}
    BY <1>1, <2>1, SaveTyped
  <2>6. wanted' \in [Ids -> GroupsOrNone]
    BY <1>1, <2>1
  <2>7. jobs' \in [Stagings -> Jobs]
    BY <1>1, <1>3 DEF Jobs
  <2> QED
    BY <1>1, <1>2, <2>2, <2>3, <2>4, <2>5, <2>6, <2>7 DEF ListTypes
<1>4. ASSUME CommitOverride(t), jobs' = [jobs EXCEPT ![t].phase = "Succeeded"]
      PROVE  ListInv'
  <2> DEFINE id == jobs[t].target
  <2>1. /\ dirs' = dirs \cup {id} /\ told' \in {told, FALSE} /\ missed' = FALSE
        /\ SaveGroups(index', known', {})
        /\ id \in Ids
    BY <1>1, <1>4 DEF CommitOverride
  <2>0. PICK r \in Reads(dirs', file) :
            /\ LoadList(dirs', r) /\ Keep(Loaded(r, file, Memory))
            /\ UNCHANGED wanted \/ Appears(id, doubt \cup Lost(r, unsaved))
    BY <1>4 DEF CommitOverride
  <2>2. MemoryTyped(Memory)'
    BY <1>1, <2>0, ReadsIs, LoadedTyped, KeptMemory
  <2>3. dirs' \in SUBSET Ids /\ told' \in BOOLEAN /\ missed' \in BOOLEAN
    BY <1>1, <2>1
  <2>4. InstancesAreListed' /\ ListOfIds(rows)' /\ known' = Listed' /\ loaded' \in BOOLEAN
    BY <2>0, <2>3, ListIsLoaded
  <2>5. file' \in GroupFiles \cup {NoFile}
    BY <1>1, <2>1, SaveTyped
  <2>6. wanted' \in [Ids -> GroupsOrNone]
    BY <1>1, <2>1, <2>0, AppearsTyped
  <2>7. jobs' \in [Stagings -> Jobs]
    BY <1>1, <1>4 DEF Jobs
  <2> QED
    BY <1>1, <1>2, <2>2, <2>3, <2>4, <2>5, <2>6, <2>7 DEF ListTypes
<1>5. ASSUME CommitFails(t)
      PROVE  ListInv'
  <2>1. /\ UNCHANGED <<file, rows, known, index, counts, loaded, trash>>
    BY <1>2, <1>5 DEF CommitFails, groupVars
  <2>2. jobs' \in [Stagings -> Jobs]
    <3> DEFINE n == Min({2 * jobs[t].sleep, MaxBackoff})
               phase == IF Retried(t) THEN "Waiting" ELSE "Failed"
    <3>1. n \in Nat /\ phase \in {"Waiting", "Failed"}
      BY <1>1, DelayTyped
    <3>2. jobs' = [jobs EXCEPT ![t].phase = phase, ![t].sleep = n]
      BY <1>1, <1>5 DEF CommitFails, Jobs
    <3> HIDE DEF n, phase
    <3> QED
      BY <1>1, <3>1, <3>2 DEF Jobs
  <2>3. MemoryTyped(Memory)' /\ Listed' = Listed /\ ListOfIds(rows)'
    BY <1>1, <2>1 DEF MemoryTyped, Memory, Listed
  <2>4. CASE Relock /\ UNCHANGED <<dirs, wanted, doubt>>
    BY <1>1, <2>1, <2>2, <2>3, <2>4, Relocked DEF ListTypes
  <2>5. CASE \E id \in (IF jobs[t].target = New THEN Ids ELSE {jobs[t].target}) \ dirs :
                /\ dirs' = dirs \cup {id} /\ Appears(id, doubt)
                /\ told' \in {told, FALSE} /\ missed' = TRUE
    <3>1. PICK id \in Ids : dirs' = dirs \cup {id} /\ Appears(id, doubt)
                            /\ told' \in {told, FALSE} /\ missed' = TRUE
      BY <1>1, <2>5
    <3>2. dirs' \subseteq Ids /\ told' \in BOOLEAN /\ missed' \in BOOLEAN /\ InstancesAreListed'
      BY <1>1, <3>1 DEF InstancesAreListed
    <3>3. wanted' \in [Ids -> GroupsOrNone]
      BY <1>1, <3>1, AppearsTyped
    <3> QED
      BY <1>1, <2>1, <2>2, <2>3, <3>2, <3>3 DEF ListTypes
  <2> QED
    BY <1>5, <2>4, <2>5 DEF CommitFails
<1> QED
  BY <1>3, <1>4, <1>5 DEF TryCommit

\* An undone trashing keeps the types, and the list.
LEMMA UndoList ==
    ASSUME ListInv, UndoTrashInstance
    PROVE  ListInv'
<1> USE DEF ListInv
<1> DEFINE top == Last(trash)
<1>1. /\ dirs \subseteq Ids /\ file \in GroupFiles \cup {NoFile} /\ MemoryTyped(Memory)
      /\ told \in BOOLEAN /\ missed \in BOOLEAN /\ loaded \in BOOLEAN
      /\ wanted \in [Ids -> GroupsOrNone] /\ trash \in Seq(Trashed) /\ jobs \in [Stagings -> Jobs]
      /\ ListOfIds(rows) /\ known = Listed /\ InstancesAreListed
  BY DEF ListTypes
<1>2. trash # <<>> /\ trash' = Front(trash) /\ jobs' = jobs
  BY DEF UndoTrashInstance
<1>3. top \in Trashed
  <2>1. Len(trash) \in 1 .. Len(trash)
    BY <1>1, <1>2
  <2> QED
    BY <1>1, <2>1 DEF Last
<1>4. trash' \in Seq(Trashed)
  BY <1>1, <1>2 DEF Front
<1>5. top.id \in Ids /\ top.group \in GroupsOrNone
  BY <1>3 DEF Trashed
<1> HIDE DEF top
<1>6. ASSUME NEW id \in Ids, dirs' = dirs \cup {id}, told' \in BOOLEAN, missed' = FALSE,
             NEW m, m = Entered(Memory, id, top.group), SaveGroups(m.index, known, {id}),
             NEW r \in Reads(dirs', file'), LoadList(dirs', r), Keep(Loaded(r, file', m)),
             wanted' = [wanted EXCEPT ![id] = top.group]
      PROVE  ListInv'
  <2>1. file' \in GroupFiles \cup {NoFile}
    BY <1>1, <1>6, SaveTyped
  <2>2. MemoryTyped(Memory)'
    BY <1>1, <1>5, <1>6, <2>1, ReadsIs, EntriesTyped, LoadedTyped, KeptMemory
  <2>3. dirs' \in SUBSET Ids
    BY <1>1, <1>6
  <2>4. InstancesAreListed' /\ ListOfIds(rows)' /\ known' = Listed' /\ loaded' \in BOOLEAN
    BY <1>6, <2>3, ListIsLoaded
  <2>5. wanted' \in [Ids -> GroupsOrNone]
    BY <1>1, <1>5, <1>6
  <2> QED
    BY <1>1, <1>2, <1>4, <1>6, <2>1, <2>2, <2>3, <2>4, <2>5 DEF ListTypes
<1>7. ASSUME UNCHANGED <<dirs, file, told, missed, rows, known, groupVars, historyVars>>
      PROVE  ListInv'
  BY <1>1, <1>2, <1>4, <1>7
     DEF ListTypes, groupVars, historyVars, MemoryTyped, Memory, Listed, InstancesAreListed
<1>8. \/ \E id \in IF top.id \notin dirs THEN {top.id} ELSE Ids \ dirs :
            /\ dirs' = dirs \cup {id} /\ told' \in BOOLEAN /\ missed' = FALSE
            /\ SaveGroups(Entered(Memory, id, top.group).index, known, {id})
            /\ \E r \in Reads(dirs', file') :
                  LoadList(dirs', r) /\ Keep(Loaded(r, file', Entered(Memory, id, top.group)))
            /\ wanted' = [wanted EXCEPT ![id] = top.group]
      \/ UNCHANGED <<dirs, file, told, missed, rows, known, groupVars, historyVars>>
  BY DEF UndoTrashInstance, top
<1> QED
  BY <1>5, <1>6, <1>7, <1>8

\* Every step keeps the types, and the list.
LEMMA NextList == ListInv /\ [Next]_vars => ListInv'
<1> SUFFICES ASSUME ListInv, [Next]_vars
             PROVE  ListInv'
  OBVIOUS
<1>1. /\ dirs \subseteq Ids /\ file \in GroupFiles \cup {NoFile} /\ MemoryTyped(Memory)
      /\ told \in BOOLEAN /\ missed \in BOOLEAN /\ loaded \in BOOLEAN
      /\ wanted \in [Ids -> GroupsOrNone] /\ trash \in Seq(Trashed) /\ jobs \in [Stagings -> Jobs]
      /\ ListOfIds(rows) /\ known = Listed /\ InstancesAreListed
      /\ index \in [Ids -> Labels] /\ counts \in [Groups -> Nat]
  BY DEF ListInv, ListTypes, MemoryTyped, Memory
<1>2. ASSUME NEW i \in Ids, NEW g \in GroupsOrNone, SetInstanceGroup(i, g)
      PROVE  ListInv'
  <2>1. /\ Keep(Regrouped(Memory, i, g)) /\ SaveGroups(index', known, {i}) /\ Relock
        /\ wanted' = [wanted EXCEPT ![i] = g]
        /\ UNCHANGED <<dirs, rows, known, loaded, trash, jobs>>
    BY <1>2 DEF SetInstanceGroup
  <2>2. MemoryTyped(Memory)'
    BY <1>1, <2>1, EntriesTyped, KeptMemory
  <2>3. file' \in GroupFiles \cup {NoFile}
    BY <1>1, <2>1, SaveTyped
  <2>4. told' \in BOOLEAN /\ missed' \in BOOLEAN /\ InstancesAreListed'
    BY <2>1, Relocked
  <2>5. Listed' = Listed /\ ListOfIds(rows)' /\ wanted' \in [Ids -> GroupsOrNone]
    BY <1>1, <2>1 DEF Listed
  <2> QED
    BY <1>1, <2>1, <2>2, <2>3, <2>4, <2>5 DEF ListInv, ListTypes
<1>3. ASSUME NEW src \in Groups, DeleteGroup(src) \/ \E dst \in Groups : RenameGroup(src, dst)
      PROVE  ListInv'
  <2>1. /\ index' \in [Ids -> Labels] /\ counts' \in [Groups -> Nat]
        /\ wanted' \in [Ids -> GroupsOrNone]
    <3>1. CASE DeleteGroup(src)
      BY <1>1, <3>1 DEF DeleteGroup, Labels, GroupsOrNone
    <3>2. ASSUME NEW dst \in Groups, RenameGroup(src, dst)
          PROVE  /\ index' \in [Ids -> Labels] /\ counts' \in [Groups -> Nat]
                 /\ wanted' \in [Ids -> GroupsOrNone]
      <4>1. Cardinality(Members(src)) \in Nat
        <5>1. Members(src) \subseteq Ids
          BY <1>1 DEF Members, Listed, ToSet, ListOfIds
        <5> QED
          BY <5>1, ListAssumption, FS_Subset, FS_CardinalityType
      <4> HIDE DEF Members
      <4> QED
        BY <1>1, <3>2, <4>1 DEF RenameGroup, Labels, GroupsOrNone
    <3> QED
      BY <1>3, <3>1, <3>2
  <2>2. /\ \/ SaveGroups(index', known, Members(src)) /\ Relock
           \/ UNCHANGED <<file, unsaved, told, missed>>
        /\ UNCHANGED <<dirs, rows, known, loaded, trash, jobs>>
    BY <1>3 DEF DeleteGroup, RenameGroup
  <2>3. file' \in GroupFiles \cup {NoFile}
    BY <1>1, <2>2, SaveTyped
  <2>4. told' \in BOOLEAN /\ missed' \in BOOLEAN /\ InstancesAreListed'
    BY <1>1, <2>2, Relocked DEF InstancesAreListed, Listed
  <2>5. Listed' = Listed /\ ListOfIds(rows)' /\ MemoryTyped(Memory)'
    BY <1>1, <2>1, <2>2 DEF Listed, MemoryTyped, Memory
  <2> QED
    BY <1>1, <2>1, <2>2, <2>3, <2>4, <2>5 DEF ListInv, ListTypes
<1>4. ASSUME NEW i \in Ids, TrashInstance(i)
      PROVE  ListInv'
  <2>1. /\ Keep(Forgotten(Memory, i)) /\ SaveGroups(index', known, {i})
        /\ dirs' = dirs \ {i} /\ told' = TRUE
        /\ trash' = Append(trash, [id |-> i, group |-> GroupOf(i)])
        /\ wanted' = [wanted EXCEPT ![i] = NoGroup]
        /\ UNCHANGED <<rows, known, loaded, jobs, missed>>
    BY <1>4 DEF TrashInstance
  <2>2. MemoryTyped(Memory)'
    BY <1>1, <2>1, EntriesTyped, KeptMemory DEF GroupsOrNone
  <2>3. file' \in GroupFiles \cup {NoFile}
    BY <1>1, <2>1, SaveTyped
  <2>4. trash' \in Seq(Trashed)
    BY <1>1, <2>1 DEF Trashed, GroupOf, GroupsOrNone
  <2>5. Listed' = Listed /\ ListOfIds(rows)' /\ wanted' \in [Ids -> GroupsOrNone]
    BY <1>1, <2>1 DEF Listed, GroupsOrNone
  <2> QED
    BY <1>1, <2>1, <2>2, <2>3, <2>4, <2>5 DEF ListInv, ListTypes, InstancesAreListed
<1>5. ASSUME NEW i \in Ids, DeleteInstance(i)
      PROVE  ListInv'
  <2>1. /\ Keep(Forgotten(Memory, i)) /\ SaveGroups(index', known, {i})
        /\ dirs' = dirs \ {i} \/ dirs' = dirs
        /\ \/ told' = TRUE /\ UNCHANGED missed
           \/ dirs' = dirs /\ Relock
        /\ wanted' = [wanted EXCEPT ![i] = IF i \in dirs' THEN @ ELSE NoGroup]
        /\ UNCHANGED <<rows, known, loaded, trash, jobs>>
    BY <1>5 DEF DeleteInstance
  <2>2. MemoryTyped(Memory)'
    BY <1>1, <2>1, EntriesTyped, KeptMemory DEF GroupsOrNone
  <2>3. file' \in GroupFiles \cup {NoFile}
    BY <1>1, <2>1, SaveTyped
  <2>4. told' \in BOOLEAN /\ missed' \in BOOLEAN /\ InstancesAreListed'
    BY <1>1, <2>1, Relocked DEF InstancesAreListed
  <2>5. Listed' = Listed /\ ListOfIds(rows)' /\ wanted' \in [Ids -> GroupsOrNone]
    BY <1>1, <2>1 DEF Listed, GroupsOrNone
  <2> QED
    BY <1>1, <2>1, <2>2, <2>3, <2>4, <2>5 DEF ListInv, ListTypes
<1>6. ASSUME NEW i \in Ids, OthersAdd(i)
      PROVE  ListInv'
  <2>1. /\ dirs' = dirs \cup {i} /\ told' = TRUE /\ Appears(i, doubt)
        /\ UNCHANGED <<file, rows, known, index, counts, loaded, trash, jobs, missed>>
    BY <1>6 DEF OthersAdd, groupVars
  <2>2. wanted' \in [Ids -> GroupsOrNone]
    BY <1>1, <2>1, AppearsTyped
  <2> QED
    BY <1>1, <2>1, <2>2 DEF ListInv, ListTypes, InstancesAreListed, Listed, MemoryTyped, Memory
<1>7. ASSUME NEW gone \in SUBSET dirs, OthersRemove(gone)
      PROVE  ListInv'
  BY <1>1, <1>7
     DEF OthersRemove, ListInv, ListTypes, InstancesAreListed, Listed, MemoryTyped, Memory,
         groupVars, historyVars
<1>8. ASSUME NEW i \in Ids, NEW j \in Ids, RenameInstance(i, j)
      PROVE  ListInv'
  <2> DEFINE g == GroupOf(i)
  <2>1. /\ dirs' = (dirs \ {i}) \cup {j} /\ missed' = FALSE
        /\ told' \in BOOLEAN
        /\ wanted' = [wanted EXCEPT ![i] = NoGroup, ![j] = g]
        /\ UNCHANGED <<trash, jobs>>
    BY <1>8 DEF RenameInstance
  <2>2. g \in GroupsOrNone /\ NoGroup \in GroupsOrNone
    BY DEF GroupOf, GroupsOrNone
  <2>3. \E m, d : MemoryTyped(m) /\ d.file \in GroupFiles \cup {NoFile} /\ DirMoved(i, j, g, m, d)
    BY <1>1, <1>8, <2>2, EntriesTyped, SavesTyped DEF RenameInstance, Disk
  <2> HIDE DEF g
  <2>4. PICK m, d : MemoryTyped(m) /\ d.file \in GroupFiles \cup {NoFile} /\ DirMoved(i, j, g, m, d)
    BY <2>3
  <2>5. PICK r \in Reads(dirs', d.file) :
            /\ LoadList(dirs', r)
            /\ \/ /\ Keep(Regrouped(Loaded(r, d.file, m), j, g))
                  /\ \E e \in Saves(d, index', dirs', {j}) : file' = e.file
               \/ Keep(Loaded(r, d.file, m)) /\ file' = d.file
    BY <2>4 DEF DirMoved
  <2>6. dirs' \in SUBSET Ids /\ missed' \in BOOLEAN
    BY <1>1, <2>1
  <2>7. InstancesAreListed' /\ ListOfIds(rows)' /\ known' = Listed' /\ loaded' \in BOOLEAN
    BY <2>5, <2>6, ListIsLoaded
  <2>8. file' \in GroupFiles \cup {NoFile}
    BY <2>4, <2>5, SavesTyped
  <2>9. wanted' \in [Ids -> GroupsOrNone]
    BY <1>1, <2>1, <2>2
  <2>10. MemoryTyped(Memory)'
    <3>1. MemoryTyped(Loaded(r, d.file, m))
      BY <2>4, ReadsIs, LoadedTyped
    <3> QED
      BY <2>2, <2>5, <3>1, EntriesTyped, KeptMemory
  <2> QED
    BY <1>1, <2>1, <2>6, <2>7, <2>8, <2>9, <2>10 DEF ListInv, ListTypes
<1>9. ASSUME NEW t \in Stagings, NEW target \in Ids \cup {New}, NEW g \in GroupsOrNone,
             StartStaging(t, target, g)
      PROVE  ListInv'
  <2>1. UNCHANGED <<dirs, file, told, rows, known, index, counts, loaded, trash, wanted, missed>>
    BY <1>9 DEF StartStaging, groupVars, historyVars
  <2>2. jobs' \in [Stagings -> Jobs]
    <3> DEFINE job == [phase |-> "Working", target |-> target, group |-> g, sleep |-> 1]
    <3>1. job \in Jobs
      BY DEF Jobs
    <3>2. jobs' = [jobs EXCEPT ![t] = job] \/ jobs' = [jobs EXCEPT ![t].phase = "Failed"]
      BY <1>9 DEF StartStaging
    <3> HIDE DEF job
    <3>3. CASE jobs' = [jobs EXCEPT ![t] = job]
      BY <1>1, <3>1, <3>3
    <3>4. CASE jobs' = [jobs EXCEPT ![t].phase = "Failed"]
      BY <1>1, <3>4 DEF Jobs
    <3> QED
      BY <3>2, <3>3, <3>4
  <2> QED
    BY <1>1, <2>1, <2>2 DEF ListInv, ListTypes, InstancesAreListed, Listed, MemoryTyped, Memory
<1>10. ASSUME NEW t \in Stagings, NEW phase \in {"Failed", "Aborted"}, ChildEnds(t, phase)
       PROVE  ListInv'
  <2>1. UNCHANGED <<dirs, file, told, rows, known, index, counts, loaded, trash, wanted, missed>>
    BY <1>10 DEF ChildEnds, groupVars, historyVars
  <2>2. jobs' \in [Stagings -> Jobs]
    BY <1>1, <1>10, ZenonT(40) DEF ChildEnds, Jobs
  <2> QED
    BY <1>1, <2>1, <2>2 DEF ListInv, ListTypes, InstancesAreListed, Listed, MemoryTyped, Memory
<1>11. ASSUME Restart
       PROVE  ListInv'
  <2>0. PICK r \in StartReads : loaded' = r /\ Keep(StartMemory(r))
    BY <1>11 DEF Restart
  <2>1. /\ rows' = StartRows /\ known' = dirs
        /\ told' = FALSE /\ missed' = FALSE /\ trash' = <<>>
        /\ jobs' = [t \in Stagings |-> NoJob]
        /\ UNCHANGED <<dirs, file, wanted>>
    BY <1>11 DEF Restart
  <2>2. ListOfIds(rows') /\ Listed' = dirs /\ known' = Listed'
    BY <1>1, <2>1, StartedRows DEF Listed
  <2>3. MemoryTyped(StartMemory(r))
    <3>1. r => file \in GroupFiles
      BY <1>1 DEF StartReads
    <3> QED
      BY <3>1, ReadTyped, EmptyTyped DEF StartMemory
  <2>4. MemoryTyped(Memory)'
    BY <2>0, <2>3, KeptMemory
  <2>5. trash' \in Seq(Trashed) /\ jobs' \in [Stagings -> Jobs]
    BY <2>1 DEF Jobs, NoJob, GroupsOrNone
  <2>6. loaded' \in BOOLEAN
    BY <2>0 DEF StartReads
  <2>7. InstancesAreListed'
    BY <2>1, <2>2 DEF InstancesAreListed, ListOfIds
  <2> QED
    BY <1>1, <2>1, <2>2, <2>4, <2>5, <2>6, <2>7 DEF ListInv, ListTypes
<1>12. ASSUME Refresh \/ Noticed
       PROVE  ListInv'
  <2>1. /\ missed' = FALSE /\ told' \in BOOLEAN
        /\ UNCHANGED <<dirs, file, trash, jobs, wanted>>
    BY <1>1, <1>12 DEF Refresh, Noticed, Reload
  <2>0. PICK r \in Reads(dirs, file) : LoadList(dirs, r) /\ Keep(Loaded(r, file, Memory))
    BY <1>12 DEF Refresh, Noticed, Reload
  <2>2. LoadList(dirs', r) /\ dirs' \in SUBSET Ids
    BY <1>1, <2>1, <2>0
  <2>3. InstancesAreListed' /\ ListOfIds(rows)' /\ known' = Listed' /\ loaded' \in BOOLEAN
    BY <2>2, ListIsLoaded
  <2>4. MemoryTyped(Memory)'
    BY <1>1, <2>0, ReadsIs, LoadedTyped, KeptMemory
  <2> QED
    BY <1>1, <2>1, <2>3, <2>4 DEF ListInv, ListTypes
<1>13. ASSUME UNCHANGED vars
       PROVE  ListInv'
  BY <1>1, <1>13
     DEF vars, groupVars, historyVars, ListInv, ListTypes, InstancesAreListed, Listed,
         MemoryTyped, Memory
<1> QED
  BY <1>2, <1>3, <1>4, <1>5, <1>6, <1>7, <1>8, <1>9, <1>10, <1>11, <1>12, <1>13, CommitList, UndoList
     DEF Next, StagingNext, GroupsOrNone

\* THEOREM: whatever order directories are iterated in, and whatever comes, goes or is
\* renamed, the rows of the list are distinct instances, and are what is on disk whenever no
\* announcement of a change is on its way or lost (InstanceList::loadList).
THEOREM ListCorrect == Spec => []ListInv
<1> QED
  BY InitList, NextList, PTL DEF Spec

\* THEOREM: InstancesAreListed, for any number of instances, groups and staging tasks.
THEOREM InstancesAlwaysListed == Spec => []InstancesAreListed
<1>1. ListInv => InstancesAreListed
  BY DEF ListInv
<1> QED
  BY <1>1, ListCorrect, PTL

-----------------------------------------------------------------------------
(* InstanceList: the groups in memory and in the file. *)

\* An instance on disk is in the group it was given, listed or not.
ShownTrue == \A i \in dirs \ doubt : GroupOf(i) = wanted[i]

\* One that the list has yet to find was given none.
NewTrue == \A i \in (dirs \ doubt) \ Listed : wanted[i] = NoGroup

\* What the file says is what was given, except of an instance whose group was not written
\* when it was set.
FileTrue == \A i \in dirs \ doubt : i \notin unsaved => Stored(i) = wanted[i]

GroupInv == ShownTrue /\ NewTrue /\ FileTrue

\* The group that an index gives an instance.
GroupIn(idx, i) == IF idx[i] \in Groups THEN idx[i] ELSE NoGroup

\* A file with a record of what it lacks gives the instances of `ids' the groups of `w'.
DiskTrue(d, ids, w) == \A k \in ids : k \notin d.unsaved => InFile(d.file, k) = w[k]

\* It is a group or none, and the index of the memory gives what is shown.
LEMMA GroupInIs ==
    ASSUME NEW idx, NEW i
    PROVE  /\ GroupIn(idx, i) \in GroupsOrNone
           /\ GroupIn(idx, i) # NoGroup <=> idx[i] \in Groups
           /\ idx[i] \in GroupsOrNone => GroupIn(idx, i) = idx[i]
           /\ idx[i] = Absent => GroupIn(idx, i) = NoGroup
           /\ GroupOf(i) = GroupIn(index, i)
  BY NamesOfGroups DEF GroupIn, GroupOf, GroupsOrNone

\* So does the index of the next state.
LEMMA ShownNext == \A i : GroupOf(i)' = GroupIn(index', i)
  BY DEF GroupIn, GroupOf

\* A file of groups is not the absence of one, and gives a group or none.
LEMMA InFileIs ==
    ASSUME NEW f \in GroupFiles \cup {NoFile}, NEW i \in Ids
    PROVE  InFile(f, i) \in GroupsOrNone /\ (f \in GroupFiles => InFile(f, i) = f[i])
<1>1. f \in GroupFiles => f # NoFile
  <2>1. f \in GroupFiles => DOMAIN f = Ids
    BY DEF GroupFiles
  <2>2. DOMAIN NoFile = {}
    BY DEF NoFile
  <2> QED
    BY <2>1, <2>2
<1> QED
  BY <1>1 DEF InFile, GroupFiles, GroupsOrNone

\* What is read from the file is the group the file has.
LEMMA ReadShown ==
    ASSUME NEW f \in GroupFiles, NEW i \in Ids
    PROVE  f[i] \in GroupsOrNone /\ GroupIn(ReadFrom(f).index, i) = f[i]
  BY NamesOfGroups DEF ReadFrom, GroupFiles, GroupsOrNone, GroupIn

\* What a save of `ids' puts in the file.
LEMMA WrittenIs ==
    ASSUME NEW idx, NEW ids, NEW i \in Ids
    PROVE  InFile(Written(idx, ids), i) = IF i \in ids THEN GroupIn(idx, i) ELSE NoGroup
<1>1. InFile(Written(idx, ids), i) = Written(idx, ids)[i]
  BY WrittenTyped, InFileIs
<1> QED
  BY <1>1 DEF Written, GroupIn

\* What the steps do with the group of each instance `k'.
LEMMA EntriesShown ==
    ASSUME NEW m, MemoryTyped(m), NEW i \in Ids, NEW g \in GroupsOrNone, NEW k \in Ids
    PROVE  /\ GroupIn(Entered(m, i, g).index, k) = IF k = i THEN g ELSE GroupIn(m.index, k)
           /\ GroupIn(Regrouped(m, i, g).index, k) = IF k = i THEN g ELSE GroupIn(m.index, k)
           /\ GroupIn(Forgotten(m, i).index, k) = IF k = i THEN NoGroup ELSE GroupIn(m.index, k)
  BY NamesOfGroups DEF MemoryTyped, Entered, Regrouped, Forgotten, GroupIn, GroupsOrNone

\* And what loadList() does, whether it reads the file or not.
LEMMA LoadedShown ==
    ASSUME NEW m, NEW f \in GroupFiles \cup {NoFile}, NEW r \in BOOLEAN, r => f # NoFile,
           NEW k \in Ids
    PROVE  /\ r => GroupIn(Loaded(r, f, m).index, k) = InFile(f, k)
           /\ ~r => GroupIn(Loaded(r, f, m).index, k) = GroupIn(m.index, k)
<1>1. CASE r
  BY <1>1, ReadShown, InFileIs DEF Loaded
<1>2. CASE ~r
  BY <1>2 DEF Loaded
<1> QED
  BY <1>1, <1>2

\* A save, whether it writes or fails, leaves a file that is right but for what it is said to
\* lack: if memory is right of the instances that are saved, those that are not have no group
\* or are said to be lacking, and the file was right of what was not given a group now.
LEMMA SaveTrue ==
    ASSUME NEW d, NEW idx, NEW ids, NEW given, NEW e \in Saves(d, idx, ids, given),
           NEW s \in SUBSET Ids, NEW w,
           \A k \in s : k \in ids => GroupIn(idx, k) = w[k],
           \A k \in s : k \notin ids => w[k] = NoGroup \/ k \in d.unsaved \cup given,
           \A k \in s : k \notin d.unsaved \cup given => InFile(d.file, k) = w[k]
    PROVE  DiskTrue(e, s, w)
<1>1. CASE e = [file |-> Written(idx, ids), unsaved |-> (d.unsaved \cup given) \ ids]
  <2>1. SUFFICES ASSUME NEW k \in s, k \notin (d.unsaved \cup given) \ ids
                 PROVE  InFile(Written(idx, ids), k) = w[k]
    BY <1>1 DEF DiskTrue
  <2> QED
    BY <2>1, WrittenIs
<1>2. CASE e = [file |-> d.file, unsaved |-> d.unsaved \cup given]
  BY <1>2 DEF DiskTrue
<1> QED
  BY <1>1, <1>2 DEF Saves

\* So a step that saves leaves such a file.
LEMMA Saved ==
    ASSUME NEW idx, NEW ids, NEW given, SaveGroups(idx, ids, given), dirs' \subseteq Ids,
           \A k \in dirs' \ doubt' : k \in ids => GroupIn(idx, k) = wanted'[k],
           \A k \in dirs' \ doubt' :
               k \notin ids => wanted'[k] = NoGroup \/ k \in unsaved \cup given,
           \A k \in dirs' \ doubt' : k \notin unsaved \cup given => Stored(k) = wanted'[k]
    PROVE  FileTrue'
<1>1. PICK e \in Saves(Disk, idx, ids, given) : file' = e.file /\ unsaved' = e.unsaved
  BY DEF SaveGroups
<1>2. DiskTrue(e, dirs' \ doubt', wanted')
  <2>1. Disk.file = file /\ Disk.unsaved = unsaved
    BY DEF Disk
  <2>2. dirs' \ doubt' \in SUBSET Ids
    OBVIOUS
  <2> QED
    BY <2>1, <2>2, SaveTrue DEF Stored
<1> QED
  BY <1>1, <1>2 DEF DiskTrue, FileTrue, Stored

\* The memory the launcher starts with has the groups of the file, but for those of a file
\* that was not read.
LEMMA StartShown ==
    ASSUME file \in GroupFiles \cup {NoFile}, NEW r \in StartReads, NEW k \in (dirs \cap Ids) \ Unread(r)
    PROVE  GroupIn(StartMemory(r).index, k) = InFile(file, k)
<1>1. CASE r
  BY <1>1, ReadShown, InFileIs DEF StartReads, StartMemory
<1>2. CASE ~r
  <2>1. GroupIn(StartMemory(r).index, k) = NoGroup
    BY <1>2, NamesOfGroups DEF StartMemory, Empty, GroupIn
  <2>2. InFile(file, k) \notin Groups
    BY <1>2 DEF Unread
  <2> QED
    BY <2>1, <2>2, InFileIs DEF GroupsOrNone
<1> QED
  BY <1>1, <1>2

\* The state the launcher starts in: what it read, or nothing.
LEMMA InitGroups == Init => GroupInv
<1> SUFFICES ASSUME Init
             PROVE  GroupInv
  OBVIOUS
<1>1. dirs \subseteq Ids /\ file \in GroupFiles \cup {NoFile} /\ Listed = dirs
  BY InitList DEF ListInv, ListTypes, InstancesAreListed, Init
<1>2. /\ loaded \in StartReads /\ index = StartMemory(loaded).index
      /\ doubt = Unread(loaded) /\ \A i \in Ids : wanted[i] = Stored(i)
  BY DEF Init, Stored
<1>3. NewTrue /\ FileTrue
  BY <1>1, <1>2 DEF NewTrue, FileTrue
<1>4. ShownTrue
  <2>1. SUFFICES ASSUME NEW i \in dirs \ doubt
                 PROVE  GroupOf(i) = wanted[i]
    BY DEF ShownTrue
  <2>2. GroupIn(StartMemory(loaded).index, i) = Stored(i)
    BY <1>1, <1>2, <2>1, StartShown DEF Stored
  <2> QED
    BY <1>1, <1>2, <2>2, GroupInIs
<1> QED
  BY <1>3, <1>4 DEF GroupInv

\* What the steps below use of the types, before and after.
GroupFacts ==
    /\ dirs \subseteq Ids /\ file \in GroupFiles \cup {NoFile} /\ loaded \in BOOLEAN
    /\ known = Listed /\ MemoryTyped(Memory) /\ wanted \in [Ids -> GroupsOrNone]
    /\ \A i \in Ids : Stored(i) \in GroupsOrNone
    /\ \A i : GroupOf(i) = GroupIn(index, i)

\* They follow from the types.
LEMMA ListGivesFacts == ListInv => GroupFacts
<1> SUFFICES ASSUME ListInv
             PROVE  GroupFacts
  OBVIOUS
<1>1. \A i \in Ids : Stored(i) \in GroupsOrNone
  BY InFileIs DEF Stored, ListInv, ListTypes
<1> QED
  BY <1>1, GroupInIs DEF ListInv, ListTypes, GroupFacts

\* A user sets the group of an instance.
LEMMA SetGroups ==
    ASSUME GroupFacts, GroupFacts', GroupInv, NEW i \in Ids, NEW g \in GroupsOrNone,
           SetInstanceGroup(i, g)
    PROVE  GroupInv'
<1>1. /\ i \in Listed /\ SaveGroups(index', known, {i})
      /\ index' = Regrouped(Memory, i, g).index
      /\ wanted' = [wanted EXCEPT ![i] = g] /\ doubt' = doubt \ {i} /\ dirs' = dirs
      /\ Listed' = Listed
  BY DEF SetInstanceGroup, Keep, Listed
<1>2. \A k \in Ids : GroupOf(k)' = IF k = i THEN g ELSE GroupOf(k)
  BY <1>1, EntriesShown DEF GroupFacts, Memory
<1>3. ShownTrue' /\ NewTrue'
  BY <1>1, <1>2 DEF GroupInv, ShownTrue, NewTrue, GroupFacts
<1>4. \A k \in dirs' \ doubt' : k \notin unsaved \cup {i} => Stored(k) = wanted'[k]
  BY <1>1 DEF GroupInv, FileTrue, GroupFacts
<1>5. FileTrue'
  BY <1>1, <1>3, <1>4, Saved DEF GroupFacts, ShownTrue, NewTrue
<1> QED
  BY <1>3, <1>5 DEF GroupInv

\* A group is deleted or renamed.
LEMMA ChangeGroups ==
    ASSUME GroupFacts, GroupFacts', GroupInv, NEW src \in Groups, NEW dst \in GroupsOrNone,
           \/ DeleteGroup(src) /\ dst = NoGroup
           \/ dst \in Groups /\ RenameGroup(src, dst)
    PROVE  GroupInv'
<1>1. /\ \/ SaveGroups(index', known, Members(src))
         \/ Members(src) = {} /\ UNCHANGED <<file, unsaved>>
      /\ UNCHANGED <<dirs, rows, known, loaded, doubt>>
      /\ Listed' = Listed
      /\ wanted' = [k \in Ids |-> IF k \in Members(src) THEN dst ELSE wanted[k]]
      /\ \/ index' = [k \in Ids |-> IF k \in Members(src) THEN dst ELSE index[k]]
         \/ dst = NoGroup /\ index' = [k \in Ids |-> IF k \in Members(src) THEN Absent ELSE index[k]]
  BY DEF DeleteGroup, RenameGroup, Listed
<1>2. \A k \in Ids : GroupOf(k)' = IF k \in Members(src) THEN dst ELSE GroupOf(k)
  BY <1>1, NamesOfGroups DEF GroupOf, GroupsOrNone
<1>3. Members(src) \subseteq Listed
  BY DEF Members
<1>4. ShownTrue' /\ NewTrue'
  BY <1>1, <1>2, <1>3 DEF GroupInv, ShownTrue, NewTrue, GroupFacts
<1>5. \A k \in dirs' \ doubt' : k \notin unsaved \cup Members(src) => Stored(k) = wanted'[k]
  BY <1>1 DEF GroupInv, FileTrue, GroupFacts
<1>6. CASE SaveGroups(index', known, Members(src))
  <2>1. FileTrue'
    BY <1>1, <1>4, <1>5, <1>6, Saved DEF GroupFacts, ShownTrue, NewTrue
  <2> QED
    BY <1>4, <2>1 DEF GroupInv
<1>7. CASE Members(src) = {} /\ UNCHANGED <<file, unsaved>>
  <2>1. FileTrue'
    BY <1>1, <1>5, <1>7 DEF FileTrue, Stored
  <2> QED
    BY <1>4, <2>1 DEF GroupInv
<1> QED
  BY <1>1, <1>6, <1>7

\* A directory goes, or what should have deleted it fails.
LEMMA RemoveGroups ==
    ASSUME GroupFacts, GroupFacts', GroupInv, NEW i \in Ids, TrashInstance(i) \/ DeleteInstance(i)
    PROVE  GroupInv'
<1>1. /\ i \in Listed /\ SaveGroups(index', known, {i})
      /\ index' = Forgotten(Memory, i).index
      /\ dirs' \subseteq dirs /\ Listed' = Listed
      /\ i \in dirs' => i \in doubt'
      /\ doubt \subseteq doubt'
      /\ \A k \in Ids \ {i} : wanted'[k] = wanted[k]
  BY DEF TrashInstance, DeleteInstance, Keep, Listed, GroupFacts
<1>2. \A k \in Ids \ {i} : GroupOf(k)' = GroupOf(k)
  BY <1>1, EntriesShown DEF GroupFacts, Memory, GroupsOrNone
<1>3. ShownTrue' /\ NewTrue'
  BY <1>1, <1>2 DEF GroupInv, ShownTrue, NewTrue, GroupFacts
<1>4. \A k \in dirs' \ doubt' : k \notin unsaved \cup {i} => Stored(k) = wanted'[k]
  BY <1>1 DEF GroupInv, FileTrue, GroupFacts
<1>5. FileTrue'
  BY <1>1, <1>3, <1>4, Saved DEF GroupFacts, ShownTrue, NewTrue
<1> QED
  BY <1>3, <1>5 DEF GroupInv

\* A directory that appears: what may have a group of its own is in doubt.
LEMMA AppearedGroups ==
    ASSUME GroupFacts, GroupFacts', GroupInv, NEW i \in Ids, Appears(i, doubt),
           dirs' = dirs \cup {i}, UNCHANGED <<file, rows, index, loaded, unsaved>>
    PROVE  GroupInv'
<1>1. /\ \A k \in Ids \ {i} : wanted'[k] = wanted[k]
      /\ wanted'[i] = NoGroup
      /\ doubt \ {i} \subseteq doubt'
      /\ i \notin doubt' => index[i] \notin Groups /\ Stored(i) \notin Groups
  BY DEF Appears, Stale, Memory, Stored, GroupFacts
<1>2. /\ \A k \in Ids : GroupOf(k)' = GroupOf(k) /\ Stored(k)' = Stored(k)
      /\ Listed' = Listed
  BY DEF GroupOf, Stored, Listed
<1>3. i \notin doubt' => GroupOf(i) = NoGroup /\ Stored(i) = NoGroup
  BY <1>1 DEF GroupOf, GroupFacts, GroupsOrNone
<1>4. ShownTrue' /\ NewTrue' /\ FileTrue'
  BY <1>1, <1>2, <1>3 DEF GroupInv, ShownTrue, NewTrue, FileTrue, GroupFacts
<1> QED
  BY <1>4 DEF GroupInv

\* The launcher starts again: what memory alone knew is in doubt, and so is what a file says
\* that could not be read.
LEMMA RestartGroups ==
    ASSUME GroupFacts, GroupFacts', ListInv', GroupInv, Restart
    PROVE  GroupInv'
<1>1. PICK r \in StartReads :
          index' = StartMemory(r).index /\ doubt' = doubt \cup unsaved \cup Unread(r)
  BY DEF Restart, Keep
<1>2. /\ UNCHANGED <<dirs, file, wanted>>
      /\ Listed' = dirs
  <2>1. told' = FALSE /\ missed' = FALSE /\ UNCHANGED <<dirs, file, wanted>>
    BY DEF Restart
  <2> QED
    BY <2>1 DEF ListInv, InstancesAreListed
<1>3. \A k \in dirs \ doubt' : k \in Ids /\ Stored(k) = wanted[k]
  BY <1>1 DEF GroupInv, FileTrue, GroupFacts
<1>4. NewTrue' /\ FileTrue'
  BY <1>2, <1>3 DEF NewTrue, FileTrue, Stored
<1>5. ShownTrue'
  <2>1. SUFFICES ASSUME NEW k \in dirs \ doubt'
                 PROVE  GroupOf(k)' = wanted[k]
    BY <1>2 DEF ShownTrue
  <2>2. GroupIn(StartMemory(r).index, k) = Stored(k)
    BY <1>1, StartShown DEF GroupFacts, Stored
  <2> QED
    BY <1>1, <1>3, <2>2, ShownNext
<1> QED
  BY <1>4, <1>5 DEF GroupInv

\* What the list is after loadList(), and what reads the file.
LEMMA AfterLoad ==
    ASSUME ListInv, GroupFacts', NEW f, NEW r \in Reads(dirs', f), LoadList(dirs', r)
    PROVE  Listed' = dirs' /\ known' = dirs' /\ r \in BOOLEAN /\ (r => ~loaded /\ f # NoFile)
<1>1. dirs' \in SUBSET Ids
  BY DEF GroupFacts
<1>2. Listed' = dirs' /\ known' = dirs'
  BY <1>1, LoadedList DEF ListInv, ListTypes
<1> QED
  BY <1>2, ReadsIs

\* The list is loaded and nothing else: what the first read replaces is in doubt, and the
\* file is right of the rest.
LEMMA ReloadGroups ==
    ASSUME ListInv, GroupFacts, GroupFacts', GroupInv, Reload
    PROVE  GroupInv'
<1>1. PICK r \in Reads(dirs, file) :
          /\ LoadList(dirs, r) /\ index' = Loaded(r, file, Memory).index
          /\ doubt' = doubt \cup Lost(r, unsaved)
  BY DEF Reload, Keep
<1>2. UNCHANGED <<dirs, file, wanted, unsaved>> /\ file \in GroupFiles \cup {NoFile}
  BY DEF Reload, GroupFacts
<1>3. Listed' = dirs' /\ r \in BOOLEAN /\ (r => ~loaded /\ file # NoFile)
  BY <1>1, <1>2, AfterLoad
<1>4. ShownTrue'
  <2>1. SUFFICES ASSUME NEW k \in dirs \ doubt'
                 PROVE  GroupOf(k)' = wanted[k]
    BY <1>2 DEF ShownTrue
  <2>2. k \in Ids /\ k \in dirs \ doubt /\ (r => k \notin unsaved)
    BY <1>1, <1>3, <2>1 DEF Lost, GroupFacts
  <2>3. /\ r => GroupIn(Loaded(r, file, Memory).index, k) = InFile(file, k)
        /\ ~r => GroupIn(Loaded(r, file, Memory).index, k) = GroupIn(Memory.index, k)
    BY <1>2, <1>3, <2>2, LoadedShown
  <2>4. GroupOf(k)' = GroupIn(Loaded(r, file, Memory).index, k)
        /\ GroupOf(k) = GroupIn(Memory.index, k)
    BY <1>1, ShownNext DEF GroupFacts, Memory
  <2> QED
    BY <2>2, <2>3, <2>4 DEF GroupInv, ShownTrue, FileTrue, Stored
<1>5. NewTrue' /\ FileTrue'
  BY <1>1, <1>2, <1>3 DEF GroupInv, NewTrue, FileTrue, Stored
<1> QED
  BY <1>4, <1>5 DEF GroupInv

\* A trashed instance comes back: what was saved before the list was loaded lacks it, unless
\* the list still had it, or the save failed.
LEMMA UndoGroups ==
    ASSUME ListInv, GroupFacts, GroupFacts', GroupInv, NEW id \in Ids, NEW g \in GroupsOrNone,
           NEW m, m = Entered(Memory, id, g), SaveGroups(m.index, known, {id}),
           dirs' = dirs \cup {id}, wanted' = [wanted EXCEPT ![id] = g],
           NEW r \in Reads(dirs', file'), LoadList(dirs', r), index' = Loaded(r, file', m).index,
           doubt' = (doubt \ {id}) \cup Lost(r, unsaved')
    PROVE  GroupInv'
<1>1. Listed' = dirs' /\ r \in BOOLEAN /\ (r => ~loaded /\ file' # NoFile)
  BY AfterLoad
<1>2. \A k \in Ids : GroupIn(m.index, k) = IF k = id THEN g ELSE GroupOf(k)
  BY EntriesShown DEF GroupFacts, Memory
<1>3. \A k \in dirs' \ doubt' :
         k \in Ids /\ (k # id => k \in dirs \ doubt /\ wanted'[k] = wanted[k])
         /\ (r => k \notin unsaved')
  BY <1>1 DEF Lost, GroupFacts
<1>4. wanted'[id] = g
  BY DEF GroupFacts
<1>5. \A k \in dirs' \ doubt' : GroupIn(m.index, k) = wanted'[k]
  BY <1>2, <1>3, <1>4 DEF GroupInv, ShownTrue
<1>6. FileTrue'
  <2>1. \A k \in dirs' \ doubt' :
           k \notin known => wanted'[k] = NoGroup \/ k \in unsaved \cup {id}
    BY <1>3 DEF GroupInv, NewTrue, GroupFacts
  <2>2. \A k \in dirs' \ doubt' : k \notin unsaved \cup {id} => Stored(k) = wanted'[k]
    BY <1>3 DEF GroupInv, FileTrue
  <2> QED
    BY <1>5, <2>1, <2>2, Saved DEF GroupFacts
<1>7. ShownTrue'
  <2>1. SUFFICES ASSUME NEW k \in dirs' \ doubt'
                 PROVE  GroupOf(k)' = wanted'[k]
    BY DEF ShownTrue
  <2>2. k \in Ids /\ (r => Stored(k)' = wanted'[k])
    BY <1>3, <1>6 DEF FileTrue
  <2>3. /\ r => GroupIn(Loaded(r, file', m).index, k) = InFile(file', k)
        /\ ~r => GroupIn(Loaded(r, file', m).index, k) = GroupIn(m.index, k)
    BY <1>1, <2>2, LoadedShown DEF GroupFacts
  <2>4. GroupOf(k)' = GroupIn(Loaded(r, file', m).index, k)
    BY ShownNext
  <2> QED
    BY <1>5, <2>2, <2>3, <2>4 DEF Stored
<1>8. NewTrue'
  BY <1>1 DEF NewTrue
<1> QED
  BY <1>6, <1>7, <1>8 DEF GroupInv

\* A commit of a new instance, or of an override: what a read replaces is in doubt, and all
\* groups are written again, if the save does not fail.
LEMMA CommitGroups ==
    ASSUME ListInv, GroupFacts, GroupFacts', GroupInv, NEW id \in Ids, NEW m, NEW given,
           dirs' = dirs \cup {id},
           NEW r \in Reads(dirs', file), LoadList(dirs', r), index' = Loaded(r, file, m).index,
           SaveGroups(index', known', given),
           (doubt \cup Lost(r, unsaved)) \ {id} \subseteq doubt',
           \A k \in Ids \ {id} : GroupIn(m.index, k) = GroupOf(k) /\ wanted'[k] = wanted[k],
           id \notin doubt' =>
               /\ wanted'[id] = IF r THEN Stored(id) ELSE GroupIn(m.index, id)
               /\ id \in unsaved \cup given \/ Stored(id) = wanted'[id]
    PROVE  GroupInv'
<1>1. Listed' = dirs' /\ known' = dirs' /\ r \in BOOLEAN /\ (r => ~loaded /\ file # NoFile)
      /\ file \in GroupFiles \cup {NoFile}
  BY AfterLoad DEF GroupFacts
<1>2. \A k \in dirs' \ doubt' :
         k \in Ids /\ (k # id => /\ k \in dirs \ doubt /\ (r => k \notin unsaved)
                                 /\ wanted'[k] = wanted[k] /\ GroupIn(m.index, k) = GroupOf(k))
  BY <1>1 DEF Lost, GroupFacts
<1>3. ShownTrue'
  <2>1. SUFFICES ASSUME NEW k \in dirs' \ doubt'
                 PROVE  GroupOf(k)' = wanted'[k]
    BY DEF ShownTrue
  <2>2. k \in Ids
    BY <1>2
  <2>3. /\ r => GroupIn(Loaded(r, file, m).index, k) = InFile(file, k)
        /\ ~r => GroupIn(Loaded(r, file, m).index, k) = GroupIn(m.index, k)
    BY <1>1, <2>2, LoadedShown
  <2>4. GroupOf(k)' = GroupIn(Loaded(r, file, m).index, k)
    BY ShownNext
  <2>5. CASE k = id
    BY <1>1, <2>1, <2>3, <2>4, <2>5 DEF Stored
  <2>6. CASE k # id
    BY <1>1, <1>2, <2>1, <2>3, <2>4, <2>6 DEF GroupInv, ShownTrue, FileTrue, Stored
  <2> QED
    BY <2>5, <2>6
<1>4. NewTrue'
  BY <1>1 DEF NewTrue
<1>5. FileTrue'
  <2>1. \A k \in dirs' \ doubt' : k \notin unsaved \cup given => Stored(k) = wanted'[k]
    BY <1>2 DEF GroupInv, FileTrue
  <2>2. \A k \in dirs' \ doubt' : GroupIn(index', k) = wanted'[k]
    BY <1>3, ShownNext DEF ShownTrue
  <2> QED
    BY <1>1, <2>1, <2>2, Saved DEF GroupFacts
<1> QED
  BY <1>3, <1>4, <1>5 DEF GroupInv

\* The directory of an instance has a new name, and the list is loaded: the group goes on to
\* the new id, and an id that has no group is in doubt if one that had the name left it one.
LEMMA MovedGroups ==
    ASSUME ListInv, GroupFacts, GroupFacts', NEW i \in Ids, NEW j \in Ids \ dirs,
           NEW g \in GroupsOrNone, NEW m, MemoryTyped(m), NEW d, d.file \in GroupFiles \cup {NoFile},
           g = NoGroup => d.file = file,
           \A k \in (dirs \ doubt) \ {i} : GroupIn(m.index, k) = wanted[k],
           DiskTrue(d, (dirs \ doubt) \ {i}, wanted),
           dirs' = (dirs \ {i}) \cup {j}, wanted' = [wanted EXCEPT ![i] = NoGroup, ![j] = g],
           DirMoved(i, j, g, m, d)
    PROVE  GroupInv'
<1>1. PICK r \in Reads(dirs', d.file) :
         LET n == Loaded(r, d.file, m)
         IN  /\ LoadList(dirs', r)
             /\ \/ /\ g \in Groups /\ n.index[j] # g
                   /\ Keep(Regrouped(n, j, g))
                   /\ \E e \in Saves(d, index', dirs', {j}) :
                         file' = e.file /\ unsaved' = e.unsaved
                \/ /\ g \in Groups => n.index[j] = g
                   /\ Keep(n)
                   /\ file' = d.file
                   /\ unsaved' = IF g \in Groups THEN d.unsaved \cup {j} ELSE d.unsaved
             /\ doubt' = IF g = NoGroup /\ Stale(j, n, file)
                         THEN doubt \cup Lost(r, d.unsaved) \cup {j}
                         ELSE (doubt \cup Lost(r, d.unsaved)) \ {j}
  BY DEF DirMoved
<1> DEFINE n == Loaded(r, d.file, m)
<1>2. Listed' = dirs' /\ r \in BOOLEAN /\ (r => ~loaded /\ d.file # NoFile)
  BY <1>1, AfterLoad
<1>3. MemoryTyped(n)
  BY <1>2, LoadedTyped
<1>4. /\ r => \A k \in Ids : GroupIn(n.index, k) = InFile(d.file, k)
      /\ ~r => \A k \in Ids : GroupIn(n.index, k) = GroupIn(m.index, k)
  <2>1. ASSUME NEW k \in Ids
        PROVE  /\ r => GroupIn(n.index, k) = InFile(d.file, k)
               /\ ~r => GroupIn(n.index, k) = GroupIn(m.index, k)
    BY <1>2, LoadedShown
  <2> HIDE DEF n
  <2> QED
    BY <2>1
<1> HIDE DEF n
<1>5. \A k \in dirs' \ doubt' :
         k \in Ids /\ (k # j => /\ k \in (dirs \ doubt) \ {i} /\ (r => k \notin d.unsaved)
                                /\ wanted'[k] = wanted[k])
  BY <1>1, <1>2 DEF Lost, GroupFacts
<1>6. wanted'[j] = g
  BY DEF GroupFacts
<1>7. j \notin doubt' /\ g = NoGroup => n.index[j] \notin Groups /\ InFile(d.file, j) = NoGroup
  <2>1. j \notin doubt' /\ g = NoGroup => ~Stale(j, n, file)
    BY <1>1 DEF n
  <2> QED
    BY <2>1, InFileIs DEF Stale, GroupsOrNone
<1>8. \A k \in (dirs' \ doubt') \ {j} :
         GroupIn(n.index, k) = wanted'[k] /\ (k \notin d.unsaved => InFile(d.file, k) = wanted'[k])
  <2>1. SUFFICES ASSUME NEW k \in (dirs' \ doubt') \ {j}
                 PROVE  /\ GroupIn(n.index, k) = wanted'[k]
                        /\ k \notin d.unsaved => InFile(d.file, k) = wanted'[k]
    OBVIOUS
  <2>2. k \in Ids /\ k \in (dirs \ doubt) \ {i} /\ (r => k \notin d.unsaved) /\ wanted'[k] = wanted[k]
    BY <1>5, <2>1
  <2>3. GroupIn(m.index, k) = wanted[k] /\ (k \notin d.unsaved => InFile(d.file, k) = wanted[k])
    BY <2>2 DEF DiskTrue
  <2> QED
    BY <1>2, <1>4, <2>2, <2>3
<1>9. CASE /\ g \in Groups /\ index' = Regrouped(n, j, g).index
           /\ \E e \in Saves(d, index', dirs', {j}) : file' = e.file /\ unsaved' = e.unsaved
  <2>1. \A k \in dirs' \ doubt' : GroupIn(index', k) = wanted'[k]
    <3>1. SUFFICES ASSUME NEW k \in dirs' \ doubt'
                   PROVE  GroupIn(index', k) = wanted'[k]
      OBVIOUS
    <3>2. GroupIn(Regrouped(n, j, g).index, k) = IF k = j THEN g ELSE GroupIn(n.index, k)
      BY <1>3, <1>5, EntriesShown
    <3> QED
      BY <1>6, <1>8, <1>9, <3>2
  <2>2. PICK e \in Saves(d, index', dirs', {j}) : file' = e.file /\ unsaved' = e.unsaved
    BY <1>9
  <2>3. \A k \in dirs' \ doubt' : k \notin d.unsaved \cup {j} => InFile(d.file, k) = wanted'[k]
    BY <1>8
  <2>4. DiskTrue(e, dirs' \ doubt', wanted')
    <3> DEFINE s == dirs' \ doubt'
               ids == dirs'
               w == wanted'
    <3>1. s \in SUBSET Ids /\ e \in Saves(d, index', ids, {j}) /\ \A k \in s : k \in ids
      BY <1>5, <2>2
    <3>2. \A k \in s : GroupIn(index', k) = w[k]
      BY <2>1
    <3>3. \A k \in s : k \notin d.unsaved \cup {j} => InFile(d.file, k) = w[k]
      BY <2>3
    <3> HIDE DEF s, ids, w
    <3>4. DiskTrue(e, s, w)
      BY <3>1, <3>2, <3>3, SaveTrue
    <3> QED
      BY <3>4 DEF s, w
  <2>5. ShownTrue' /\ FileTrue'
    BY <2>1, <2>2, <2>4, ShownNext DEF ShownTrue, FileTrue, DiskTrue, Stored
  <2> QED
    BY <1>2, <2>5 DEF GroupInv, NewTrue
<1>10. CASE /\ g \in Groups => n.index[j] = g
            /\ index' = n.index /\ file' = d.file
            /\ unsaved' = IF g \in Groups THEN d.unsaved \cup {j} ELSE d.unsaved
  <2>1. j \notin doubt' => GroupIn(n.index, j) = g
    BY <1>7, <1>10 DEF GroupIn, GroupsOrNone
  <2>2. ShownTrue'
    BY <1>6, <1>8, <1>10, <2>1, ShownNext DEF ShownTrue
  <2>3. FileTrue'
    BY <1>6, <1>7, <1>8, <1>10 DEF FileTrue, Stored, GroupsOrNone
  <2> QED
    BY <1>2, <2>2, <2>3 DEF GroupInv, NewTrue
<1> QED
  BY <1>1, <1>9, <1>10 DEF Keep, n

\* An instance is renamed: one that has a group loses it first, which is saved.
LEMMA RenameGroups ==
    ASSUME ListInv, GroupFacts, GroupFacts', GroupInv, NEW i \in Ids, NEW j \in Ids, RenameInstance(i, j)
    PROVE  GroupInv'
<1> DEFINE g == GroupOf(i)
           s == (dirs \ doubt) \ {i}
<1>1. /\ j \in Ids \ dirs /\ dirs' = (dirs \ {i}) \cup {j}
      /\ wanted' = [wanted EXCEPT ![i] = NoGroup, ![j] = g]
      /\ g \in GroupsOrNone /\ NoGroup \in GroupsOrNone
  BY DEF RenameInstance, GroupOf, GroupsOrNone
<1>2. s \in SUBSET Ids /\ (\A k \in s : GroupOf(k) = wanted[k])
      /\ (\A k \in s : k \notin known => wanted[k] = NoGroup)
      /\ (\A k \in s : k \notin unsaved => InFile(file, k) = wanted[k])
  BY DEF GroupInv, ShownTrue, NewTrue, FileTrue, Stored, GroupFacts
<1>3. MemoryTyped(Memory) /\ (\A k \in s : GroupIn(Memory.index, k) = wanted[k])
  BY <1>2 DEF GroupFacts, Memory
<1>4. Disk.file = file /\ Disk.unsaved = unsaved /\ file \in GroupFiles \cup {NoFile}
  BY DEF Disk, GroupFacts
<1>5. ASSUME g = NoGroup, DirMoved(i, j, g, Memory, Disk)
      PROVE  GroupInv'
  <2>1. DiskTrue(Disk, s, wanted)
    BY <1>2, <1>4 DEF DiskTrue
  <2> HIDE DEF g
  <2> QED
    BY <1>1, <1>3, <1>4, <1>5, <2>1, MovedGroups
<1>6. ASSUME g \in Groups, NEW m, m = Regrouped(Memory, i, NoGroup),
             NEW d \in Saves(Disk, m.index, known, {i}), DirMoved(i, j, g, m, d)
      PROVE  GroupInv'
  <2>1. MemoryTyped(m)
    BY <1>1, <1>3, <1>6, EntriesTyped
  <2>2. \A k \in s : GroupIn(m.index, k) = wanted[k]
    BY <1>1, <1>2, <1>3, <1>6, EntriesShown
  <2>3. DiskTrue(d, s, wanted)
    BY <1>2, <1>4, <1>6, <2>2, SaveTrue
  <2>4. d.file \in GroupFiles \cup {NoFile}
    BY <1>4, <1>6, SavesTyped
  <2>5. g # NoGroup
    BY <1>6, NamesOfGroups
  <2> HIDE DEF g
  <2> QED
    BY <1>1, <1>6, <2>1, <2>2, <2>3, <2>4, <2>5, MovedGroups
<1> QED
  BY <1>5, <1>6 DEF RenameInstance

\* A commit, that succeeds or fails.
LEMMA TryCommitGroups ==
    ASSUME ListInv, GroupFacts, GroupFacts', GroupInv, NEW t \in Stagings, TryCommit(t)
    PROVE  GroupInv'
<1>1. jobs[t].group \in GroupsOrNone /\ jobs[t].target \in Ids \cup {New}
  BY DEF ListInv, ListTypes, Jobs
<1>2. ASSUME NEW id \in Ids, CommitNew(t, id)
      PROVE  GroupInv'
  <2> DEFINE g == jobs[t].group
             m == Entered(Memory, id, g)
  <2>1. PICK r \in Reads(dirs', file) :
            /\ LoadList(dirs', r) /\ index' = Loaded(r, file, m).index
            /\ doubt' = (doubt \ {id}) \cup Lost(r, unsaved \cup {id})
    BY <1>2 DEF CommitNew, Keep
  <2>2. /\ dirs' = dirs \cup {id} /\ SaveGroups(index', known', {id})
        /\ wanted' = [wanted EXCEPT ![id] = g]
    BY <1>2 DEF CommitNew
  <2>3. \A k \in Ids : GroupIn(m.index, k) = IF k = id THEN g ELSE GroupOf(k)
    <3>1. \A k \in Ids : GroupIn(Memory.index, k) = GroupOf(k)
      BY DEF GroupFacts, Memory
    <3>2. MemoryTyped(Memory) /\ g \in GroupsOrNone
      BY <1>1 DEF GroupFacts
    <3> HIDE DEF g
    <3> QED
      BY <3>1, <3>2, EntriesShown
  <2> HIDE DEF m, g
  <2>4. r => ~loaded
    BY ReadsIs
  <2>5. wanted'[id] = g /\ \A k \in Ids \ {id} : wanted'[k] = wanted[k]
    BY <2>2 DEF GroupFacts
  <2>6. (doubt \cup Lost(r, unsaved)) \ {id} \subseteq doubt' /\ (id \notin doubt' => ~r)
    BY <2>1, <2>4 DEF Lost
  <2> QED
    BY <2>1, <2>2, <2>3, <2>5, <2>6, CommitGroups
<1>3. ASSUME CommitOverride(t)
      PROVE  GroupInv'
  <2> DEFINE id == jobs[t].target
  <2>1. PICK r \in Reads(dirs', file) :
            /\ LoadList(dirs', r) /\ index' = Loaded(r, file, Memory).index
            /\ \/ id \in dirs /\ doubt' = doubt \cup Lost(r, unsaved) /\ UNCHANGED wanted
               \/ id \notin dirs /\ Appears(id, doubt \cup Lost(r, unsaved))
    BY <1>3 DEF CommitOverride, Keep
  <2>2. id \in Ids /\ dirs' = dirs \cup {id} /\ SaveGroups(index', known', {})
    BY <1>1, <1>3 DEF CommitOverride
  <2> HIDE DEF id
  <2>3. \A k \in Ids : GroupIn(Memory.index, k) = GroupOf(k)
    BY DEF GroupFacts, Memory
  <2>4. r => ~loaded
    BY ReadsIs
  <2>5. CASE id \in dirs /\ doubt' = doubt \cup Lost(r, unsaved) /\ UNCHANGED wanted
    <3>1. id \notin doubt' => id \in dirs \ doubt /\ (r => id \notin unsaved)
      BY <2>4, <2>5 DEF Lost
    <3>2. id \notin doubt' =>
              /\ wanted'[id] = IF r THEN Stored(id) ELSE GroupIn(Memory.index, id)
              /\ id \in unsaved \cup {} \/ Stored(id) = wanted'[id]
      BY <2>2, <2>3, <2>5, <3>1 DEF GroupInv, ShownTrue, FileTrue
    <3>3. /\ (doubt \cup Lost(r, unsaved)) \ {id} \subseteq doubt'
          /\ \A k \in Ids \ {id} : GroupIn(Memory.index, k) = GroupOf(k) /\ wanted'[k] = wanted[k]
      BY <2>3, <2>5
    <3> QED
      BY <2>1, <2>2, <3>2, <3>3, CommitGroups
  <2>6. CASE Appears(id, doubt \cup Lost(r, unsaved))
    <3>1. /\ (doubt \cup Lost(r, unsaved)) \ {id} \subseteq doubt'
          /\ wanted'[id] = NoGroup /\ \A k \in Ids \ {id} : wanted'[k] = wanted[k]
      BY <2>2, <2>6 DEF Appears, GroupFacts
    <3>2. id \notin doubt' => GroupOf(id) = NoGroup /\ Stored(id) = NoGroup
      BY <2>2, <2>6 DEF Appears, Stale, Memory, Stored, GroupOf, GroupFacts, GroupsOrNone
    <3>3. id \notin doubt' =>
              /\ wanted'[id] = IF r THEN Stored(id) ELSE GroupIn(Memory.index, id)
              /\ id \in unsaved \cup {} \/ Stored(id) = wanted'[id]
      BY <2>2, <2>3, <3>1, <3>2
    <3>4. \A k \in Ids \ {id} : GroupIn(Memory.index, k) = GroupOf(k) /\ wanted'[k] = wanted[k]
      BY <2>3, <3>1
    <3> QED
      BY <2>1, <2>2, <3>1, <3>3, <3>4, CommitGroups
  <2> QED
    BY <2>1, <2>5, <2>6
<1>4. ASSUME CommitFails(t)
      PROVE  GroupInv'
  <2>1. UNCHANGED <<file, rows, index, loaded, unsaved>>
    BY <1>4 DEF CommitFails, groupVars
  <2>2. CASE UNCHANGED <<dirs, wanted, doubt>>
    BY <2>1, <2>2 DEF GroupInv, ShownTrue, NewTrue, FileTrue, GroupOf, Stored, Listed
  <2>3. CASE \E id \in Ids : dirs' = dirs \cup {id} /\ Appears(id, doubt)
    BY <2>1, <2>3, AppearedGroups
  <2> QED
    BY <1>1, <1>4, <2>2, <2>3 DEF CommitFails
<1> QED
  BY <1>2, <1>3, <1>4 DEF TryCommit

\* The trash gives an instance back, or fails to.
LEMMA UndoTrashGroups ==
    ASSUME ListInv, GroupFacts, GroupFacts', GroupInv, UndoTrashInstance
    PROVE  GroupInv'
<1> DEFINE top == Last(trash)
<1>1. top.id \in Ids /\ top.group \in GroupsOrNone
  <2>1. trash \in Seq(Trashed) /\ trash # <<>>
    BY DEF UndoTrashInstance, ListInv, ListTypes
  <2>2. Len(trash) \in 1 .. Len(trash)
    BY <2>1
  <2>3. top \in Trashed
    BY <2>1, <2>2 DEF Last
  <2> QED
    BY <2>3 DEF Trashed
<1> HIDE DEF top
<1>2. \/ \E id \in IF top.id \notin dirs THEN {top.id} ELSE Ids \ dirs :
            LET m == Entered(Memory, id, top.group)
            IN  /\ dirs' = dirs \cup {id} /\ SaveGroups(m.index, known, {id})
                /\ \E r \in Reads(dirs', file') :
                      /\ LoadList(dirs', r) /\ index' = Loaded(r, file', m).index
                      /\ doubt' = (doubt \ {id}) \cup Lost(r, unsaved')
                /\ wanted' = [wanted EXCEPT ![id] = top.group]
      \/ UNCHANGED <<dirs, file, rows, index, loaded, wanted, doubt, unsaved>>
  BY DEF UndoTrashInstance, top, Keep, groupVars, historyVars
<1>3. CASE UNCHANGED <<dirs, file, rows, index, loaded, wanted, doubt, unsaved>>
  BY <1>3 DEF GroupInv, ShownTrue, NewTrue, FileTrue, GroupOf, Stored, Listed
<1>4. ASSUME NEW id \in Ids, NEW m, m = Entered(Memory, id, top.group),
             dirs' = dirs \cup {id}, SaveGroups(m.index, known, {id}),
             NEW r \in Reads(dirs', file'), LoadList(dirs', r), index' = Loaded(r, file', m).index,
             doubt' = (doubt \ {id}) \cup Lost(r, unsaved'),
             wanted' = [wanted EXCEPT ![id] = top.group]
      PROVE  GroupInv'
  BY <1>1, <1>4, UndoGroups
<1> QED
  BY <1>1, <1>2, <1>3, <1>4

\* Every step keeps the groups.
LEMMA NextGroups == ListInv /\ ListInv' /\ GroupInv /\ [Next]_vars => GroupInv'
<1> SUFFICES ASSUME ListInv, ListInv', GroupInv, [Next]_vars
             PROVE  GroupInv'
  OBVIOUS
<1>1. GroupFacts
  BY ListGivesFacts
<1>2. GroupFacts'
  BY ListGivesFacts, PTL
<1>3. ASSUME UNCHANGED <<dirs, file, rows, index, loaded, wanted, doubt, unsaved>>
      PROVE  GroupInv'
  BY <1>3 DEF GroupInv, ShownTrue, NewTrue, FileTrue, GroupOf, Stored, Listed
<1>4. CASE \E i \in Ids, g \in Groups \cup {NoGroup} : SetInstanceGroup(i, g)
  BY <1>1, <1>2, <1>4, SetGroups DEF GroupsOrNone
<1>5. CASE \E g \in Groups : DeleteGroup(g) \/ \E h \in Groups : RenameGroup(g, h)
  <2>1. NoGroup \in GroupsOrNone /\ Groups \subseteq GroupsOrNone
    BY DEF GroupsOrNone
  <2>2. PICK g \in Groups : DeleteGroup(g) \/ \E h \in Groups : RenameGroup(g, h)
    BY <1>5
  <2>3. CASE DeleteGroup(g)
    BY <1>1, <1>2, <2>1, <2>3, ChangeGroups
  <2>4. ASSUME NEW h \in Groups, RenameGroup(g, h)
        PROVE  GroupInv'
    BY <1>1, <1>2, <2>1, <2>4, ChangeGroups
  <2> QED
    BY <2>2, <2>3, <2>4
<1>6. CASE \E i \in Ids : TrashInstance(i) \/ DeleteInstance(i) \/ OthersAdd(i)
  <2>1. ASSUME NEW i \in Ids, OthersAdd(i)
        PROVE  GroupInv'
    <3>1. UNCHANGED <<file, rows, index, loaded, unsaved>> /\ dirs' = dirs \cup {i}
         /\ Appears(i, doubt)
      BY <2>1 DEF OthersAdd, groupVars
    <3> QED
      BY <1>1, <1>2, <3>1, AppearedGroups
  <2> QED
    BY <1>1, <1>2, <1>6, <2>1, RemoveGroups
<1>7. CASE \E i, j \in Ids : RenameInstance(i, j)
  BY <1>1, <1>2, <1>7, RenameGroups
<1>8. ASSUME NEW t \in Stagings,
             \/ StagingNext(t)
             \/ \E target \in Ids \cup {New}, g \in Groups \cup {NoGroup} : StartStaging(t, target, g)
      PROVE  GroupInv'
  <2>1. CASE TryCommit(t)
    BY <1>1, <1>2, <2>1, TryCommitGroups
  <2>2. CASE ~TryCommit(t)
    BY <1>3, <1>8, <2>2 DEF StagingNext, ChildEnds, StartStaging, groupVars, historyVars
  <2> QED
    BY <2>1, <2>2
<1>9. CASE \E gone \in SUBSET dirs : OthersRemove(gone)
  <2>1. UNCHANGED <<file, rows, index, loaded, wanted, doubt, unsaved>> /\ dirs' \subseteq dirs
    BY <1>9 DEF OthersRemove, groupVars, historyVars
  <2> QED
    BY <2>1 DEF GroupInv, ShownTrue, NewTrue, FileTrue, GroupOf, Stored, Listed
<1>10. CASE Restart
  BY <1>1, <1>2, <1>10, RestartGroups
<1>11. CASE Refresh \/ Noticed
  BY <1>1, <1>2, <1>11, ReloadGroups DEF Refresh, Noticed
<1>12. CASE UNCHANGED vars
  BY <1>3, <1>12 DEF vars, groupVars, historyVars
<1> QED
  BY <1>1, <1>2, <1>4, <1>5, <1>6, <1>7, <1>8, <1>9, <1>10, <1>11, <1>12, UndoTrashGroups DEF Next

-----------------------------------------------------------------------------
(* InstanceList: the counts of the groups. *)

\* The instances that have an entry of the group.
With(idx, g) == {i \in Ids : idx[i] = g}

\* The count of a group in a memory is right.
Right(m, g) == m.counts[g] = Cardinality(With(m.index, g))

\* They are finitely many.
LEMMA WithFinite ==
    ASSUME NEW idx, NEW g
    PROVE  IsFiniteSet(With(idx, g)) /\ Cardinality(With(idx, g)) \in Nat
<1>1. With(idx, g) \subseteq Ids
  BY DEF With
<1> QED
  BY <1>1, ListAssumption, FS_Subset, FS_CardinalityType

\* An entry that is set counts one more in its group, unless it was there.
LEMMA MoreRight ==
    ASSUME NEW idx \in [Ids -> Labels], NEW c \in [Groups -> Nat], NEW i \in Ids, NEW h, NEW g \in Groups,
           c[g] = Cardinality(With(idx, g)), idx[i] # g,
           NEW after, after[i] = h, \A k \in Ids \ {i} : after[k] = idx[k]
    PROVE  More(c, h)[g] = Cardinality(With(after, g))
<1>1. CASE h = g
  <2>1. With(after, g) = With(idx, g) \cup {i} /\ i \notin With(idx, g)
    BY <1>1 DEF With
  <2>2. Cardinality(With(after, g)) = Cardinality(With(idx, g)) + 1
    BY <2>1, WithFinite, FS_AddElement
  <2>3. More(c, h)[g] = c[g] + 1
    BY <1>1 DEF More
  <2> QED
    BY <2>2, <2>3
<1>2. CASE h # g
  <2>1. With(after, g) = With(idx, g)
    BY <1>2 DEF With
  <2>2. More(c, h)[g] = c[g]
    BY <1>2 DEF More
  <2> QED
    BY <2>1, <2>2
<1> QED
  BY <1>1, <1>2

\* One that goes, or changes, counts one less in the group it had.
LEMMA LessRight ==
    ASSUME NEW idx \in [Ids -> Labels], NEW c \in [Groups -> Nat], NEW i \in Ids, NEW g \in Groups,
           c[g] = Cardinality(With(idx, g))
    PROVE  Less(c, idx[i])[g] = Cardinality(With([idx EXCEPT ![i] = Absent], g))
<1> DEFINE after == [idx EXCEPT ![i] = Absent]
<1>1. CASE idx[i] = g
  <2>1. With(after, g) = With(idx, g) \ {i} /\ i \in With(idx, g)
    BY <1>1, NamesOfGroups DEF With
  <2>2. Cardinality(With(after, g)) = Cardinality(With(idx, g)) - 1
    BY <2>1, WithFinite, FS_RemoveElement
  <2>3. Cardinality(With(after, g)) \in Nat
    BY WithFinite
  <2>4. Less(c, idx[i])[g] = IF c[g] > 1 THEN c[g] - 1 ELSE 0
    BY <1>1 DEF Less
  <2> HIDE DEF after
  <2>5. c[g] \in Nat /\ Less(c, idx[i])[g] = Cardinality(With(after, g))
    BY <2>2, <2>3, <2>4
  <2> QED
    BY <2>5 DEF after
<1>2. CASE idx[i] # g
  <2>1. With(after, g) = With(idx, g)
    BY <1>2, NamesOfGroups DEF With
  <2>2. Less(c, idx[i])[g] = c[g]
    BY <1>2 DEF Less
  <2> QED
    BY <2>1, <2>2
<1> QED
  BY <1>1, <1>2

\* So the steps that set, change and forget entries keep counts right, but the first only
\* those of other groups than the one the entry had.
LEMMA EntriesRight ==
    ASSUME NEW m, MemoryTyped(m), NEW i \in Ids, NEW h \in GroupsOrNone, NEW g \in Groups, Right(m, g)
    PROVE  /\ m.index[i] # g => Right(Entered(m, i, h), g)
           /\ Right(Regrouped(m, i, h), g)
           /\ Right(Forgotten(m, i), g)
<1>1. /\ m.index \in [Ids -> Labels] /\ m.counts \in [Groups -> Nat]
      /\ m.counts[g] = Cardinality(With(m.index, g))
  BY DEF MemoryTyped, Right
<1> DEFINE set == [m.index EXCEPT ![i] = h]
<1>2. m.index[i] # g => Right(Entered(m, i, h), g)
  <2>1. set[i] = h /\ \A k \in Ids \ {i} : set[k] = m.index[k]
    BY <1>1
  <2>2. m.index[i] # g => More(m.counts, h)[g] = Cardinality(With(set, g))
    <3> HIDE DEF set
    <3> QED
      BY <1>1, <2>1, MoreRight
  <2> QED
    BY <2>2 DEF Entered, Right
<1> DEFINE gone == [m.index EXCEPT ![i] = Absent]
           left == Less(m.counts, m.index[i])
<1>3. left[g] = Cardinality(With(gone, g))
  BY <1>1, LessRight
<1>4. Right(Forgotten(m, i), g)
  BY <1>3 DEF Forgotten, Right
<1>5. left \in [Groups -> Nat]
  BY <1>1, CountsTyped
<1>6. gone \in [Ids -> Labels] /\ gone[i] # g
  BY <1>1, NamesOfGroups DEF Labels
<1>7. set[i] = h /\ \A k \in Ids \ {i} : set[k] = gone[k]
  BY <1>1
<1> HIDE DEF gone, left, set
<1>8. More(left, h)[g] = Cardinality(With(set, g))
  BY <1>3, <1>5, <1>6, <1>7, MoreRight
<1>9. Right(Regrouped(m, i, h), g)
  BY <1>8 DEF Regrouped, Right, left, set
<1> QED
  BY <1>2, <1>4, <1>9

\* What is read is counted.
LEMMA ReadRight ==
    ASSUME NEW f \in GroupFiles, NEW g \in Groups
    PROVE  Right(ReadFrom(f), g)
<1>1. With(ReadFrom(f).index, g) = {i \in Ids : f[i] = g}
  BY NamesOfGroups DEF With, ReadFrom
<1> QED
  BY <1>1 DEF Right, ReadFrom

\* And loadList() keeps a count right, or makes it so.
LEMMA LoadedRight ==
    ASSUME NEW m, NEW f \in GroupFiles \cup {NoFile}, NEW r, r => f # NoFile, NEW g \in Groups,
           r \/ Right(m, g)
    PROVE  Right(Loaded(r, f, m), g)
  BY ReadRight DEF Loaded

\* GroupIsCounted, of the memory.
LEMMA CountedIs == GroupIsCounted <=> \A g \in Groups \ uneven : Right(Memory, g)
  BY DEF GroupIsCounted, Right, With, Memory

\* And of the memory after a step that keeps `m'.
LEMMA CountedNext ==
    ASSUME NEW m, Keep(m), \A g \in Groups \ uneven' : Right(m, g)
    PROVE  GroupIsCounted'
  BY DEF Keep, GroupIsCounted, Right, With

\* The state the launcher starts in.
LEMMA StartRight ==
    ASSUME file \in GroupFiles \cup {NoFile}, NEW r \in StartReads, NEW g \in Groups
    PROVE  Right(StartMemory(r), g)
<1>1. CASE r
  BY <1>1, ReadRight DEF StartReads, StartMemory
<1>2. CASE ~r
  <2>1. With(Empty.index, g) = {}
    BY NamesOfGroups DEF With, Empty
  <2> QED
    BY <1>2, <2>1, FS_EmptySet DEF StartMemory, Right, Empty
<1> QED
  BY <1>1, <1>2

\* It is counted.
LEMMA InitCounted == Init => GroupIsCounted
<1> SUFFICES ASSUME Init
             PROVE  GroupIsCounted
  OBVIOUS
<1>1. file \in GroupFiles \cup {NoFile}
  BY InitList DEF ListInv, ListTypes
<1>2. \A g \in Groups : Right(StartMemory(loaded), g)
  BY <1>1, StartRight DEF Init
<1>3. Memory.index = StartMemory(loaded).index /\ Memory.counts = StartMemory(loaded).counts
  BY DEF Memory, Init
<1> QED
  BY <1>2, <1>3, CountedIs DEF Right

\* A group that is deleted or renamed has no entry, unless one was left behind.
LEMMA ChangeCounted ==
    ASSUME ListInv, GroupIsCounted, NEW src \in Groups,
           DeleteGroup(src) \/ \E dst \in Groups : RenameGroup(src, dst)
    PROVE  GroupIsCounted'
<1>1. /\ index \in [Ids -> Labels] /\ counts \in [Groups -> Nat]
      /\ \A g \in Groups \ uneven : counts[g] = Cardinality(With(index, g))
  BY CountedIs DEF ListInv, ListTypes, MemoryTyped, Memory, Right
<1>2. /\ \A i \in Ids : i \in Members(src) => index[i] = src
      /\ src \notin LeftBehind(src) => \A i \in Ids : index[i] = src => i \in Members(src)
      /\ Members(src) \subseteq Ids
  <2>1. Listed \subseteq Ids
    BY DEF ListInv, ListTypes, ListOfIds, Listed, ToSet
  <2> QED
    BY <2>1 DEF Members, LeftBehind
<1>3. uneven' = (uneven \ {src}) \cup LeftBehind(src)
  BY DEF DeleteGroup, RenameGroup
<1>4. CASE DeleteGroup(src)
  <2>1. /\ index' = [i \in Ids |-> IF i \in Members(src) THEN Absent ELSE index[i]]
        /\ counts' = [counts EXCEPT ![src] = 0]
    BY <1>4 DEF DeleteGroup
  <2>2. ASSUME NEW g \in Groups \ uneven'
        PROVE  counts'[g] = Cardinality(With(index', g))
    <3>1. CASE g = src
      <4>1. With(index', g) = {}
        BY <1>2, <2>1, <2>2, <1>3, <3>1, NamesOfGroups DEF With
      <4> QED
        BY <1>1, <2>1, <3>1, <4>1, FS_EmptySet
    <3>2. CASE g # src
      <4>1. With(index', g) = With(index, g) /\ g \notin uneven
        BY <1>2, <1>3, <2>1, <2>2, <3>2, NamesOfGroups DEF With
      <4> QED
        BY <1>1, <2>1, <3>2, <4>1
    <3> QED
      BY <3>1, <3>2
  <2> QED
    BY <2>2 DEF GroupIsCounted, With
<1>5. ASSUME NEW dst \in Groups, RenameGroup(src, dst)
      PROVE  GroupIsCounted'
  <2>1. /\ src # dst /\ counts[dst] = 0
        /\ index' = [i \in Ids |-> IF i \in Members(src) THEN dst ELSE index[i]]
        /\ counts' = [counts EXCEPT ![src] = 0, ![dst] = Cardinality(Members(src))]
    BY <1>5 DEF RenameGroup
  <2>2. ASSUME NEW g \in Groups \ uneven'
        PROVE  counts'[g] = Cardinality(With(index', g))
    <3>1. CASE g = src
      <4>1. With(index', g) = {}
        BY <1>2, <2>1, <2>2, <1>3, <3>1 DEF With
      <4> QED
        BY <1>1, <2>1, <3>1, <4>1, FS_EmptySet
    <3>2. CASE g = dst
      <4>1. dst \notin uneven
        BY <1>3, <2>1, <2>2, <3>2
      <4>2. With(index, dst) = {}
        BY <1>1, <2>1, <4>1, WithFinite, FS_EmptySet
      <4>3. With(index', dst) = Members(src)
        BY <1>2, <2>1, <4>2 DEF With
      <4> QED
        BY <1>1, <2>1, <3>2, <4>3
    <3>3. CASE g # src /\ g # dst
      <4>1. With(index', g) = With(index, g) /\ g \notin uneven
        BY <1>2, <1>3, <2>1, <2>2, <3>3 DEF With
      <4> QED
        BY <1>1, <2>1, <3>3, <4>1
    <3> QED
      BY <3>1, <3>2, <3>3
  <2> QED
    BY <2>2 DEF GroupIsCounted, With
<1> QED
  BY <1>4, <1>5

\* An entry that comes before the list is loaded: the group its instance had is uneven.
LEMMA EnteredCounted ==
    ASSUME GroupFacts, GroupIsCounted, NEW id \in Ids, NEW h \in GroupsOrNone,
           NEW f \in GroupFiles \cup {NoFile}, NEW r, r => f # NoFile,
           Keep(Loaded(r, f, Entered(Memory, id, h))),
           uneven' = IF r THEN {} ELSE uneven \cup ({index[id]} \cap Groups)
    PROVE  GroupIsCounted'
<1> DEFINE m == Entered(Memory, id, h)
<1>1. ASSUME NEW g \in Groups \ uneven'
      PROVE  Right(Loaded(r, f, m), g)
  <2>1. CASE r
    BY <2>1, LoadedRight
  <2>2. CASE ~r
    <3>1. g \notin uneven /\ Memory.index[id] # g
      BY <1>1, <2>2 DEF Memory
    <3>2. Right(Memory, g)
      BY <3>1, CountedIs
    <3>3. Right(m, g)
      BY <3>1, <3>2, EntriesRight DEF GroupFacts
    <3> QED
      BY <3>3, LoadedRight
  <2> QED
    BY <2>1, <2>2
<1> HIDE DEF m
<1> QED
  BY <1>1, CountedNext DEF m

\* The list is loaded and nothing else changes the groups.
LEMMA LoadedCounted ==
    ASSUME GroupFacts, GroupIsCounted, NEW f \in GroupFiles \cup {NoFile}, NEW r, r => f # NoFile,
           Keep(Loaded(r, f, Memory)), uneven' = IF r THEN {} ELSE uneven
    PROVE  GroupIsCounted'
<1>1. ASSUME NEW g \in Groups \ uneven'
      PROVE  Right(Loaded(r, f, Memory), g)
  <2>1. CASE r
    BY <2>1, LoadedRight
  <2>2. CASE ~r
    <3>1. Right(Memory, g)
      BY <1>1, <2>2, CountedIs
    <3> QED
      BY <3>1, LoadedRight
  <2> QED
    BY <2>1, <2>2
<1> QED
  BY <1>1, CountedNext

\* A group goes off one id and on to another, with the list loaded between.
LEMMA RenameCounted ==
    ASSUME GroupFacts, GroupIsCounted, NEW i \in Ids, NEW j \in Ids, RenameInstance(i, j)
    PROVE  GroupIsCounted'
<1> DEFINE h == GroupOf(i)
<1>1. h \in GroupsOrNone /\ NoGroup \in GroupsOrNone /\ MemoryTyped(Memory)
      /\ Disk.file \in GroupFiles \cup {NoFile}
  BY DEF GroupOf, GroupsOrNone, GroupFacts, Disk
<1> HIDE DEF h
<1>2. ASSUME NEW m, MemoryTyped(m), \A g \in Groups \ uneven : Right(m, g),
             NEW d, d.file \in GroupFiles \cup {NoFile}, DirMoved(i, j, h, m, d)
      PROVE  GroupIsCounted'
  <2>1. PICK r \in Reads(dirs', d.file) :
            LET n == Loaded(r, d.file, m)
            IN  /\ uneven' = IF r THEN {} ELSE uneven
                /\ Keep(Regrouped(n, j, h)) \/ Keep(n)
    BY <1>2 DEF DirMoved
  <2> DEFINE n == Loaded(r, d.file, m)
  <2>2. r => d.file # NoFile
    BY ReadsIs
  <2>3. MemoryTyped(n)
    BY <1>2, <2>2, LoadedTyped
  <2>4. ASSUME NEW g \in Groups \ uneven'
        PROVE  Right(n, g)
    <3>1. r \/ Right(m, g)
      BY <1>2, <2>1, <2>4
    <3> QED
      BY <1>2, <2>2, <3>1, LoadedRight
  <2>5. Keep(Regrouped(n, j, h)) \/ Keep(n)
    BY <2>1
  <2> HIDE DEF n
  <2>6. \A g \in Groups \ uneven' : Right(Regrouped(n, j, h), g)
    BY <1>1, <2>3, <2>4, EntriesRight
  <2> QED
    BY <2>4, <2>5, <2>6, CountedNext
<1>3. \A g \in Groups \ uneven : Right(Memory, g)
  BY CountedIs
<1>4. CASE DirMoved(i, j, h, Memory, Disk)
  BY <1>1, <1>2, <1>3, <1>4
<1>5. ASSUME NEW m, m = Regrouped(Memory, i, NoGroup),
             NEW d \in Saves(Disk, m.index, known, {i}), DirMoved(i, j, h, m, d)
      PROVE  GroupIsCounted'
  <2>1. MemoryTyped(m) /\ \A g \in Groups \ uneven : Right(m, g)
    BY <1>1, <1>3, <1>5, EntriesTyped, EntriesRight
  <2>2. d.file \in GroupFiles \cup {NoFile}
    BY <1>1, SavesTyped
  <2> QED
    BY <1>2, <1>5, <2>1, <2>2
<1> QED
  BY <1>4, <1>5 DEF RenameInstance, h

\* Every step keeps the counts.
LEMMA NextCounted == ListInv /\ ListInv' /\ GroupIsCounted /\ [Next]_vars => GroupIsCounted'
<1> SUFFICES ASSUME ListInv, ListInv', GroupIsCounted, [Next]_vars
             PROVE  GroupIsCounted'
  OBVIOUS
<1>1. GroupFacts
  BY ListGivesFacts
<1>2. MemoryTyped(Memory) /\ file \in GroupFiles \cup {NoFile}
  BY <1>1 DEF GroupFacts
<1>3. ASSUME UNCHANGED <<index, counts, uneven>>
      PROVE  GroupIsCounted'
  BY <1>3 DEF GroupIsCounted
<1>4. ASSUME NEW i \in Ids, NEW g \in GroupsOrNone, SetInstanceGroup(i, g)
      PROVE  GroupIsCounted'
  <2>1. Keep(Regrouped(Memory, i, g)) /\ uneven' = uneven
    BY <1>4 DEF SetInstanceGroup
  <2>2. \A h \in Groups \ uneven' : Right(Regrouped(Memory, i, g), h)
    BY <1>2, <2>1, EntriesRight, CountedIs
  <2> QED
    BY <2>1, <2>2, CountedNext
<1>5. CASE \E g \in Groups : DeleteGroup(g) \/ \E h \in Groups : RenameGroup(g, h)
  BY <1>5, ChangeCounted
<1>6. ASSUME NEW i \in Ids, TrashInstance(i) \/ DeleteInstance(i)
      PROVE  GroupIsCounted'
  <2>1. Keep(Forgotten(Memory, i)) /\ uneven' = uneven
    BY <1>6 DEF TrashInstance, DeleteInstance
  <2>2. \A h \in Groups \ uneven' : Right(Forgotten(Memory, i), h)
    BY <1>2, <2>1, EntriesRight, CountedIs DEF GroupsOrNone
  <2> QED
    BY <2>1, <2>2, CountedNext
<1>7. CASE \/ \E i \in Ids : OthersAdd(i)
           \/ \E gone \in SUBSET dirs : OthersRemove(gone)
           \/ \E t \in Stagings, target \in Ids \cup {New}, g \in Groups \cup {NoGroup} :
                  StartStaging(t, target, g)
           \/ \E t \in Stagings, phase \in {"Failed", "Aborted"} : ChildEnds(t, phase)
           \/ UNCHANGED vars
  <2>1. UNCHANGED <<index, counts, uneven>>
    BY <1>7 DEF OthersAdd, OthersRemove, StartStaging, ChildEnds, groupVars, historyVars, vars
  <2> QED
    BY <1>3, <2>1
<1>8. CASE UndoTrashInstance
  <2> DEFINE top == Last(trash)
  <2>1. top.group \in GroupsOrNone /\ top.id \in Ids
    <3>1. trash \in Seq(Trashed) /\ trash # <<>>
      BY <1>8 DEF UndoTrashInstance, ListInv, ListTypes
    <3>2. Len(trash) \in 1 .. Len(trash)
      BY <3>1
    <3>3. top \in Trashed
      BY <3>1, <3>2 DEF Last
    <3> QED
      BY <3>3 DEF Trashed
  <2> HIDE DEF top
  <2>2. \/ \E id \in IF top.id \notin dirs THEN {top.id} ELSE Ids \ dirs :
              \E r \in Reads(dirs', file') :
                  /\ Keep(Loaded(r, file', Entered(Memory, id, top.group)))
                  /\ uneven' = IF r THEN {} ELSE uneven \cup ({index[id]} \cap Groups)
        \/ UNCHANGED <<index, counts, uneven>>
    BY <1>8 DEF UndoTrashInstance, top, groupVars, historyVars
  <2>3. ASSUME NEW id \in Ids, NEW r \in Reads(dirs', file'),
               Keep(Loaded(r, file', Entered(Memory, id, top.group))),
               uneven' = IF r THEN {} ELSE uneven \cup ({index[id]} \cap Groups)
        PROVE  GroupIsCounted'
    <3>1. file' \in GroupFiles \cup {NoFile} /\ (r => file' # NoFile)
      BY ReadsIs DEF ListInv, ListTypes
    <3> QED
      BY <1>1, <2>1, <2>3, <3>1, EnteredCounted
  <2> QED
    BY <1>3, <2>1, <2>2, <2>3
<1>9. CASE \E i, j \in Ids : RenameInstance(i, j)
  BY <1>1, <1>9, RenameCounted
<1>10. ASSUME NEW t \in Stagings, TryCommit(t)
       PROVE  GroupIsCounted'
  <2>1. jobs[t].group \in GroupsOrNone
    BY DEF ListInv, ListTypes, Jobs
  <2>2. ASSUME NEW id \in Ids, CommitNew(t, id)
        PROVE  GroupIsCounted'
    <3>1. PICK r \in Reads(dirs', file) :
              /\ Keep(Loaded(r, file, Entered(Memory, id, jobs[t].group)))
              /\ uneven' = IF r THEN {} ELSE uneven \cup ({index[id]} \cap Groups)
      BY <2>2 DEF CommitNew
    <3>2. r => file # NoFile
      BY ReadsIs
    <3> QED
      BY <1>1, <1>2, <2>1, <3>1, <3>2, EnteredCounted
  <2>3. CASE CommitOverride(t)
    <3>1. PICK r \in Reads(dirs', file) :
              Keep(Loaded(r, file, Memory)) /\ uneven' = IF r THEN {} ELSE uneven
      BY <2>3 DEF CommitOverride
    <3>2. r => file # NoFile
      BY ReadsIs
    <3> QED
      BY <1>1, <1>2, <3>1, <3>2, LoadedCounted
  <2>4. CASE CommitFails(t)
    BY <1>3, <2>4 DEF CommitFails, groupVars
  <2> QED
    BY <1>10, <2>2, <2>3, <2>4 DEF TryCommit
<1>11. CASE Restart
  <2>1. PICK r \in StartReads : Keep(StartMemory(r))
    BY <1>11 DEF Restart
  <2>2. \A g \in Groups : Right(StartMemory(r), g)
    BY <1>2, StartRight
  <2> QED
    BY <2>1, <2>2, CountedNext
<1>12. CASE Refresh \/ Noticed
  <2>1. PICK r \in Reads(dirs, file) :
            Keep(Loaded(r, file, Memory)) /\ uneven' = IF r THEN {} ELSE uneven
    BY <1>12 DEF Refresh, Noticed, Reload
  <2>2. r => file # NoFile
    BY ReadsIs
  <2> QED
    BY <1>1, <1>2, <2>1, <2>2, LoadedCounted
<1> QED
  BY <1>4, <1>5, <1>6, <1>7, <1>8, <1>9, <1>10, <1>11, <1>12 DEF Next, StagingNext, GroupsOrNone

\* THEOREM: what is shown of each instance on disk is what users set, and so is what the file
\* says of it, although a save may fail and the file be unreadable at any time: but for the
\* instances whose group was not written when it was set (`unsaved'), and those that a
\* restart, a first read, a file that was not read or a directory of others has put in doubt
\* (`doubt'; InstanceList::saveGroupList, 766-771, loadGroupList, 784-822).
THEOREM GroupsCorrect == Spec => [](GroupInv /\ GroupIsCounted)
<1>1. Spec => []ListInv
  BY ListCorrect
<1>2. Init => GroupInv /\ GroupIsCounted
  BY InitGroups, InitCounted
<1>3. ListInv /\ ListInv' /\ GroupInv /\ GroupIsCounted /\ [Next]_vars
          => GroupInv' /\ GroupIsCounted'
  BY NextGroups, NextCounted
<1> QED
  BY <1>1, <1>2, <1>3, PTL DEF Spec

\* THEOREM: GroupsAreKept, for any number of instances, groups and staging tasks, and any
\* number of saves that fail and of files that cannot be read.
THEOREM GroupsAlwaysKept == Spec => []GroupsAreKept
<1>1. ListInv /\ GroupInv /\ GroupIsCounted => GroupsAreKept
  BY DEF GroupInv, ShownTrue, GroupsAreKept, GroupIsShown
<1> QED
  BY <1>1, ListCorrect, GroupsCorrect, PTL

-----------------------------------------------------------------------------
(* Servers, for any number of tasks and launches. *)

ServerTypes ==
    /\ app \in {"Runs", "Exiting", "Gone", "Crashed"}
    /\ windows \in 0 .. 1 /\ count \in Nat
    /\ ctl \in {"None", "Queued", "Launched"}
    /\ launcher \in 0 .. MaxTasks
    /\ asking \in {"No", "Open", "Orphaned"}
    /\ running \in BOOLEAN
    /\ task \in 0 .. MaxTasks
    /\ state \in {"Inactive", "Running", "Succeeded", "Failed", "AbortedByUser"}
    /\ aborted \in BOOLEAN /\ finished \in BOOLEAN /\ pty \in BOOLEAN
    /\ procs \in [Tasks -> {"None", "Alive", "Dying", "Dead"}]
    /\ launches \in Nat

\* A controller that is there is counted, and only one that has launched has a task.
ControllerInv ==
    /\ ctl # "None" => count > 0
    /\ launcher # 0 => ctl = "Launched"

ServerInv == ServerTypes /\ ControllerInv /\ ServerInHand

-----------------------------------------------------------------------------
\* Killing and destroying the last task leave the types, and no other process, alone.
LEMMA KilledFacts ==
    ASSUME ServerTypes, ServerInHand
    PROVE  /\ Killed(procs) \in [Tasks -> {"None", "Alive", "Dying", "Dead"}]
           /\ \A t \in Tasks : Killed(procs)[t] # "Alive"
           /\ Destroyed(procs) \in [Tasks -> {"None", "Alive", "Dying", "Dead"}]
           /\ \A t \in Tasks : Destroyed(procs)[t] # "Alive"
<1>1. /\ Killed(procs) \in [Tasks -> {"None", "Alive", "Dying", "Dead"}]
      /\ \A t \in Tasks : Killed(procs)[t] # "Alive"
  BY DEF ServerTypes, ServerInHand, Alive, Killed
<1>2. CASE CanStop
  BY <1>1, <1>2 DEF Destroyed
<1>3. CASE ~CanStop
  <2>1. \A t \in Tasks : procs[t] # "Alive"
    BY <1>3 DEF ServerInHand, Alive
  <2> QED  BY <1>1, <1>3, <2>1 DEF Destroyed, ServerTypes
<1> QED  BY <1>2, <1>3

\* A start gives the instance one server, and the task that can stop it.
LEMMA StartsInv ==
    ASSUME ServerAssumption, ServerInv, Starts, app' \in {"Runs", "Exiting"}
    PROVE  /\ running' \in BOOLEAN /\ task' \in 0 .. MaxTasks /\ state' = "Running"
           /\ aborted' \in BOOLEAN /\ finished' \in BOOLEAN /\ pty' \in BOOLEAN
           /\ procs' \in [Tasks -> {"None", "Alive", "Dying", "Dead"}]
           /\ ServerInHand'
<1>1. task + 1 \in Tasks /\ task' = task + 1
  BY DEF ServerAssumption, ServerInv, ServerTypes, Starts, Tasks
<1>2. \A t \in Tasks : procs'[t] = (IF t = task + 1 THEN "Alive" ELSE Destroyed(procs)[t])
  BY <1>1, KilledFacts DEF Starts, ServerInv
<1>3. \A t \in Tasks : procs'[t] = "Alive" => t = task'
  BY <1>1, <1>2, KilledFacts DEF ServerInv
<1>4. ServerInHand'
  BY <1>3 DEF ServerInHand, Alive, CanStop, Starts
<1>5. procs' \in [Tasks -> {"None", "Alive", "Dying", "Dead"}]
  BY KilledFacts DEF Starts, ServerInv
<1>6. task' \in 0 .. MaxTasks
  BY <1>1 DEF Tasks, ServerAssumption
<1> QED  BY <1>4, <1>5, <1>6 DEF Starts

\* A start that fails leaves no server.
LEMMA FailsToStartInv ==
    ASSUME ServerAssumption, ServerInv, FailsToStart
    PROVE  /\ running' \in BOOLEAN /\ task' \in 0 .. MaxTasks /\ state' = "Failed"
           /\ aborted' \in BOOLEAN /\ finished' \in BOOLEAN /\ pty' \in BOOLEAN
           /\ procs' \in [Tasks -> {"None", "Alive", "Dying", "Dead"}]
           /\ ServerInHand'
<1>1. task' \in 0 .. MaxTasks
  BY DEF ServerAssumption, ServerInv, ServerTypes, FailsToStart
<1> QED  BY <1>1, KilledFacts DEF FailsToStart, ServerInv, ServerInHand, Alive

\* A stop leaves no server.
LEMMA StopsInv ==
    ASSUME ServerInv, Stops
    PROVE  /\ running' \in BOOLEAN /\ task' = task /\ state' = state
           /\ aborted' = aborted /\ finished' \in BOOLEAN /\ pty' = pty
           /\ procs' \in [Tasks -> {"None", "Alive", "Dying", "Dead"}]
           /\ \A t \in Tasks : procs'[t] # "Alive"
<1>1. CASE CanStop
  BY <1>1, KilledFacts DEF Stops, ServerInv
<1>2. CASE ~CanStop
  BY <1>2 DEF Stops, ServerInv, ServerTypes, ServerInHand, Alive, taskVars
<1> QED  BY <1>1, <1>2

\* The end of a controller.
LEMMA ControllerEndsInv ==
    ASSUME ServerInv, ControllerEnds
    PROVE  /\ app' \in {app, "Exiting"} /\ count' \in Nat
           /\ ctl' = "None" /\ launcher' = 0 /\ asking' \in {"No", "Open", "Orphaned"}
BY DEF ServerInv, ServerTypes, ControllerEnds, Deleted

\* An abort changes neither the process nor the means to stop it.
LEMMA AbortTaskInv ==
    ASSUME ServerInv, AbortTask
    PROVE  /\ UNCHANGED <<running, task, finished, pty, procs>>
           /\ aborted' \in BOOLEAN
           /\ state' \in {"Inactive", "Running", "Succeeded", "Failed", "AbortedByUser"}
BY DEF ServerInv, ServerTypes, AbortTask

LEMMA UndefinedInv ==
    ASSUME ServerInv, Undefined
    PROVE  /\ UNCHANGED <<running, task, finished, pty, procs>>
           /\ app' \in {app, "Crashed"} /\ aborted' \in BOOLEAN
           /\ state' \in {"Inactive", "Running", "Succeeded", "Failed", "AbortedByUser"}
BY AbortTaskInv DEF ServerInv, ServerTypes, Undefined, taskVars

-----------------------------------------------------------------------------
LEMMA InitServer ==
    ASSUME ServerAssumption, ServerInit
    PROVE  ServerInv
<1>1. 0 \in 0 .. MaxTasks /\ count \in Nat
  BY DEF ServerAssumption, ServerInit
<1>2. ServerTypes
  BY <1>1 DEF ServerInit, ServerTypes
<1>3. ControllerInv /\ ServerInHand
  BY DEF ServerInit, ControllerInv, ServerInHand, Alive
<1> QED  BY <1>2, <1>3 DEF ServerInv

LEMMA NextServer ==
    ASSUME ServerAssumption, ServerInv, [ServerNext]_serverVars
    PROVE  ServerInv'
<1>1. CASE Launch
  BY <1>1 DEF Launch, ServerInv, ServerTypes, ControllerInv, ServerInHand, Alive, CanStop, Deleted, taskVars
<1>2. CASE StartController
  <2>1. CASE Starts /\ ctl' = "Launched" /\ launcher' = task' /\ UNCHANGED <<asking, appVars>>
    <3>1. app' \in {"Runs", "Exiting"}
      BY <1>2, <2>1 DEF StartController, Up, appVars
    <3>2. launcher' \in 0 .. MaxTasks /\ count' > 0
      BY <1>2, <2>1, <3>1, StartsInv DEF StartController, ServerInv, ControllerInv, appVars
    <3> QED
      BY <1>2, <2>1, <3>1, <3>2, StartsInv DEF StartController, ServerInv, ServerTypes, ControllerInv, appVars
  <2>2. CASE FailsToStart /\ ControllerEnds /\ UNCHANGED windows
    BY <1>2, <2>2, FailsToStartInv, ControllerEndsInv
       DEF StartController, ServerInv, ServerTypes, ControllerInv, ServerAssumption
  <2>3. CASE ControllerEnds /\ UNCHANGED <<windows, taskVars>>
    BY <1>2, <2>3, ControllerEndsInv
       DEF StartController, ServerInv, ServerTypes, ControllerInv, ServerInHand, Alive, CanStop, taskVars,
           ServerAssumption
  <2> QED  BY <1>2, <2>1, <2>2, <2>3 DEF StartController
<1>3. CASE Kill
  <2>1. /\ UNCHANGED <<running, task, finished, pty, procs>>
        /\ app' \in {app, "Crashed"} /\ aborted' \in BOOLEAN
        /\ state' \in {"Inactive", "Running", "Succeeded", "Failed", "AbortedByUser"}
        /\ asking' \in {"No", "Open", "Orphaned"}
    BY <1>3, AbortTaskInv, UndefinedInv DEF Kill, ServerInv, ServerTypes, taskVars
  <2> QED
    BY <1>3, <2>1 DEF Kill, ServerInv, ServerTypes, ControllerInv, ServerInHand, Alive, CanStop
<1>4. CASE Answered
  <2>1. /\ UNCHANGED <<running, task, finished, pty, procs>>
        /\ app' \in {app, "Crashed"} /\ aborted' \in BOOLEAN
        /\ state' \in {"Inactive", "Running", "Succeeded", "Failed", "AbortedByUser"}
    BY <1>4, AbortTaskInv, UndefinedInv DEF Answered, ServerInv, ServerTypes, taskVars
  <2> QED
    BY <1>4, <2>1 DEF Answered, ServerInv, ServerTypes, ControllerInv, ServerInHand, Alive, CanStop
<1>5. CASE OpenWindow
  BY <1>5 DEF OpenWindow, ServerInv, ServerTypes, ControllerInv, ServerInHand, Alive, CanStop, ctlVars, taskVars
<1>6. CASE CloseWindow
  BY <1>6 DEF CloseWindow, ServerInv, ServerTypes, ControllerInv, ServerInHand, Alive, CanStop, ctlVars, taskVars
<1>7. CASE StartServer
  <2>1. app' \in {"Runs", "Exiting"}
    BY <1>7 DEF StartServer, Up, appVars
  <2>2. CASE Starts
    BY <1>7, <2>1, <2>2, StartsInv DEF StartServer, ServerInv, ServerTypes, ControllerInv, appVars, ctlVars
  <2>3. CASE FailsToStart
    BY <1>7, <2>3, FailsToStartInv DEF StartServer, ServerInv, ServerTypes, ControllerInv, appVars, ctlVars
  <2> QED  BY <1>7, <2>2, <2>3 DEF StartServer
<1>8. CASE StopServer
  BY <1>8, StopsInv DEF StopServer, ServerInv, ServerTypes, ControllerInv, ServerInHand, Alive, appVars, ctlVars
<1>9. CASE AboutToQuit
  <2>1. CASE running
    BY <1>9, <2>1, StopsInv DEF AboutToQuit, ServerInv, ServerTypes, ControllerInv, ServerInHand, Alive, ctlVars
  <2>2. CASE ~running
    BY <1>9, <2>2 DEF AboutToQuit, ServerInv, ServerTypes, ControllerInv, ServerInHand, Alive, ctlVars, taskVars
  <2> QED  BY <2>1, <2>2
<1>10. CASE \E t \in Tasks : ProcessEnds(t)
  <2>1. PICK t \in Tasks : ProcessEnds(t)
    BY <1>10
  <2>2. \A u \in Tasks : procs'[u] = "Alive" => procs[u] = "Alive"
    BY <2>1 DEF ProcessEnds, ServerInv, ServerTypes
  <2> QED
    BY <2>1, <2>2 DEF ProcessEnds, ServerInv, ServerTypes, ControllerInv, ServerInHand, Alive, CanStop,
                      appVars, ctlVars
<1>11. CASE PtyExit
  <2>1. \A t \in Tasks : procs'[t] # "Alive"
    BY <1>11 DEF PtyExit, Heard, ServerInv, ServerInHand, Alive
  <2>2. CASE state = "Running" /\ ctl = "Launched" /\ launcher = task
    <3>1. ControllerEnds /\ 0 \in 0 .. MaxTasks
      BY <1>11, <2>2 DEF PtyExit, ServerAssumption
    <3>2. ServerTypes'
      BY <1>11, <3>1, ControllerEndsInv DEF PtyExit, ServerInv, ServerTypes
    <3>3. ControllerInv' /\ ServerInHand'
      BY <2>1, <3>1, ControllerEndsInv DEF ControllerInv, ServerInHand, Alive
    <3> QED  BY <3>2, <3>3 DEF ServerInv
  <2>3. CASE ~(state = "Running" /\ ctl = "Launched" /\ launcher = task)
    BY <1>11, <2>1, <2>3 DEF PtyExit, ServerInv, ServerTypes, ControllerInv, ServerInHand, Alive, ctlVars
  <2> QED  BY <2>2, <2>3
<1>12. CASE UNCHANGED serverVars
  BY <1>12 DEF serverVars, appVars, ctlVars, taskVars, ServerInv, ServerTypes, ControllerInv, ServerInHand, Alive, CanStop
<1> QED
  BY <1>1, <1>2, <1>3, <1>4, <1>5, <1>6, <1>7, <1>8, <1>9, <1>10, <1>11, <1>12 DEF ServerNext

\* For any tasks and launches the invariant holds.
THEOREM ServerInvariant == ServerSpec => []ServerInv
BY InitServer, NextServer, ServerAssumption, PTL DEF ServerSpec

\* A server that lives is in hand of the instance, whoever started it, and the launcher
\* does not exit under one that a user launched.
THEOREM ServersAreKept == ServerSpec => []ServerIsKept
<1>1. ServerInv => ServerIsKept
  BY DEF ServerInv, ServerTypes, ControllerInv, ServerIsKept, LaunchedIsCounted
<1> QED  BY <1>1, ServerInvariant, PTL

-----------------------------------------------------------------------------
(* ResourceFolder: what ListIsTrue rests on. *)

\* The rows, the parse tasks and the events there can be.
Mods == [name : Names, stamp : Int, ticket : Nat, resolved : BOOLEAN, details : Int, sure : BOOLEAN]
ParseTasks == [file : Names, name : Names, aborted : BOOLEAN, details : Int]
Kinds == {"Updated", "Over", "Wake", "Parse", "Parsed", "Done"}
Events == [kind : Kinds, ticket : Nat]

\* A list, as applyUpdates works on it; the one there is.
ModList(l) ==
    /\ l \in [mods : Seq(Mods), parses : Seq(ParseTasks), active : SUBSET Nat, queue : Seq(Nat)]
    /\ l.active \subseteq 1 .. Len(l.parses) /\ ToSet(l.queue) \subseteq 1 .. Len(l.parses)

Now == [mods |-> mods, parses |-> parses, active |-> active, queue |-> queue]

\* Every variable has its type, and the tickets that are in use have tasks.
FolderTypes ==
    /\ disk \in [Names -> Nat] /\ snapshot \in [Names -> Int] /\ unread \subseteq Names
    /\ touched \in BOOLEAN /\ watching \in BOOLEAN /\ again \in BOOLEAN
    /\ update \in {"None", "Made", "Reading", "Posted"}
    /\ places \in [Names -> Nat] /\ posted \in Seq(Events) /\ changes \in Nat
    /\ ModList(Now)

\* The index has the row of each name that has one.
PlacesTrue ==
    /\ \A i \in DOMAIN mods : places[mods[i].name] = i
    /\ \A n \in Names : places[n] # 0 => places[n] \in DOMAIN mods /\ mods[places[n]].name = n

\* The list shows the files `d'.
Shows(d) ==
    \A n \in Names : IF d[n] = None THEN places[n] = 0
                     ELSE /\ places[n] \in DOMAIN mods
                          /\ mods[places[n]].name = n /\ mods[places[n]].stamp = d[n]

\* An event that has been posted.
Waits(kind) == \E i \in DOMAIN posted : posted[i].kind = kind

\* The result of an update is applied, and then the update is over.
UpdateInOrder ==
    /\ update = "Posted" <=> Waits("Over")
    /\ \A i, j \in DOMAIN posted : posted[i].kind = "Over" /\ posted[j].kind = "Over" => i = j
    /\ \A i \in DOMAIN posted : posted[i].kind = "Updated" =>
         i + 1 \in DOMAIN posted /\ posted[i + 1].kind = "Over"

\* Without a change to announce or an update to make, what was read is the folder.
NothingForgotten ==
    watching /\ ~touched /\ ~again =>
      /\ update = "None" => Shows(disk)
      /\ update = "Reading" => \A n \in Names : IF n \in unread THEN snapshot[n] = None /\ disk[n] # None
                                               ELSE snapshot[n] = disk[n]
      /\ update = "Posted" => IF Waits("Updated") THEN snapshot = disk ELSE Shows(disk)

\* An update is asked for once more while there is one.
AgainInTime == again => update # "None"

\* The inductive invariant behind ListIsTrue.
FolderInv ==
    /\ AgainInTime
    /\ ~astray => FolderTypes /\ PlacesTrue /\ UpdateInOrder /\ NothingForgotten

-----------------------------------------------------------------------------
(* ResourceFolder: what DetailsAreTrue rests on. *)

\* The tickets in the events of a kind, of the tasks that have yet to run, and of those
\* whose results have yet to be taken.
Stage(p, kind) == {p[i].ticket : i \in {i \in DOMAIN p : p[i].kind = kind}}
Untried(l, p) == ToSet(l.queue) \cup Stage(p, "Parse")
Pending(l, p) == Untried(l, p) \cup Stage(p, "Parsed")

\* Events come in the order of their tickets, and no task is over before it is parsed.
Sorted(p) ==
    \A i, j \in DOMAIN p : i < j =>
      /\ p[i].kind = "Parse" /\ p[j].kind = "Parse" => p[i].ticket < p[j].ticket
      /\ p[i].kind = "Parsed" /\ p[j].kind = "Parsed" => p[i].ticket < p[j].ticket
      /\ p[i].kind = "Done" /\ p[j].kind = "Parsed" => p[i].ticket # p[j].ticket

\* A queue is in the order of tickets.
Rising(s) == \A i, j \in DOMAIN s : i < j => s[i] < s[j]

\* Tasks run, and their results come, in the order of their tickets.
InTurn(l, p) ==
    /\ Rising(l.queue) /\ Sorted(p)
    /\ \A t \in Stage(p, "Parse"), u \in ToSet(l.queue) : t < u
    /\ \A t \in Stage(p, "Parsed"), u \in Untried(l, p) : t < u
    /\ \A t \in Stage(p, "Done") : t \notin Untried(l, p) /\ t \in 1 .. Len(l.parses)
    /\ Pending(l, p) \subseteq l.active
    /\ \A t \in Untried(l, p) : l.parses[t].details = 0

\* The mod of a row, and the task that was made for it, when the files are `d'.
RowTrue(d, l, p, r) ==
    LET t == r.ticket IN
    /\ t \in DOMAIN l.parses /\ l.parses[t].name = r.name /\ ~l.parses[t].aborted
    /\ r.stamp # None
    /\ r.sure =>
         /\ t \in l.active => l.parses[t].file = r.name
         /\ t \in Pending(l, p) \/ (r.resolved /\ r.details = l.parses[t].details)
         /\ \A u \in Pending(l, p) : l.parses[u].name = r.name => u <= t
         /\ t \notin Pending(l, p) => \A u \in Pending(l, p) : u > t
         /\ t \notin Untried(l, p) => l.parses[t].details = r.stamp \/ d[r.name] # r.stamp

\* The same for every row.
RowsTrue(d, l, p) == \A i \in DOMAIN l.mods : RowTrue(d, l, p, l.mods[i])

\* Names that get longer when twins make way (FolderAssumption).
Rank == CHOOSE rank \in [Names -> 0 .. Len(Order)] :
         /\ \A n \in DOMAIN Toggled : rank[Toggled[n]] = rank[n]
         /\ \A n \in DOMAIN Spares : \A name \in ToSet(Spares[n]) : rank[name] > rank[n]

\* The stamp of the file `n' is not a new one, and the file has not moved back.
Known(d, fresh, n, s) == s < fresh /\ \A m \in Names : d[m] = s => Rank[m] >= Rank[n]

\* The stamps of all rows are known so.
RowsKnown(d, fresh, l) == \A i \in DOMAIN l.mods : Known(d, fresh, l.mods[i].name, l.mods[i].stamp)

\* No two files share a stamp, and no stamp that was read is newer than the files.
FilesTrue(d, fresh, snap) ==
    /\ \A n, m \in Names : d[n] = d[m] /\ d[n] # None => n = m
    /\ \A n \in Names : d[n] < fresh
    /\ \A n \in Names : snap[n] # None => Known(d, fresh, n, snap[n])

\* The inductive invariant behind DetailsAreTrue, until an index goes astray.
DetailSound ==
    /\ InTurn(Now, posted) /\ RowsTrue(disk, Now, posted)
    /\ FilesTrue(disk, Fresh, snapshot) /\ RowsKnown(disk, Fresh, Now)

\* The same with its condition, as an invariant.
DetailInv == ~astray => DetailSound

-----------------------------------------------------------------------------
\* The names are those of a finite sequence.
LEMMA NamesListed ==
    /\ Len(Order) \in Nat /\ DOMAIN Order = 1 .. Len(Order) /\ \A k \in DOMAIN Order : Order[k] \in Names
    /\ \A n \in Names : \E k \in DOMAIN Order : Order[k] = n
    /\ IsFiniteSet(Names)
<1>1. /\ Len(Order) \in Nat /\ DOMAIN Order = 1 .. Len(Order)
      /\ \A k \in DOMAIN Order : Order[k] \in Names
  BY FolderAssumption
<1>2. Names = {Order[k] : k \in 1 .. Len(Order)}
  BY <1>1 DEF Names, ToSet
<1>3. IsFiniteSet(1 .. Len(Order))
  BY <1>1, FS_Interval
<1>4. IsFiniteSet(Names)
  <2>1. Order \in Surjection(1 .. Len(Order), Names)
    BY <1>1, <1>2, FolderAssumption DEF Surjection
  <2> QED
    BY <1>3, <2>1, FS_Surjection
<1> QED
  BY <1>1, <1>2, <1>4

\* Treating names in turn is what its definition says.
LEMMA TreatedIs ==
    ASSUME NEW order, Len(order) \in Nat
    PROVE  TreatedInTurn(order) =
             [k \in 0 .. Len(order) |->
                IF k = 0 THEN Now ELSE Treated(TreatedInTurn(order)[k - 1], order[k])]
<1> DEFINE n == Len(order)
           Step(l, k) == Treated(l, order[k])
           UpTo(m, f) == f = [k \in 0 .. m |-> IF k = 0 THEN Now ELSE Step(f[k - 1], k)]
           Good == {m \in Nat : \E f : UpTo(m, f)}
<1> HIDE DEF Step
<1>1. 0 \in Good
  <2>1. UpTo(0, [k \in 0 .. 0 |-> Now])
    OBVIOUS
  <2> QED
    BY <2>1
<1>2. ASSUME NEW m \in Nat, m \in Good
      PROVE  m + 1 \in Good
  <2>1. PICK f : UpTo(m, f)
    BY <1>2
  <2> DEFINE g == [k \in 0 .. m + 1 |-> IF k = m + 1 THEN Step(f[m], k) ELSE f[k]]
  <2>2. ASSUME NEW k \in 0 .. m + 1
        PROVE  g[k] = IF k = 0 THEN Now ELSE Step(g[k - 1], k)
    <3>1. CASE k = m + 1
      <4>1. g[k] = Step(f[m], k) /\ k - 1 = m /\ m \in 0 .. m + 1 /\ g[m] = f[m] /\ k # 0
        BY <3>1
      <4> QED
        BY <4>1
    <3>2. CASE k # m + 1
      <4>1. k \in 0 .. m
        BY <3>2
      <4>2. k # 0 => k - 1 \in 0 .. m + 1 /\ k - 1 # m + 1
        BY <4>1
      <4> QED
        BY <2>1, <3>2, <4>1, <4>2
    <3> QED
      BY <3>1, <3>2
  <2>3. g = [k \in 0 .. m + 1 |-> g[k]]
    OBVIOUS
  <2> HIDE DEF g
  <2>4. UpTo(m + 1, g)
    BY <2>2, <2>3
  <2> QED
    BY <2>4
<1>3. n \in Good
  <2> HIDE DEF Good, n
  <2>1. n \in Nat
    BY DEF n
  <2> QED
    BY <1>1, <1>2, <2>1, Induction
<1>4. \E f : UpTo(n, f)
  BY <1>3
<1>5. TreatedInTurn(order) = CHOOSE f : UpTo(n, f)
  BY DEF TreatedInTurn, Step, Now
<1>6. UpTo(n, TreatedInTurn(order))
  BY <1>4, <1>5
<1> QED
  BY <1>6 DEF Step

\* The orders a finite set can be gone through in.
LEMMA OrdersOfSet ==
    ASSUME NEW S, IsFiniteSet(S), NEW s \in SetToSeqs(S)
    PROVE  s \in Seq(S) /\ IsInjective(s) /\ ToSet(s) = S
<1> DEFINE n == Cardinality(S)
<1>1. n \in Nat
  BY FS_CardinalityType
<1>2. s \in [1 .. n -> S] /\ IsInjective(s)
  BY DEF SetToSeqs, IsInjective
<1>3. s \in Injection(1 .. n, S)
  BY <1>2 DEF Injection
<1>4. Cardinality(1 .. n) = n /\ IsFiniteSet(1 .. n)
  BY <1>1, FS_Interval
<1>5. s \in Surjection(1 .. n, S)
  BY <1>3, <1>4, FS_Injection
<1>6. ToSet(s) = S
  BY <1>2, <1>5 DEF ToSet, Surjection
<1> QED
  BY <1>1, <1>2, <1>6

-----------------------------------------------------------------------------
(* What applyUpdates does to a list, row by row. *)

\* Lists as sequences.
LEMMA ListIs ==
    ASSUME NEW l, ModList(l)
    PROVE  /\ Len(l.mods) \in Nat /\ DOMAIN l.mods = 1 .. Len(l.mods)
           /\ \A i \in DOMAIN l.mods : l.mods[i] \in Mods
           /\ Len(l.parses) \in Nat /\ DOMAIN l.parses = 1 .. Len(l.parses)
           /\ \A t \in DOMAIN l.parses : l.parses[t] \in ParseTasks
           /\ Len(l.queue) \in Nat /\ DOMAIN l.queue = 1 .. Len(l.queue)
           /\ ToSet(l.queue) = {l.queue[i] : i \in 1 .. Len(l.queue)}
<1>1. l.mods \in Seq(Mods) /\ l.parses \in Seq(ParseTasks) /\ l.queue \in Seq(Nat)
  BY DEF ModList
<1> QED
  BY <1>1 DEF ToSet

\* A task is aborted, perhaps.
LEMMA StoppedIs ==
    ASSUME NEW l, ModList(l), NEW mod \in Mods, NEW s, s = Stopped(l, mod)
    PROVE  /\ ModList(s) /\ s.mods = l.mods /\ s.active = l.active /\ s.queue = l.queue
           /\ Len(s.parses) = Len(l.parses)
           /\ \A t \in 1 .. Len(l.parses) :
                /\ s.parses[t].name = l.parses[t].name /\ s.parses[t].file = l.parses[t].file
                /\ s.parses[t].details = l.parses[t].details
                /\ t # mod.ticket => s.parses[t].aborted = l.parses[t].aborted
<1> DEFINE t == mod.ticket
<1>1. CASE mod.resolved \/ t \notin l.active
  BY <1>1 DEF Stopped
<1>2. CASE ~(mod.resolved \/ t \notin l.active)
  <2> DEFINE q == [l.parses EXCEPT ![t].aborted = TRUE]
  <2>1. /\ l = [mods |-> l.mods, parses |-> l.parses, active |-> l.active, queue |-> l.queue]
        /\ l.mods \in Seq(Mods) /\ l.active \in SUBSET Nat /\ l.queue \in Seq(Nat)
    BY DEF ModList
  <2>2. s = [l EXCEPT !.parses = q]
    BY <1>2, <2>1 DEF Stopped
  <2>3. /\ s = [mods |-> l.mods, parses |-> q, active |-> l.active, queue |-> l.queue]
        /\ s.mods = l.mods /\ s.parses = q /\ s.active = l.active /\ s.queue = l.queue
    BY <2>1, <2>2
  <2>4. t \in 1 .. Len(l.parses) /\ l.parses \in Seq(ParseTasks)
    BY <1>2 DEF ModList
  <2>5. l.parses[t] \in ParseTasks
    BY <2>4
  <2>6. [l.parses[t] EXCEPT !.aborted = TRUE] \in ParseTasks
    BY <2>5 DEF ParseTasks
  <2>7. q = [l.parses EXCEPT ![t] = [l.parses[t] EXCEPT !.aborted = TRUE]]
    BY <2>4
  <2>8. q \in Seq(ParseTasks) /\ Len(q) = Len(l.parses)
    BY <2>4, <2>6, <2>7
  <2>9. ASSUME NEW u \in 1 .. Len(l.parses)
        PROVE  /\ q[u].name = l.parses[u].name /\ q[u].file = l.parses[u].file
               /\ q[u].details = l.parses[u].details
               /\ u # t => q[u].aborted = l.parses[u].aborted
    <3>1. u # t => q[u] = l.parses[u]
      BY <2>4, <2>7
    <3>2. q[t] = [l.parses[t] EXCEPT !.aborted = TRUE]
      BY <2>4, <2>7
    <3> QED
      BY <2>5, <3>1, <3>2, ZenonT(40) DEF ParseTasks
  <2> HIDE DEF q
  <2>10. ModList(s)
    BY <2>1, <2>3, <2>8 DEF ModList
  <2> QED
    BY <2>3, <2>8, <2>9, <2>10
<1> QED
  BY <1>1, <1>2

\* A mod that becomes a row, and its task.
LEMMA PlacedIs ==
    ASSUME NEW l, ModList(l), NEW row \in 1 .. Len(l.mods) + 1, NEW n \in Names,
           snapshot \in [Names -> Int], NEW s, s = Placed(l, row, n)
    PROVE  /\ ModList(s)
           /\ DOMAIN s.mods = DOMAIN l.mods \cup {row}
           /\ s.mods[row] = Mod(n, snapshot[n], Len(l.parses) + 1)
           /\ \A i \in DOMAIN s.mods : i # row => s.mods[i] = l.mods[i]
           /\ Len(s.parses) = Len(l.parses) + 1 /\ s.parses[Len(l.parses) + 1] = Parse(n)
           /\ \A t \in 1 .. Len(l.parses) : s.parses[t] = l.parses[t]
           /\ s.active = l.active \cup {Len(l.parses) + 1}
           /\ s.queue = Append(l.queue, Len(l.parses) + 1)
           /\ ToSet(s.queue) = ToSet(l.queue) \cup {Len(l.parses) + 1}
<1> DEFINE t == Len(l.parses) + 1
           m == Len(l.mods)
           r == [i \in 1 .. m \cup {row} |-> IF i = row THEN Mod(n, snapshot[n], t) ELSE l.mods[i]]
<1>1. /\ l.mods \in Seq(Mods) /\ l.parses \in Seq(ParseTasks) /\ l.active \in SUBSET Nat
      /\ l.queue \in Seq(Nat) /\ l.active \subseteq 1 .. Len(l.parses)
      /\ ToSet(l.queue) \subseteq 1 .. Len(l.parses)
  BY DEF ModList
<1>2. m \in Nat /\ t \in Nat /\ Len(l.parses) \in Nat /\ DOMAIN l.mods = 1 .. m /\ t = Len(l.parses) + 1
  BY <1>1
<1>3. Mod(n, snapshot[n], t) \in Mods
  BY <1>2 DEF Mod, Mods
<1>4. Parse(n) \in ParseTasks
  BY DEF Parse, ParseTasks
<1>5. s = [mods |-> r, parses |-> Append(l.parses, Parse(n)), active |-> l.active \cup {t},
           queue |-> Append(l.queue, t)]
  BY DEF Placed
<1> HIDE DEF t
<1>6. \A i \in 1 .. m : l.mods[i] \in Mods
  BY <1>1
<1>7. r \in Seq(Mods) /\ DOMAIN r = 1 .. m \cup {row}
  <2>1. CASE row = m + 1
    <3>1. 1 .. m \cup {row} = 1 .. m + 1
      BY <1>2, <2>1
    <3>2. r \in [1 .. m + 1 -> Mods]
      BY <1>3, <1>6, <3>1
    <3>3. DOMAIN r = 1 .. m \cup {row}
      OBVIOUS
    <3>4. m + 1 \in Nat
      BY <1>2
    <3> HIDE DEF r
    <3>5. r \in Seq(Mods)
      BY <3>2, <3>4
    <3> QED
      BY <3>3, <3>5
  <2>2. CASE row # m + 1
    <3>1. 1 .. m \cup {row} = 1 .. m
      BY <1>2, <2>2
    <3>2. r \in [1 .. m -> Mods]
      BY <1>3, <1>6, <3>1
    <3>3. DOMAIN r = 1 .. m \cup {row}
      OBVIOUS
    <3>4. m \in Nat
      BY <1>2
    <3> HIDE DEF r
    <3>5. r \in Seq(Mods)
      BY <3>2, <3>4
    <3> QED
      BY <3>3, <3>5
  <2> QED
    BY <2>1, <2>2
<1>8. r[row] = Mod(n, snapshot[n], t) /\ \A i \in DOMAIN r : i # row => r[i] = l.mods[i]
  OBVIOUS
<1> HIDE DEF r, m
<1>9. /\ s.mods = r /\ s.parses = Append(l.parses, Parse(n)) /\ s.active = l.active \cup {t}
      /\ s.queue = Append(l.queue, t)
  BY <1>5
<1>10. /\ s.parses \in Seq(ParseTasks) /\ Len(s.parses) = t /\ s.parses[t] = Parse(n)
       /\ \A u \in 1 .. Len(l.parses) : s.parses[u] = l.parses[u]
  BY <1>1, <1>2, <1>4, <1>9
<1>11. s.queue \in Seq(Nat) /\ ToSet(s.queue) = ToSet(l.queue) \cup {t}
  <2>1. /\ s.queue \in Seq(Nat) /\ Len(s.queue) = Len(l.queue) + 1 /\ Len(l.queue) \in Nat
        /\ s.queue[Len(l.queue) + 1] = t /\ \A i \in 1 .. Len(l.queue) : s.queue[i] = l.queue[i]
    BY <1>1, <1>2, <1>9
  <2>2. ToSet(s.queue) = {s.queue[i] : i \in 1 .. Len(l.queue) + 1}
    BY <2>1 DEF ToSet
  <2>3. ToSet(l.queue) = {l.queue[i] : i \in 1 .. Len(l.queue)}
    BY <1>1 DEF ToSet
  <2>4. \A i \in 1 .. Len(l.queue) + 1 : i \in 1 .. Len(l.queue) \/ i = Len(l.queue) + 1
    BY <2>1
  <2>5. ToSet(s.queue) \subseteq ToSet(l.queue) \cup {t}
    BY <2>1, <2>2, <2>3, <2>4
  <2>6. Len(l.queue) + 1 \in 1 .. Len(l.queue) + 1
        /\ \A i \in 1 .. Len(l.queue) : i \in 1 .. Len(l.queue) + 1
    BY <2>1
  <2>7. ToSet(l.queue) \cup {t} \subseteq ToSet(s.queue)
    BY <2>1, <2>2, <2>3, <2>6
  <2> QED
    BY <2>1, <2>5, <2>7
<1>12. ModList(s)
  <2>1. l.active \cup {t} \subseteq 1 .. t /\ ToSet(s.queue) \subseteq 1 .. t
    BY <1>1, <1>2, <1>11
  <2>2. s \in [mods : Seq(Mods), parses : Seq(ParseTasks), active : SUBSET Nat, queue : Seq(Nat)]
    <3>1. /\ Append(l.parses, Parse(n)) \in Seq(ParseTasks) /\ Append(l.queue, t) \in Seq(Nat)
          /\ l.active \cup {t} \in SUBSET Nat
      BY <1>1, <1>2, <1>9, <1>10, <1>11
    <3> QED
      BY <1>5, <1>7, <3>1
  <2> QED
    BY <1>9, <1>10, <2>1, <2>2 DEF ModList
<1> QED
  BY <1>2, <1>7, <1>8, <1>9, <1>10, <1>11, <1>12 DEF t, m

\* A row that is removed.
LEMMA DroppedIs ==
    ASSUME NEW l, ModList(l), NEW n, places[n] \in 1 .. Len(l.mods), NEW s, s = Dropped(l, n)
    PROVE  /\ ModList(s) /\ Len(s.mods) = Len(l.mods) - 1
           /\ \A i \in 1 .. Len(l.mods) - 1 :
                s.mods[i] = IF i < places[n] THEN l.mods[i] ELSE l.mods[i + 1]
           /\ LET q == Stopped(l, l.mods[places[n]])
              IN  s.parses = q.parses /\ s.active = q.active /\ s.queue = q.queue
<1> DEFINE p == places[n]
           q == Stopped(l, l.mods[p])
           m == Len(l.mods)
           r == RemoveAt(l.mods, p)
<1>1. l.mods \in Seq(Mods) /\ m \in Nat /\ p \in 1 .. m /\ l.mods[p] \in Mods
  BY DEF ModList
<1>2. ModList(q) /\ q.mods = l.mods
  BY <1>1, StoppedIs
<1>3. s = [q EXCEPT !.mods = RemoveAt(@, p)]
  BY DEF Dropped
<1>4. r \in Seq(Mods) /\ Len(r) = m - 1 /\ \A i \in 1 .. m - 1 : r[i] = IF i < p THEN l.mods[i] ELSE l.mods[i + 1]
  <2> DEFINE x == SubSeq(l.mods, 1, p - 1)
             y == SubSeq(l.mods, p + 1, m)
  <2>1. x \in Seq(Mods) /\ Len(x) = p - 1 /\ \A i \in 1 .. p - 1 : x[i] = l.mods[i]
    BY <1>1
  <2>2. y \in Seq(Mods) /\ Len(y) = m - p /\ \A i \in 1 .. m - p : y[i] = l.mods[i + p]
    BY <1>1, SMTT(30)
  <2>3. r = x \o y
    BY DEF RemoveAt
  <2> HIDE DEF x, y, r, m, p
  <2>4. /\ r \in Seq(Mods) /\ Len(r) = Len(x) + Len(y)
        /\ \A i \in 1 .. Len(x) + Len(y) : r[i] = IF i <= Len(x) THEN x[i] ELSE y[i - Len(x)]
    BY <2>1, <2>2, <2>3, ConcatProperties
  <2>5. Len(r) = m - 1
    BY <1>1, <2>1, <2>2, <2>4
  <2>6. ASSUME NEW i \in 1 .. m - 1
        PROVE  r[i] = IF i < p THEN l.mods[i] ELSE l.mods[i + 1]
    <3>0. p \in Nat /\ i \in Nat /\ i \in 1 .. Len(x) + Len(y)
      BY <1>1, <2>1, <2>2
    <3>1. CASE i < p
      <4>1. i \in 1 .. p - 1 /\ i <= Len(x)
        BY <1>1, <2>1, <3>0, <3>1
      <4> QED
        BY <2>1, <2>4, <3>0, <3>1, <4>1
    <3>2. CASE ~(i < p)
      <4>1. i - Len(x) \in 1 .. m - p /\ (i - Len(x)) + p = i + 1 /\ ~(i <= Len(x))
        BY <1>1, <2>1, <3>0, <3>2, SMTT(30)
      <4> QED
        BY <2>2, <2>4, <3>0, <3>2, <4>1
    <3> QED
      BY <3>1, <3>2
  <2> QED
    BY <2>4, <2>5, <2>6
<1> HIDE DEF r, q, m, p
<1>5. /\ q = [mods |-> q.mods, parses |-> q.parses, active |-> q.active, queue |-> q.queue]
      /\ q.parses \in Seq(ParseTasks) /\ q.active \in SUBSET Nat /\ q.queue \in Seq(Nat)
  BY <1>2 DEF ModList
<1>6. s = [mods |-> r, parses |-> q.parses, active |-> q.active, queue |-> q.queue]
  BY <1>2, <1>3, <1>5 DEF r
<1>7. s.mods = r /\ s.parses = q.parses /\ s.active = q.active /\ s.queue = q.queue
  BY <1>6
<1>8. ModList(s)
  BY <1>2, <1>4, <1>5, <1>6, <1>7 DEF ModList
<1> QED
  BY <1>4, <1>7, <1>8 DEF q, m, p

-----------------------------------------------------------------------------
(* applyUpdates: the names of the list and its stamps. *)

\* Whether a name has a row when those of `done' have been treated.
Has(done, n) == IF n \in done THEN n \in NewSet ELSE n \in CurrentSet

\* The list when the names of `done' have been treated.
Partly(l, done) ==
    /\ ModList(l)
    /\ \A i, j \in DOMAIN l.mods : l.mods[i].name = l.mods[j].name => i = j
    /\ \A i \in DOMAIN l.mods : Has(done, l.mods[i].name)
    /\ \A n \in Names : Has(done, n) => \E i \in DOMAIN l.mods : l.mods[i].name = n
    /\ \A i \in DOMAIN l.mods : l.mods[i].name \in done => l.mods[i].stamp = snapshot[l.mods[i].name]
    /\ \A n \in CurrentSet \ done : places[n] \in DOMAIN l.mods /\ l.mods[places[n]].name = n

\* A name whose row gets a new mod, or that gets a row at the end.
LEMMA PlacedPartly ==
    ASSUME NEW l, NEW done \in SUBSET Names, Partly(l, done), snapshot \in [Names -> Int],
           NEW n \in NewSet \ done,
           NEW row, IF n \in CurrentSet THEN row = places[n] ELSE row = Len(l.mods) + 1,
           NEW q, ModList(q), q.mods = l.mods, NEW s, s = Placed(q, row, n)
    PROVE  Partly(s, done \cup {n})
<1> DEFINE d == done \cup {n}
<1>1. /\ Len(l.mods) \in Nat /\ DOMAIN l.mods = 1 .. Len(l.mods)
      /\ \A i \in DOMAIN l.mods : l.mods[i] \in Mods
  BY ListIs DEF Partly
<1>2. /\ \A i, j \in DOMAIN l.mods : l.mods[i].name = l.mods[j].name => i = j
      /\ \A i \in DOMAIN l.mods : Has(done, l.mods[i].name)
      /\ \A m \in Names : Has(done, m) => \E i \in DOMAIN l.mods : l.mods[i].name = m
      /\ \A i \in DOMAIN l.mods :
           l.mods[i].name \in done => l.mods[i].stamp = snapshot[l.mods[i].name]
      /\ \A m \in CurrentSet \ done : places[m] \in DOMAIN l.mods /\ l.mods[places[m]].name = m
  BY DEF Partly
<1>3. n \in Names /\ n \in NewSet /\ n \notin done
  BY DEF NewSet
<1>4. /\ row \in 1 .. Len(l.mods) + 1
      /\ \A i \in DOMAIN l.mods : i # row <=> l.mods[i].name # n
  <2>1. CASE n \in CurrentSet
    BY <1>1, <1>2, <1>3, <2>1
  <2>2. CASE n \notin CurrentSet
    <3>1. ~Has(done, n)
      BY <1>3, <2>2 DEF Has
    <3>2. row = Len(l.mods) + 1
      BY <2>2
    <3> QED
      BY <1>1, <1>2, <3>1, <3>2
  <2> QED
    BY <2>1, <2>2
<1>5. /\ ModList(s) /\ DOMAIN s.mods = DOMAIN l.mods \cup {row}
      /\ s.mods[row] = Mod(n, snapshot[n], Len(q.parses) + 1)
      /\ \A i \in DOMAIN s.mods : i # row => s.mods[i] = l.mods[i]
  BY <1>3, <1>4, PlacedIs
<1>6. s.mods[row].name = n /\ s.mods[row].stamp = snapshot[n]
  BY <1>5 DEF Mod
<1> HIDE DEF Mod
<1>7. \A i \in DOMAIN s.mods : i # row => i \in DOMAIN l.mods /\ s.mods[i] = l.mods[i] /\ s.mods[i].name # n
  BY <1>4, <1>5
<1>8. \A m : m # n => (Has(d, m) <=> Has(done, m))
  BY DEF Has
<1>9. Has(d, n)
  BY <1>3 DEF Has
<1>10. \A i, j \in DOMAIN s.mods : s.mods[i].name = s.mods[j].name => i = j
  BY <1>2, <1>6, <1>7
<1> HIDE DEF d
<1>11. ASSUME NEW i \in DOMAIN s.mods
       PROVE  Has(d, s.mods[i].name)
  <2>1. CASE i = row
    BY <1>6, <1>9, <2>1
  <2>2. CASE i # row
    <3>1. i \in DOMAIN l.mods /\ s.mods[i] = l.mods[i] /\ l.mods[i].name # n
      BY <1>7, <2>2
    <3>2. Has(done, l.mods[i].name)
      BY <1>2, <3>1
    <3> QED
      BY <1>8, <3>1, <3>2
  <2> QED
    BY <2>1, <2>2
<1>12. ASSUME NEW m \in Names, Has(d, m)
       PROVE  \E i \in DOMAIN s.mods : s.mods[i].name = m
  <2>1. CASE m = n
    BY <1>5, <1>6, <2>1
  <2>2. CASE m # n
    <3>1. PICK i \in DOMAIN l.mods : l.mods[i].name = m
      BY <1>2, <1>8, <1>12, <2>2
    <3>2. i \in DOMAIN s.mods /\ i # row
      BY <1>4, <1>5, <2>2, <3>1
    <3> QED
      BY <1>7, <3>1, <3>2
  <2> QED
    BY <2>1, <2>2
<1>13. \A i \in DOMAIN s.mods : s.mods[i].name \in d => s.mods[i].stamp = snapshot[s.mods[i].name]
  BY <1>2, <1>6, <1>7 DEF d
<1>14. ASSUME NEW m \in CurrentSet \ d
       PROVE  places[m] \in DOMAIN s.mods /\ s.mods[places[m]].name = m
  <2>1. places[m] \in DOMAIN l.mods /\ l.mods[places[m]].name = m /\ m # n
    BY <1>2 DEF d
  <2>2. places[m] # row /\ places[m] \in DOMAIN s.mods
    BY <1>4, <1>5, <2>1
  <2> QED
    BY <1>7, <2>1, <2>2
<1> QED
  BY <1>5, <1>10, <1>11, <1>12, <1>13, <1>14 DEF Partly, d

\* A name that goes.
LEMMA DroppedPartly ==
    ASSUME NEW l, NEW done \in SUBSET Names, Partly(l, done),
           NEW n \in (CurrentSet \ NewSet) \ done,
           \A m \in CurrentSet \ done : places[m] <= places[n],
           places \in [Names -> Nat], NEW s, s = Dropped(l, n)
    PROVE  Partly(s, done \cup {n})
<1> DEFINE d == done \cup {n}
           p == places[n]
           k == Len(l.mods)
           Old(i) == IF i < p THEN i ELSE i + 1
<1>1. k \in Nat /\ DOMAIN l.mods = 1 .. k
  BY ListIs DEF Partly
<1>2. /\ \A i, j \in DOMAIN l.mods : l.mods[i].name = l.mods[j].name => i = j
      /\ \A i \in DOMAIN l.mods : Has(done, l.mods[i].name)
      /\ \A m \in Names : Has(done, m) => \E i \in DOMAIN l.mods : l.mods[i].name = m
      /\ \A i \in DOMAIN l.mods :
           l.mods[i].name \in done => l.mods[i].stamp = snapshot[l.mods[i].name]
      /\ \A m \in CurrentSet \ done : places[m] \in DOMAIN l.mods /\ l.mods[places[m]].name = m
  BY DEF Partly
<1>3. p \in 1 .. k /\ l.mods[p].name = n
  BY <1>1, <1>2
<1>4. /\ ModList(s) /\ Len(s.mods) = k - 1
      /\ \A i \in 1 .. k - 1 : s.mods[i] = IF i < p THEN l.mods[i] ELSE l.mods[i + 1]
  BY <1>3, DroppedIs DEF Partly
<1>5. DOMAIN s.mods = 1 .. k - 1
  BY <1>4, ListIs
<1>6. \A i \in 1 .. k - 1 : Old(i) \in 1 .. k /\ Old(i) # p /\ s.mods[i] = l.mods[Old(i)]
  BY <1>1, <1>3, <1>4
<1>7. \A i, j \in 1 .. k - 1 : Old(i) = Old(j) => i = j
  BY <1>1, <1>3
<1>8. \A j \in 1 .. k : j # p => \E i \in 1 .. k - 1 : Old(i) = j
  <2>1. SUFFICES ASSUME NEW j \in 1 .. k, j # p
                 PROVE  \E i \in 1 .. k - 1 : Old(i) = j
    OBVIOUS
  <2>2. CASE j < p
    <3>1. j \in 1 .. k - 1 /\ Old(j) = j
      BY <1>1, <1>3, <2>2
    <3> QED
      BY <3>1
  <2>3. CASE ~(j < p)
    <3>1. j - 1 \in 1 .. k - 1 /\ Old(j - 1) = j
      BY <1>1, <1>3, <2>1, <2>3
    <3> QED
      BY <3>1
  <2> QED
    BY <2>2, <2>3
<1>9. \A j \in 1 .. k : j # p => l.mods[j].name # n
  BY <1>1, <1>2, <1>3
<1> HIDE DEF Old, k
<1>10. \A m : m # n => (Has(d, m) <=> Has(done, m))
  BY DEF Has
<1>11. ~Has(d, n)
  BY DEF Has
<1> HIDE DEF d
<1>12. ASSUME NEW i \in DOMAIN s.mods, NEW j \in DOMAIN s.mods, s.mods[i].name = s.mods[j].name
       PROVE  i = j
  <2>1. /\ Old(i) \in DOMAIN l.mods /\ s.mods[i] = l.mods[Old(i)]
        /\ Old(j) \in DOMAIN l.mods /\ s.mods[j] = l.mods[Old(j)]
    BY <1>1, <1>5, <1>6
  <2>2. Old(i) = Old(j)
    BY <1>2, <1>12, <2>1
  <2> QED
    BY <1>5, <1>7, <2>2
<1>13. ASSUME NEW i \in DOMAIN s.mods
       PROVE  Has(d, s.mods[i].name)
  <2>1. Old(i) \in DOMAIN l.mods /\ s.mods[i] = l.mods[Old(i)] /\ l.mods[Old(i)].name # n
    BY <1>1, <1>5, <1>6, <1>9
  <2>2. Has(done, l.mods[Old(i)].name)
    BY <1>2, <2>1
  <2> QED
    BY <1>10, <2>1, <2>2
<1>14. ASSUME NEW m \in Names, Has(d, m)
       PROVE  \E i \in DOMAIN s.mods : s.mods[i].name = m
  <2>1. m # n /\ Has(done, m)
    BY <1>10, <1>11, <1>14
  <2>2. PICK j \in DOMAIN l.mods : l.mods[j].name = m
    BY <1>2, <2>1
  <2>3. j \in 1 .. k /\ j # p
    BY <1>1, <1>3, <2>1, <2>2
  <2>4. PICK i \in 1 .. k - 1 : Old(i) = j
    BY <1>8, <2>3
  <2> QED
    BY <1>5, <1>6, <2>2, <2>4
<1>15. \A i \in DOMAIN s.mods : s.mods[i].name \in d => s.mods[i].stamp = snapshot[s.mods[i].name]
  BY <1>1, <1>2, <1>5, <1>6, <1>9, SMTT(30) DEF d
<1>16. ASSUME NEW m \in CurrentSet \ d
       PROVE  places[m] \in DOMAIN s.mods /\ s.mods[places[m]].name = m
  <2>1. places[m] \in 1 .. k /\ l.mods[places[m]].name = m /\ m # n /\ places[m] <= p
    BY <1>1, <1>2 DEF d
  <2>2. places[m] # p
    BY <1>3, <2>1
  <2>3. places[m] \in 1 .. k - 1 /\ places[m] < p
    BY <1>1, <1>3, <2>1, <2>2 DEF k
  <2> QED
    BY <1>4, <1>5, <2>1, <2>3
<1> QED
  BY <1>4, <1>12, <1>13, <1>14, <1>15, <1>16 DEF Partly, d

\* One name after the other.
LEMMA TreatedPartly ==
    ASSUME NEW l, NEW done \in SUBSET Names, Partly(l, done),
           snapshot \in [Names -> Int], places \in [Names -> Nat],
           NEW n \in (CurrentSet \cup NewSet) \ done,
           n \in NewSet \/ \A m \in CurrentSet \ done : places[m] <= places[n]
    PROVE  Partly(Treated(l, n), done \cup {n})
<1>1. ModList(l)
  BY DEF Partly
<1>2. CASE n \notin CurrentSet
  <2>1. Treated(l, n) = Placed(l, Len(l.mods) + 1, n) /\ n \in NewSet \ done
    BY <1>2 DEF Treated, Appended
  <2> QED
    BY <1>1, <1>2, <2>1, PlacedPartly
<1>3. CASE n \in CurrentSet /\ n \in NewSet
  <2> DEFINE mod == l.mods[places[n]]
             q == Stopped(l, mod)
  <2>1. places[n] \in DOMAIN l.mods /\ mod.name = n
    BY <1>3 DEF Partly
  <2>2. mod \in Mods
    BY <1>1, <2>1, ListIs
  <2>3. ModList(q) /\ q.mods = l.mods
    BY <1>1, <2>2, StoppedIs
  <2>4. CASE mod.stamp = snapshot[n]
    <3>1. Treated(l, n) = l
      BY <1>3, <2>4 DEF Treated, Renewed
    <3>2. \A i \in DOMAIN l.mods : l.mods[i].name = n => i = places[n]
      BY <2>1 DEF Partly
    <3>3. \A m : Has(done \cup {n}, m) <=> Has(done, m)
      BY <1>3 DEF Has
    <3>4. \A i \in DOMAIN l.mods : l.mods[i].name \in done \cup {n} => l.mods[i].stamp = snapshot[l.mods[i].name]
      BY <2>4, <3>2 DEF Partly
    <3> DEFINE d == done \cup {n}
    <3> HIDE DEF mod, q
    <3>5. \A m \in CurrentSet \ d : m \in CurrentSet \ done
      OBVIOUS
    <3> HIDE DEF d
    <3>6. Partly(l, d)
      BY <1>1, <3>3, <3>4, <3>5 DEF Partly, d
    <3> QED
      BY <3>1, <3>6 DEF d
  <2>5. CASE mod.stamp # snapshot[n]
    <3>1. Treated(l, n) = Placed(q, places[n], n)
      BY <1>3, <2>5 DEF Treated, Renewed
    <3> HIDE DEF q
    <3> QED
      BY <1>3, <2>3, <3>1, PlacedPartly
  <2> QED
    BY <2>4, <2>5
<1>4. CASE n \in CurrentSet /\ n \notin NewSet
  <2>1. Treated(l, n) = Dropped(l, n)
    BY <1>4 DEF Treated
  <2> QED
    BY <1>4, <2>1, DroppedPartly
<1> QED
  BY <1>2, <1>3, <1>4

-----------------------------------------------------------------------------
(* applyUpdates as a whole. *)

\* The rows are removed from the last to the first.
Descending(doomed) ==
    \A i \in DOMAIN doomed : \A j \in 1 .. i : places[doomed[j]] >= places[doomed[i]]

\* The first `k' of an order.
FirstOf(order, k) == {order[j] : j \in 1 .. k}

\* The orders in which applyUpdates may go through the names.
IsOrder(order) ==
    /\ order \in Seq(Names)
    /\ FirstOf(order, Len(order)) = CurrentSet \cup NewSet
    /\ \A k \in 1 .. Len(order) : order[k] \notin FirstOf(order, k - 1)
    /\ \A k \in 1 .. Len(order) : order[k] \in NewSet \/
         \A m \in CurrentSet \ FirstOf(order, k - 1) : places[m] <= places[order[k]]

\* Apply goes through the names in such an order.
LEMMA OrderIs ==
    ASSUME NEW kept \in SetToSeqs(CurrentSet \cap NewSet),
           NEW doomed \in SetToSeqs(CurrentSet \ NewSet),
           NEW added \in SetToSeqs(NewSet \ CurrentSet), Descending(doomed)
    PROVE  IsOrder(kept \o doomed \o added)
<1> DEFINE order == kept \o doomed \o added
           K == Len(kept)
           D == Len(doomed)
           A == Len(added)
<1>1. /\ IsFiniteSet(CurrentSet \cap NewSet) /\ IsFiniteSet(CurrentSet \ NewSet)
      /\ IsFiniteSet(NewSet \ CurrentSet)
      /\ CurrentSet \subseteq Names /\ NewSet \subseteq Names
  BY NamesListed, FS_Subset DEF CurrentSet, NewSet
<1>2. kept \in Seq(CurrentSet \cap NewSet) /\ IsInjective(kept) /\ ToSet(kept) = CurrentSet \cap NewSet
  BY <1>1, OrdersOfSet
<1>3. doomed \in Seq(CurrentSet \ NewSet) /\ IsInjective(doomed) /\ ToSet(doomed) = CurrentSet \ NewSet
  BY <1>1, OrdersOfSet
<1>4. added \in Seq(NewSet \ CurrentSet) /\ IsInjective(added) /\ ToSet(added) = NewSet \ CurrentSet
  BY <1>1, OrdersOfSet
<1>5. kept \in Seq(Names) /\ doomed \in Seq(Names) /\ added \in Seq(Names)
  BY <1>1, <1>2, <1>3, <1>4
<1>6. /\ K \in Nat /\ D \in Nat /\ A \in Nat
      /\ DOMAIN kept = 1 .. K /\ DOMAIN doomed = 1 .. D /\ DOMAIN added = 1 .. A
  BY <1>5
<1>7. /\ kept \o doomed \in Seq(Names) /\ Len(kept \o doomed) = K + D
      /\ \A i \in 1 .. K + D : (kept \o doomed)[i] = IF i <= K THEN kept[i] ELSE doomed[i - K]
  BY <1>5, ConcatProperties
<1>8. /\ order \in Seq(Names) /\ Len(order) = K + D + A
      /\ \A i \in 1 .. K + D + A :
           order[i] = IF i <= K + D THEN (kept \o doomed)[i] ELSE added[i - (K + D)]
  BY <1>5, <1>7, ConcatProperties
<1> HIDE DEF order, K, D, A
<1>9. ASSUME NEW i \in 1 .. K
      PROVE  i \in 1 .. K + D + A /\ order[i] = kept[i] /\ order[i] \in CurrentSet \cap NewSet
  <2>1. i \in 1 .. K + D /\ i \in 1 .. K + D + A /\ i <= K
    BY <1>6
  <2> QED
    BY <1>2, <1>6, <1>7, <1>8, <2>1
<1>10. ASSUME NEW i \in 1 .. D
       PROVE  K + i \in 1 .. K + D + A /\ order[K + i] = doomed[i] /\ order[K + i] \in CurrentSet \ NewSet
  <2> DEFINE k == K + i
  <2>1. /\ k \in 1 .. K + D /\ k \in 1 .. K + D + A /\ ~(k <= K) /\ k <= K + D
        /\ k - K = i
    BY <1>6
  <2> HIDE DEF k
  <2>2. order[k] = (kept \o doomed)[k]
    BY <1>8, <2>1
  <2>3. (kept \o doomed)[k] = doomed[k - K]
    BY <1>7, <2>1
  <2>4. doomed[i] \in CurrentSet \ NewSet
    BY <1>3, <1>6
  <2>5. k \in 1 .. K + D + A /\ order[k] = doomed[i] /\ order[k] \in CurrentSet \ NewSet
    BY <2>1, <2>2, <2>3, <2>4
  <2> QED
    BY <2>5 DEF k
<1>11. ASSUME NEW i \in 1 .. A
       PROVE  /\ K + D + i \in 1 .. K + D + A /\ order[K + D + i] = added[i]
              /\ order[K + D + i] \in NewSet \ CurrentSet
  <2> DEFINE k == K + D + i
  <2>1. k \in 1 .. K + D + A /\ ~(k <= K + D) /\ k - (K + D) = i
    BY <1>6
  <2> HIDE DEF k
  <2>2. order[k] = added[k - (K + D)]
    BY <1>8, <2>1
  <2>3. added[i] \in NewSet \ CurrentSet
    BY <1>4, <1>6
  <2>4. k \in 1 .. K + D + A /\ order[k] = added[i] /\ order[k] \in NewSet \ CurrentSet
    BY <2>1, <2>2, <2>3
  <2> QED
    BY <2>4 DEF k
<1>12. \A k \in 1 .. K + D + A : \/ k \in 1 .. K
                                 \/ \E i \in 1 .. D : k = K + i
                                 \/ \E i \in 1 .. A : k = K + D + i
  <2>1. SUFFICES ASSUME NEW k \in 1 .. K + D + A, ~(k \in 1 .. K)
                 PROVE  (\E i \in 1 .. D : k = K + i) \/ (\E i \in 1 .. A : k = K + D + i)
    OBVIOUS
  <2>2. k - K \in 1 .. D \/ k - (K + D) \in 1 .. A
    BY <1>6, <2>1
  <2>3. k = K + (k - K) /\ k = K + D + (k - (K + D))
    BY <1>6, <2>1
  <2> QED
    BY <2>2, <2>3
<1>13. FirstOf(order, Len(order)) = CurrentSet \cup NewSet
  <2>1. FirstOf(order, Len(order)) = {order[k] : k \in 1 .. K + D + A}
    BY <1>8 DEF FirstOf
  <2>2. \A k \in 1 .. K + D + A : order[k] \in CurrentSet \cup NewSet
    BY <1>9, <1>10, <1>11, <1>12
  <2>3. /\ \A n \in CurrentSet \cap NewSet : \E i \in 1 .. K : n = kept[i]
        /\ \A n \in CurrentSet \ NewSet : \E i \in 1 .. D : n = doomed[i]
        /\ \A n \in NewSet \ CurrentSet : \E i \in 1 .. A : n = added[i]
    BY <1>2, <1>3, <1>4, <1>6 DEF ToSet
  <2>4. ASSUME NEW n \in CurrentSet \cup NewSet
        PROVE  \E k \in 1 .. K + D + A : n = order[k]
    <3>1. CASE n \in CurrentSet \cap NewSet
      BY <1>9, <2>3, <3>1
    <3>2. CASE n \in CurrentSet \ NewSet
      BY <1>10, <2>3, <3>2
    <3>3. CASE n \in NewSet \ CurrentSet
      BY <1>11, <2>3, <3>3
    <3> QED
      BY <3>1, <3>2, <3>3
  <2> QED
    BY <2>1, <2>2, <2>4
<1>14. ASSUME NEW k \in 1 .. K + D + A, NEW j \in 1 .. K + D + A, order[k] = order[j]
       PROVE  k = j
  <2>1. CASE k \in 1 .. K
    <3>1. j \in 1 .. K
      BY <1>9, <1>10, <1>11, <1>12, <1>14, <2>1
    <3> QED
      BY <1>2, <1>6, <1>9, <1>14, <2>1, <3>1 DEF IsInjective
  <2>2. ASSUME NEW i \in 1 .. D, k = K + i
        PROVE  k = j
    <3>1. PICK h \in 1 .. D : j = K + h
      BY <1>9, <1>10, <1>11, <1>12, <1>14, <2>2
    <3>2. doomed[i] = doomed[h]
      BY <1>10, <1>14, <2>2, <3>1
    <3>3. i = h
      BY <1>3, <1>6, <3>2 DEF IsInjective
    <3> QED
      BY <2>2, <3>1, <3>3
  <2>3. ASSUME NEW i \in 1 .. A, k = K + D + i
        PROVE  k = j
    <3>1. PICK h \in 1 .. A : j = K + D + h
      BY <1>9, <1>10, <1>11, <1>12, <1>14, <2>3
    <3>2. added[i] = added[h]
      BY <1>11, <1>14, <2>3, <3>1
    <3>3. i = h
      BY <1>4, <1>6, <3>2 DEF IsInjective
    <3> QED
      BY <2>3, <3>1, <3>3
  <2> QED
    BY <1>12, <2>1, <2>2, <2>3
<1>15. ASSUME NEW k \in 1 .. K + D + A
       PROVE  order[k] \notin FirstOf(order, k - 1)
  <2>1. \A j \in 1 .. k - 1 : j \in 1 .. K + D + A /\ j # k
    BY <1>6
  <2> QED
    BY <1>14, <2>1 DEF FirstOf
<1>16. ASSUME NEW k \in 1 .. K + D + A, order[k] \notin NewSet,
              NEW m \in CurrentSet \ FirstOf(order, k - 1)
       PROVE  places[m] <= places[order[k]]
  <2>1. PICK i \in 1 .. D : k = K + i
    BY <1>9, <1>11, <1>12, <1>16
  <2>2. m \notin NewSet
    <3>1. SUFFICES ASSUME m \in NewSet
                   PROVE  FALSE
      OBVIOUS
    <3>2. PICK h \in 1 .. K : m = kept[h]
      BY <1>2, <1>6, <3>1 DEF ToSet
    <3>3. h \in 1 .. k - 1 /\ m = order[h]
      BY <1>6, <1>9, <2>1, <3>2
    <3> QED
      BY <3>3 DEF FirstOf
  <2>3. PICK h \in 1 .. D : m = doomed[h]
    BY <1>3, <1>6, <2>2 DEF ToSet
  <2>4. ~(K + h \in 1 .. k - 1)
    BY <1>10, <2>3 DEF FirstOf
  <2>5. i \in 1 .. h
    BY <1>6, <2>1, <2>4
  <2>6. places[doomed[i]] >= places[doomed[h]]
    BY <1>6, <2>5 DEF Descending
  <2>7. order[k] = doomed[i] /\ k \in 1 .. K + D + A
    BY <1>10, <2>1
  <2>8. \A x, y : x >= y => y <= x
    OBVIOUS
  <2> QED
    BY <2>3, <2>6, <2>7, <2>8
<1> QED
  BY <1>8, <1>13, <1>15, <1>16 DEF IsOrder, order

\* After each name the list is as it should be.
LEMMA InTurnPartly ==
    ASSUME FolderTypes, PlacesTrue, NEW order, IsOrder(order)
    PROVE  \A k \in 0 .. Len(order) : Partly(TreatedInTurn(order)[k], FirstOf(order, k))
<1> DEFINE T == TreatedInTurn(order)
           Good == {k \in Nat : k <= Len(order) => Partly(T[k], FirstOf(order, k))}
<1>1. /\ Len(order) \in Nat /\ snapshot \in [Names -> Int] /\ places \in [Names -> Nat]
      /\ ModList(Now) /\ \A k \in 1 .. Len(order) : order[k] \in Names
  BY DEF FolderTypes, IsOrder
<1>2. T = [k \in 0 .. Len(order) |-> IF k = 0 THEN Now ELSE Treated(T[k - 1], order[k])]
  BY <1>1, TreatedIs
<1> HIDE DEF T
<1>3. Partly(T[0], FirstOf(order, 0))
  <2>1. T[0] = Now /\ FirstOf(order, 0) = {}
    BY <1>1, <1>2 DEF FirstOf
  <2>2. DOMAIN mods = 1 .. Len(mods) /\ \A i \in DOMAIN mods : mods[i] \in Mods
    BY <1>1, ListIs DEF Now
  <2>3. \A n : Has({}, n) <=> n \in Names /\ places[n] # 0
    BY DEF Has, CurrentSet
  <2>4. \A i \in DOMAIN mods : mods[i].name \in Names /\ i # 0 /\ places[mods[i].name] = i
    BY <2>2 DEF PlacesTrue, Mods
  <2>5. \A n \in Names : places[n] # 0 => places[n] \in DOMAIN mods /\ mods[places[n]].name = n
    BY DEF PlacesTrue
  <2>6. \A i, j \in DOMAIN mods : mods[i].name = mods[j].name => i = j
    BY <2>4
  <2>7. \A n \in CurrentSet : places[n] \in DOMAIN mods /\ mods[places[n]].name = n
    BY <2>5 DEF CurrentSet
  <2>8. Now.mods = mods
    BY DEF Now
  <2>9. Partly(Now, {})
    BY <1>1, <2>3, <2>4, <2>5, <2>6, <2>7, <2>8 DEF Partly
  <2> QED
    BY <2>1, <2>9
<1>4. ASSUME NEW k \in Nat, k \in Good
      PROVE  k + 1 \in Good
  <2>1. SUFFICES ASSUME k + 1 <= Len(order)
                 PROVE  Partly(T[k + 1], FirstOf(order, k + 1))
    OBVIOUS
  <2> DEFINE n == order[k + 1]
             done == FirstOf(order, k)
  <2>2. k \in 0 .. Len(order) /\ k + 1 \in 1 .. Len(order) /\ k + 1 \in 0 .. Len(order) /\ k + 1 - 1 = k
        /\ k + 1 # 0
    BY <1>1, <2>1
  <2>3. Partly(T[k], done)
    BY <1>1, <1>4, <2>1
  <2>4. T[k + 1] = Treated(T[k], n)
    BY <1>2, <2>2
  <2>5. FirstOf(order, k + 1) = done \cup {n}
    <3>1. \A j : j \in 1 .. k + 1 <=> j \in 1 .. k \/ j = k + 1
      BY <2>2
    <3> QED
      BY <3>1 DEF FirstOf
  <2>6. done \in SUBSET Names
    BY <1>1, <2>2 DEF FirstOf
  <2>7. n \in FirstOf(order, Len(order))
    BY <2>2 DEF FirstOf
  <2>8. n \in (CurrentSet \cup NewSet) \ done
        /\ (n \in NewSet \/ \A m \in CurrentSet \ done : places[m] <= places[n])
    BY <2>2, <2>7 DEF IsOrder
  <2> HIDE DEF n, done
  <2> QED
    BY <1>1, <2>3, <2>4, <2>5, <2>6, <2>8, TreatedPartly
<1>5. 0 \in Good
  BY <1>3
<1> HIDE DEF Good
<1>6. Nat \subseteq Good
  BY <1>4, <1>5, Induction
<1> QED
  BY <1>1, <1>6 DEF Good, T

\* The index of a list in which no two rows have one name.
LEMMA IndexedIs ==
    ASSUME NEW s, Len(s) \in Nat, DOMAIN s = 1 .. Len(s),
           \A i \in DOMAIN s : s[i].name \in Names,
           \A i, j \in DOMAIN s : s[i].name = s[j].name => i = j
    PROVE  /\ Indexed(s) \in [Names -> Nat]
           /\ \A i \in DOMAIN s : Indexed(s)[s[i].name] = i
           /\ \A n \in Names : Indexed(s)[n] # 0 =>
                Indexed(s)[n] \in DOMAIN s /\ s[Indexed(s)[n]].name = n
<1> DEFINE Rows(n) == {i \in DOMAIN s : s[i].name = n}
<1>1. \A x \in Nat : Max({0} \cup {x}) = x
  BY DEF Max
<1>2. Max({0} \cup {}) = 0
  BY DEF Max
<1>3. \A n \in Names : Indexed(s)[n] = Max({0} \cup Rows(n))
  BY DEF Indexed
<1>4. ASSUME NEW i \in DOMAIN s
      PROVE  Indexed(s)[s[i].name] = i
  <2>1. Rows(s[i].name) = {i}
    OBVIOUS
  <2>2. i \in Nat
    OBVIOUS
  <2> HIDE DEF Rows
  <2> QED
    BY <1>1, <1>3, <2>1, <2>2
<1>5. ASSUME NEW n \in Names
      PROVE  \/ Indexed(s)[n] = 0
             \/ Indexed(s)[n] \in DOMAIN s /\ s[Indexed(s)[n]].name = n
  <2>1. CASE Rows(n) = {}
    <3> HIDE DEF Rows
    <3> QED
      BY <1>2, <1>3, <2>1
  <2>2. CASE Rows(n) # {}
    <3>1. PICK i \in DOMAIN s : s[i].name = n
      BY <2>2
    <3> QED
      BY <1>4, <3>1
  <2> QED
    BY <2>1, <2>2
<1>6. \A n \in Names : Indexed(s)[n] \in Nat
  BY <1>5
<1>7. DOMAIN Indexed(s) = Names
  BY DEF Indexed
<1>8. Indexed(s) = [n \in Names |-> Indexed(s)[n]]
  BY DEF Indexed
<1> HIDE DEF Rows
<1>9. Indexed(s) \in [Names -> Nat]
  BY <1>6, <1>7, <1>8
<1> QED
  BY <1>4, <1>5, <1>9

\* What an update has done to the list, in some order.
LEMMA ApplyIs ==
    ASSUME FolderTypes, PlacesTrue, Apply
    PROVE  \E order : /\ IsOrder(order) /\ Now' = TreatedInTurn(order)[Len(order)]
                      /\ places' = Indexed(mods')
<1>1. PICK kept \in SetToSeqs(CurrentSet \cap NewSet), doomed \in SetToSeqs(CurrentSet \ NewSet),
           added \in SetToSeqs(NewSet \ CurrentSet) :
        LET order  == kept \o doomed \o added
            listed == TreatedInTurn(order)[Len(order)]
        IN  /\ Descending(doomed)
            /\ mods' = listed.mods /\ places' = Indexed(listed.mods)
            /\ parses' = listed.parses /\ active' = listed.active /\ queue' = listed.queue
  BY DEF Apply, Descending
<1> DEFINE order == kept \o doomed \o added
           listed == TreatedInTurn(order)[Len(order)]
<1>2. IsOrder(order)
  BY <1>1, OrderIs
<1>3. /\ mods' = listed.mods /\ places' = Indexed(listed.mods)
      /\ parses' = listed.parses /\ active' = listed.active /\ queue' = listed.queue
  BY <1>1
<1> HIDE DEF order
<1>4. Len(order) \in Nat /\ Len(order) \in 0 .. Len(order)
  BY <1>2 DEF IsOrder
<1>5. ModList(listed)
  BY <1>2, <1>4, InTurnPartly DEF Partly
<1> HIDE DEF listed
<1>6. listed = [mods |-> listed.mods, parses |-> listed.parses, active |-> listed.active,
                queue |-> listed.queue]
  BY <1>5 DEF ModList
<1>7. Now' = listed
  BY <1>3, <1>6 DEF Now
<1> QED
  BY <1>2, <1>3, <1>7 DEF listed

\* It shows what the update has found.
LEMMA ApplyShows ==
    ASSUME FolderTypes, PlacesTrue, Apply, UNCHANGED snapshot
    PROVE  /\ ModList(Now)' /\ places' \in [Names -> Nat]
           /\ PlacesTrue' /\ Shows(snapshot)'
<1>1. PICK order : /\ IsOrder(order) /\ Now' = TreatedInTurn(order)[Len(order)]
                   /\ places' = Indexed(mods')
  BY ApplyIs
<1> DEFINE done == FirstOf(order, Len(order))
<1>2. Len(order) \in Nat /\ Len(order) \in 0 .. Len(order) /\ done = CurrentSet \cup NewSet
  BY <1>1 DEF IsOrder
<1> HIDE DEF done
<1>3. Partly(Now', done)
  BY <1>1, <1>2, InTurnPartly DEF done
<1>4. Now'.mods = mods'
  BY DEF Now
<1>5. ModList(Now')
  BY <1>3 DEF Partly
<1>6. /\ Len(mods') \in Nat /\ DOMAIN mods' = 1 .. Len(mods')
      /\ \A i \in DOMAIN mods' : mods'[i].name \in Names
  BY <1>4, <1>5, ListIs DEF Mods
<1>7. /\ \A i, j \in DOMAIN mods' : mods'[i].name = mods'[j].name => i = j
      /\ \A i \in DOMAIN mods' : Has(done, mods'[i].name)
      /\ \A n \in Names : Has(done, n) => \E i \in DOMAIN mods' : mods'[i].name = n
      /\ \A i \in DOMAIN mods' : mods'[i].name \in done => mods'[i].stamp = snapshot[mods'[i].name]
  BY <1>3, <1>4 DEF Partly
<1>8. \A n : Has(done, n) <=> n \in NewSet
  BY <1>2 DEF Has
<1>9. /\ places' \in [Names -> Nat]
      /\ \A i \in DOMAIN mods' : places'[mods'[i].name] = i
      /\ \A n \in Names : places'[n] # 0 => places'[n] \in DOMAIN mods' /\ mods'[places'[n]].name = n
  BY <1>1, <1>6, <1>7, IndexedIs
<1>10. PlacesTrue'
  BY <1>9 DEF PlacesTrue
<1>11. ASSUME NEW n \in Names
       PROVE  IF snapshot[n] = None THEN places'[n] = 0
              ELSE /\ places'[n] \in DOMAIN mods'
                   /\ mods'[places'[n]].name = n /\ mods'[places'[n]].stamp = snapshot[n]
  <2>1. CASE snapshot[n] = None
    <3>1. ~Has(done, n)
      BY <1>8, <2>1 DEF NewSet
    <3>2. places'[n] # 0 => Has(done, n)
      BY <1>7, <1>9
    <3> QED
      BY <2>1, <3>1, <3>2
  <2>2. CASE snapshot[n] # None
    <3>1. Has(done, n) /\ n \in done
      BY <1>2, <1>8, <2>2 DEF NewSet
    <3>2. PICK i \in DOMAIN mods' : mods'[i].name = n
      BY <1>7, <3>1
    <3> QED
      BY <1>7, <1>9, <2>2, <3>1, <3>2
  <2> QED
    BY <2>1, <2>2
<1>12. Shows(snapshot)'
  BY <1>11 DEF Shows
<1>13. ModList(Now)'
  BY <1>5
<1> QED
  BY <1>9, <1>10, <1>12, <1>13

-----------------------------------------------------------------------------
(* ListIsTrue: the steps. *)

\* At first nothing is listed, watched or under way.
LEMMA InitFolder ==
    ASSUME FolderInit
    PROVE  FolderTypes /\ PlacesTrue /\ UpdateInOrder /\ NothingForgotten
<1>1. disk \in [Names -> Nat]
  <2>1. \A n \in Names : (CHOOSE k \in DOMAIN Order : Order[k] = n) \in Nat
    BY NamesListed
  <2> QED
    BY <2>1 DEF FolderInit, None
<1>2. snapshot \in [Names -> Int]
  BY <1>1 DEF FolderInit
<1>3. /\ mods = <<>> /\ parses = <<>> /\ queue = <<>> /\ posted = <<>> /\ active = {}
      /\ DOMAIN mods = {} /\ DOMAIN posted = {} /\ ToSet(queue) = {}
  BY DEF FolderInit, ToSet
<1>4. ModList(Now)
  BY <1>3 DEF Now, ModList
<1>5. /\ unread \subseteq Names /\ touched \in BOOLEAN /\ watching \in BOOLEAN /\ again \in BOOLEAN
      /\ update \in {"None", "Made", "Reading", "Posted"} /\ places \in [Names -> Nat]
      /\ changes \in Nat
  BY DEF FolderInit
<1>6. posted \in Seq(Events)
  BY <1>3
<1>7. FolderTypes
  BY <1>1, <1>2, <1>4, <1>5, <1>6 DEF FolderTypes
<1>8. PlacesTrue /\ UpdateInOrder /\ NothingForgotten
  BY <1>3 DEF PlacesTrue, UpdateInOrder, NothingForgotten, Waits, FolderInit
<1> QED
  BY <1>7, <1>8

\* update() makes an update or has one made later.
LEMMA UpdateIs ==
    ASSUME FolderTypes, Update
    PROVE  /\ snapshot' = snapshot /\ unread' = unread
           /\ update' \in {"None", "Made", "Reading", "Posted"} /\ again' \in BOOLEAN
           /\ update' = "Posted" <=> update = "Posted"
           /\ again' \/ update' = "Made"
  BY DEF FolderTypes, Update

\* Rows keep their names and stamps.
LEMMA RowsKept ==
    ASSUME places' = places, DOMAIN mods' = DOMAIN mods,
           \A i \in DOMAIN mods : mods'[i].name = mods[i].name /\ mods'[i].stamp = mods[i].stamp
    PROVE  /\ PlacesTrue => PlacesTrue'
           /\ disk' = disk /\ Shows(disk) => Shows(disk)'
<1>1. PlacesTrue => PlacesTrue'
  BY DEF PlacesTrue
<1>2. disk' = disk /\ Shows(disk) => Shows(disk)'
  BY DEF Shows
<1> QED
  BY <1>1, <1>2

\* Whoever announces no change and makes no update leaves what was read as it is.
LEMMA ForgottenKept ==
    ASSUME NothingForgotten, UNCHANGED <<disk, update, unread, snapshot, again>>,
           watching' /\ ~touched' => watching /\ ~touched,
           Shows(disk) => Shows(disk)', Waits("Updated")' <=> Waits("Updated")
    PROVE  NothingForgotten'
  BY DEF NothingForgotten

\* A change of the folder while it is watched, or another update to make, excuses everything.
LEMMA Excused ==
    ASSUME ~(watching' /\ ~touched' /\ ~again') \/ update' = "Made"
    PROVE  NothingForgotten'
  BY DEF NothingForgotten

\* The events after the first, and what follows them.
LEMMA EventsAre ==
    ASSUME posted \in Seq(Events), posted # <<>>, NEW more \in Seq(Events),
           posted' = Tail(posted) \o more
    PROVE  /\ posted' \in Seq(Events)
           /\ Len(posted) \in Nat /\ 1 \in 1 .. Len(posted) /\ Len(more) \in Nat
           /\ DOMAIN posted = 1 .. Len(posted) /\ DOMAIN more = 1 .. Len(more)
           /\ DOMAIN posted' = 1 .. Len(posted) - 1 + Len(more)
           /\ \A i \in 1 .. Len(posted) - 1 : i \in DOMAIN posted' /\ posted'[i] = posted[i + 1]
           /\ \A i \in 1 .. Len(more) : /\ Len(posted) - 1 + i \in DOMAIN posted'
                                        /\ posted'[Len(posted) - 1 + i] = more[i]
           /\ \A i \in DOMAIN posted' : i \in 1 .. Len(posted) - 1 \/
                \E j \in 1 .. Len(more) : i = Len(posted) - 1 + j
<1> DEFINE x == Tail(posted)
           n == Len(posted)
           m == Len(more)
<1>1. n \in Nat /\ n >= 1 /\ DOMAIN posted = 1 .. n /\ m \in Nat /\ DOMAIN more = 1 .. m
  BY EmptySeq
<1>2. x \in Seq(Events) /\ Len(x) = n - 1 /\ \A i \in 1 .. n - 1 : x[i] = posted[i + 1]
  BY <1>1
<1> HIDE DEF x, n, m
<1>3. /\ posted' \in Seq(Events) /\ Len(posted') = n - 1 + m
      /\ \A i \in 1 .. n - 1 + m : posted'[i] = IF i <= n - 1 THEN x[i] ELSE more[i - (n - 1)]
  BY <1>2, ConcatProperties DEF x, m
<1>4. DOMAIN posted' = 1 .. n - 1 + m
  BY <1>3
<1>5. ASSUME NEW i \in 1 .. n - 1
      PROVE  i \in DOMAIN posted' /\ posted'[i] = posted[i + 1]
  <2>1. i \in 1 .. n - 1 + m /\ i <= n - 1
    BY <1>1
  <2> QED
    BY <1>2, <1>3, <1>4, <2>1
<1>6. ASSUME NEW i \in 1 .. m
      PROVE  n - 1 + i \in DOMAIN posted' /\ posted'[n - 1 + i] = more[i]
  <2> DEFINE k == n - 1 + i
  <2>1. k \in 1 .. n - 1 + m /\ ~(k <= n - 1) /\ k - (n - 1) = i
    BY <1>1
  <2> HIDE DEF k
  <2>2. k \in DOMAIN posted' /\ posted'[k] = more[i]
    BY <1>3, <1>4, <2>1
  <2> QED
    BY <2>2 DEF k
<1>7. ASSUME NEW i \in 1 .. n - 1 + m
      PROVE  i \in 1 .. n - 1 \/ \E j \in 1 .. m : i = n - 1 + j
  <2>1. i \in 1 .. n - 1 \/ i - (n - 1) \in 1 .. m
    BY <1>1
  <2>2. i = n - 1 + (i - (n - 1))
    BY <1>1
  <2> QED
    BY <2>1, <2>2
<1>8. posted' \in Seq(Events) /\ 1 \in 1 .. n
  BY <1>1, <1>3
<1>9. \A i \in DOMAIN posted' : i \in 1 .. n - 1 \/ \E j \in 1 .. m : i = n - 1 + j
  BY <1>4, <1>7
<1> QED
  BY <1>1, <1>4, <1>5, <1>6, <1>8, <1>9 DEF n, m

\* The events that an update ends with.
Ends(kind) == kind \in {"Updated", "Over"}

\* Events that have nothing to do with updates.
LEMMA OtherEvents ==
    ASSUME posted \in Seq(Events), posted # <<>>, ~Ends(posted[1].kind),
           NEW more \in Seq(Events), \A i \in DOMAIN more : ~Ends(more[i].kind),
           posted' = Tail(posted) \o more, UpdateInOrder, update' = update
    PROVE  UpdateInOrder' /\ (Waits("Updated")' <=> Waits("Updated"))
<1> DEFINE n == Len(posted)
           m == Len(more)
<1>0. n \in Nat /\ 1 \in 1 .. n /\ m \in Nat
  BY EventsAre
<1>1. /\ n \in Nat /\ n >= 1 /\ m \in Nat /\ DOMAIN posted = 1 .. n /\ DOMAIN more = 1 .. m
      /\ DOMAIN posted' = 1 .. n - 1 + m
      /\ \A i \in 1 .. n - 1 : i \in DOMAIN posted' /\ posted'[i] = posted[i + 1]
      /\ \A i \in 1 .. m : posted'[n - 1 + i] = more[i]
      /\ \A i \in DOMAIN posted' : i \in 1 .. n - 1 \/ \E j \in 1 .. m : i = n - 1 + j
  <2>1. n >= 1
    BY <1>0
  <2> QED
    BY <1>0, <2>1, EventsAre
<1> HIDE DEF n, m
<1>2. ASSUME NEW i \in DOMAIN posted', Ends(posted'[i].kind)
      PROVE  i \in 1 .. n - 1 /\ i + 1 \in 1 .. n /\ posted'[i] = posted[i + 1]
  <2>1. ASSUME NEW j \in 1 .. m, i = n - 1 + j
        PROVE  FALSE
    <3>1. posted'[i] = more[j] /\ j \in DOMAIN more
      BY <1>1, <2>1
    <3> QED
      BY <1>2, <3>1
  <2>2. i \in 1 .. n - 1
    BY <1>1, <2>1
  <2>3. i + 1 \in 1 .. n
    BY <1>0, <2>2
  <2> QED
    BY <1>1, <2>2, <2>3
<1>3. ASSUME NEW i \in DOMAIN posted, Ends(posted[i].kind)
      PROVE  i - 1 \in 1 .. n - 1 /\ i - 1 \in DOMAIN posted' /\ posted'[i - 1] = posted[i]
  <2>1. i # 1
    BY <1>3
  <2>2. i \in 1 .. n
    BY <1>1
  <2>3. i - 1 \in 1 .. n - 1 /\ i - 1 + 1 = i
    BY <1>0, <2>1, <2>2
  <2> QED
    BY <1>1, <2>3
<1>4. Ends("Updated") /\ Ends("Over")
  BY DEF Ends
<1>5. \A kind \in {"Updated", "Over"} : Waits(kind)' <=> Waits(kind)
  <2>1. SUFFICES ASSUME NEW kind \in {"Updated", "Over"}
                 PROVE  Waits(kind)' <=> Waits(kind)
    OBVIOUS
  <2>2. ASSUME NEW i \in DOMAIN posted', posted'[i].kind = kind
        PROVE  \E j \in DOMAIN posted : posted[j].kind = kind
    <3>1. Ends(posted'[i].kind)
      BY <1>4, <2>2
    <3> QED
      BY <1>1, <1>2, <2>2, <3>1
  <2>3. ASSUME NEW i \in DOMAIN posted, posted[i].kind = kind
        PROVE  \E j \in DOMAIN posted' : posted'[j].kind = kind
    <3>1. Ends(posted[i].kind)
      BY <1>4, <2>3
    <3> QED
      BY <1>3, <2>3, <3>1
  <2> QED
    BY <2>2, <2>3 DEF Waits
<1>6. ASSUME NEW i \in DOMAIN posted', NEW j \in DOMAIN posted',
             posted'[i].kind = "Over", posted'[j].kind = "Over"
      PROVE  i = j
  <2>1. /\ i \in 1 .. n - 1 /\ i + 1 \in DOMAIN posted /\ posted[i + 1].kind = "Over"
        /\ j \in 1 .. n - 1 /\ j + 1 \in DOMAIN posted /\ posted[j + 1].kind = "Over"
    BY <1>1, <1>2, <1>4, <1>6
  <2>2. i + 1 = j + 1
    BY <2>1 DEF UpdateInOrder
  <2> QED
    BY <1>1, <2>1, <2>2
<1>7. ASSUME NEW i \in DOMAIN posted', posted'[i].kind = "Updated"
      PROVE  i + 1 \in DOMAIN posted' /\ posted'[i + 1].kind = "Over"
  <2>1. i \in 1 .. n - 1 /\ i + 1 \in DOMAIN posted /\ posted[i + 1].kind = "Updated"
    BY <1>1, <1>2, <1>4, <1>7
  <2>2. (i + 1) + 1 \in 1 .. n /\ posted[(i + 1) + 1].kind = "Over"
    BY <1>1, <2>1 DEF UpdateInOrder
  <2>3. i + 1 \in 1 .. n - 1
    BY <1>1, <2>1, <2>2
  <2>4. posted'[i + 1] = posted[(i + 1) + 1] /\ i + 1 \in DOMAIN posted'
    BY <1>1, <2>3
  <2> QED
    BY <2>2, <2>4
<1>8. UpdateInOrder'
  BY <1>5, <1>6, <1>7 DEF UpdateInOrder
<1> QED
  BY <1>5, <1>8

\* A free name of the spare ones.
LEMMA FreeIs ==
    ASSUME NEW n \in DOMAIN Spares, NEW name \in FirstFree(Spares[n])
    PROVE  name \in Names /\ name \in ToSet(Spares[n]) /\ disk[name] = None
<1>1. name \in ToSet(Spares[n]) /\ disk[name] = None
  BY DEF FirstFree, ToSet
<1> QED
  BY <1>1, FolderAssumption

\* What the pool thread does with one file.
LEMMA ReadIs ==
    ASSUME FolderTypes, Read
    PROVE  \E n \in unread, name \in Names :
             /\ unread' = unread \ {n} /\ n \in Names
             /\ snapshot' = [snapshot EXCEPT ![name] = IF @ # None THEN @
                                                      ELSE IF disk[n] = None THEN Invalid
                                                      ELSE disk[n]]
             /\ \/ name = n /\ disk' = disk
                \/ /\ name # n \/ disk[n] = None
                   /\ n \in DOMAIN Spares /\ name \in ToSet(Spares[n]) /\ disk[name] = None
                   /\ disk' = [disk EXCEPT ![n] = None, ![name] = disk[n]]
             /\ touched' = (touched \/ (watching /\ disk' # disk))
             /\ update = "Reading"
             /\ UNCHANGED <<changes, update, again, watching, listVars, parseVars, resolverVars,
                            posted, astray, switches>>
<1>1. PICK k \in DOMAIN Order :
        LET n    == Order[k]
            twin == n \in DOMAIN Spares /\ disk[Toggled[n]] # None
        IN  /\ update = "Reading" /\ n \in unread
            /\ unread' = unread \ {n}
            /\ \E name \in IF twin THEN FirstFree(Spares[n]) ELSE {n} :
                  /\ snapshot' = [snapshot EXCEPT ![name] = IF @ # None THEN @
                                                           ELSE IF disk[n] = None THEN Invalid
                                                           ELSE disk[n]]
                  /\ disk' = [disk EXCEPT ![n] = IF twin THEN None ELSE @, ![name] = disk[n]]
            /\ touched' = (touched \/ (watching /\ disk' # disk))
            /\ UNCHANGED <<changes, update, again, watching, listVars, parseVars, resolverVars,
                           posted, astray, switches>>
  BY DEF Read
<1> DEFINE n    == Order[k]
           twin == n \in DOMAIN Spares /\ disk[Toggled[n]] # None
<1>2. PICK name \in IF twin THEN FirstFree(Spares[n]) ELSE {n} :
        /\ snapshot' = [snapshot EXCEPT ![name] = IF @ # None THEN @
                                                 ELSE IF disk[n] = None THEN Invalid ELSE disk[n]]
        /\ disk' = [disk EXCEPT ![n] = IF twin THEN None ELSE @, ![name] = disk[n]]
  BY <1>1
<1>3. n \in unread /\ n \in Names /\ disk \in [Names -> Nat]
  BY <1>1 DEF FolderTypes
<1>4. CASE twin
  <2>1. name \in FirstFree(Spares[n]) /\ n \in DOMAIN Spares
    BY <1>2, <1>4
  <2>2. name \in Names /\ name \in ToSet(Spares[n]) /\ disk[name] = None
    BY <2>1, FreeIs
  <2>3. disk' = [disk EXCEPT ![n] = None, ![name] = disk[n]]
    BY <1>2, <1>4
  <2> HIDE DEF twin, n
  <2> QED
    BY <1>1, <1>2, <1>3, <2>1, <2>2, <2>3 DEF n
<1>5. CASE ~twin
  <2>1. name = n
    BY <1>2, <1>5
  <2>2. disk' = disk
    BY <1>2, <1>3, <1>5, <2>1
  <2> HIDE DEF twin, n
  <2> QED
    BY <1>1, <1>2, <1>3, <2>1, <2>2 DEF n
<1> QED
  BY <1>4, <1>5

\* The pool thread looks at a file: types, and what has been read so far is the folder.
LEMMA ReadFolder ==
    ASSUME FolderTypes, NothingForgotten, Read
    PROVE  FolderTypes' /\ NothingForgotten'
<1>1. PICK n \in unread, name \in Names :
             /\ unread' = unread \ {n} /\ n \in Names
             /\ snapshot' = [snapshot EXCEPT ![name] = IF @ # None THEN @
                                                      ELSE IF disk[n] = None THEN Invalid
                                                      ELSE disk[n]]
             /\ \/ name = n /\ disk' = disk
                \/ /\ name # n \/ disk[n] = None
                   /\ n \in DOMAIN Spares /\ name \in ToSet(Spares[n]) /\ disk[name] = None
                   /\ disk' = [disk EXCEPT ![n] = None, ![name] = disk[n]]
             /\ touched' = (touched \/ (watching /\ disk' # disk))
             /\ update = "Reading"
             /\ UNCHANGED <<changes, update, again, watching, listVars, parseVars, resolverVars,
                            posted, astray, switches>>
  BY ReadIs
<1>2. disk \in [Names -> Nat] /\ snapshot \in [Names -> Int] /\ unread \subseteq Names
      /\ touched \in BOOLEAN /\ watching \in BOOLEAN
  BY DEF FolderTypes
<1>3. disk' \in [Names -> Nat] /\ snapshot' \in [Names -> Int] /\ unread' \subseteq Names
      /\ touched' \in BOOLEAN
  <2>1. 0 \in Nat /\ -1 \in Int
    OBVIOUS
  <2> QED
    BY <1>1, <1>2, <2>1 DEF None, Invalid
<1>4. Now' = Now
  BY <1>1 DEF Now, listVars, parseVars, resolverVars
<1>5. ModList(Now')
  BY <1>4 DEF FolderTypes
<1>6. FolderTypes'
  BY <1>1, <1>3, <1>5 DEF FolderTypes, listVars
<1>7. NothingForgotten'
  <2>1. SUFFICES ASSUME watching', ~touched', ~again'
                 PROVE  \A m \in Names : IF m \in unread' THEN snapshot'[m] = None /\ disk'[m] # None
                                         ELSE snapshot'[m] = disk'[m]
    BY <1>1 DEF NothingForgotten
  <2>2. \A m \in Names : IF m \in unread THEN snapshot[m] = None /\ disk[m] # None
                         ELSE snapshot[m] = disk[m]
    BY <1>1, <2>1 DEF NothingForgotten
  <2>3. disk' = disk
    BY <1>1, <2>1
  <2>4. disk[n] # None
    BY <1>1, <2>2
  <2>5. ASSUME name # n, disk' = [disk EXCEPT ![n] = None, ![name] = disk[n]]
        PROVE  FALSE
    <3>1. disk'[n] = None
      BY <1>1, <1>2, <2>5
    <3> QED
      BY <2>3, <2>4, <3>1
  <2>6. name = n
    BY <1>1, <2>4, <2>5
  <2>7. snapshot' = [snapshot EXCEPT ![n] = disk[n]]
    BY <1>1, <2>2, <2>4, <2>6
  <2> QED
    BY <1>1, <1>2, <2>2, <2>3, <2>7
<1> QED
  BY <1>6, <1>7

\* What enabling or disabling a mod does.
LEMMA ToggleIs ==
    ASSUME FolderTypes, NEW row \in DOMAIN mods, Toggle(row)
    PROVE  /\ mods[row].name \in DOMAIN Toggled /\ disk[mods[row].name] # None
           /\ \E name \in Names :
                /\ \/ name = Toggled[mods[row].name]
                   \/ /\ Toggled[mods[row].name] \in DOMAIN Spares
                      /\ name \in ToSet(Spares[Toggled[mods[row].name]])
                /\ disk[name] = None
                /\ ChangedTo([disk EXCEPT ![mods[row].name] = None, ![name] = disk[mods[row].name]])
                /\ DOMAIN mods' = DOMAIN mods /\ mods'[row] \in Mods
                /\ mods'[row].name = name /\ mods'[row].stamp = disk[mods[row].name]
                /\ mods'[row].ticket = mods[row].ticket /\ mods'[row].resolved = mods[row].resolved
                /\ mods'[row].details = mods[row].details
                /\ mods'[row].sure => /\ mods[row].sure /\ mods[row].stamp = disk[mods[row].name]
                                      /\ \A t \in active :
                                           parses[t].name \notin {mods[row].name, name}
                /\ \A i \in DOMAIN mods : i # row => mods'[i] = mods[i]
                /\ mods' \in Seq(Mods)
                /\ places' = [places EXCEPT ![mods[row].name] = 0, ![name] = row]
                /\ parses' = [parses EXCEPT ![mods[row].ticket].name = name]
                /\ parses' \in Seq(ParseTasks) /\ Len(parses') = Len(parses)
                /\ astray' = (astray \/ \E i \in DOMAIN mods : mods[i].name = name)
           /\ UNCHANGED <<watching, updateVars, active, resolverVars, posted, switches>>
<1> DEFINE old == mods[row]
           other == Toggled[old.name]
<1>1. /\ old.name \in DOMAIN Toggled /\ disk[old.name] # None
      /\ disk[other] = None \/ other \in DOMAIN Spares
      /\ UNCHANGED <<watching, updateVars, active, resolverVars, posted, switches>>
  BY DEF Toggle
<1>2. PICK name \in IF disk[other] = None THEN {other} ELSE FirstFree(Spares[other]) :
              /\ ChangedTo([disk EXCEPT ![old.name] = None, ![name] = disk[old.name]])
              /\ mods' = [mods EXCEPT ![row].name = name, ![row].stamp = disk[old.name],
                   ![row].sure = /\ @ /\ old.stamp = disk[old.name]
                                 /\ \A t \in active : parses[t].name \notin {old.name, name}]
              /\ places' = [places EXCEPT ![old.name] = 0, ![name] = row]
              /\ parses' = [parses EXCEPT ![old.ticket].name = name]
              /\ astray' = (astray \/ \E i \in DOMAIN mods : mods[i].name = name)
  BY DEF Toggle
<1>3. /\ mods \in Seq(Mods) /\ parses \in Seq(ParseTasks) /\ disk \in [Names -> Nat]
      /\ old \in Mods /\ old.name \in Names /\ disk[old.name] \in Nat
  <2>1. mods \in Seq(Mods) /\ parses \in Seq(ParseTasks) /\ disk \in [Names -> Nat]
    BY DEF FolderTypes, ModList, Now
  <2>2. old \in Mods
    BY <2>1
  <2> QED
    BY <2>1, <2>2 DEF Mods
<1>4. /\ name \in Names /\ disk[name] = None
      /\ name = other \/ (other \in DOMAIN Spares /\ name \in ToSet(Spares[other]))
  <2>1. CASE disk[other] = None
    <3>1. name = other
      BY <1>2, <2>1
    <3> QED
      BY <1>1, <2>1, <3>1, FolderAssumption
  <2>2. CASE disk[other] # None
    <3>1. name \in FirstFree(Spares[other]) /\ other \in DOMAIN Spares
      BY <1>1, <1>2, <2>2
    <3> QED
      BY <3>1, FreeIs
  <2> QED
    BY <2>1, <2>2
<1> DEFINE sure == /\ old.sure /\ old.stamp = disk[old.name]
                   /\ \A t \in active : parses[t].name \notin {old.name, name}
           new == [old EXCEPT !.name = name, !.stamp = disk[old.name], !.sure = sure]
<1>5. /\ new \in Mods /\ new.name = name /\ new.stamp = disk[old.name]
      /\ new.ticket = old.ticket /\ new.resolved = old.resolved /\ new.details = old.details
      /\ new.sure = sure
  <2>1. sure \in BOOLEAN
    OBVIOUS
  <2> HIDE DEF sure
  <2> DEFINE stamp == disk[old.name]
  <2>2. stamp \in Int
    BY <1>3
  <2>3. new = [old EXCEPT !.name = name, !.stamp = stamp, !.sure = sure]
    OBVIOUS
  <2> HIDE DEF old, new, stamp
  <2>4. /\ new \in Mods /\ new.name = name /\ new.stamp = stamp /\ new.ticket = old.ticket
        /\ new.resolved = old.resolved /\ new.details = old.details /\ new.sure = sure
    <3>1. old \in Mods /\ name \in Names
      BY <1>3, <1>4
    <3> QED
      BY <2>1, <2>2, <2>3, <3>1 DEF Mods
  <2> QED
    BY <2>4 DEF stamp
<1>6. mods' = [mods EXCEPT ![row] = new]
  BY <1>2, <1>3
<1> HIDE DEF new
<1>7. /\ mods' \in Seq(Mods) /\ DOMAIN mods' = DOMAIN mods /\ mods'[row] = new
      /\ \A i \in DOMAIN mods : i # row => mods'[i] = mods[i]
  BY <1>3, <1>5, <1>6
<1>8. parses' \in Seq(ParseTasks) /\ Len(parses') = Len(parses)
  <2>1. CASE old.ticket \in DOMAIN parses
    <3> DEFINE job == parses[old.ticket]
    <3>0. job \in ParseTasks
      BY <1>3, <2>1
    <3>1. [job EXCEPT !.name = name] \in ParseTasks
      <4> HIDE DEF job
      <4> QED
        BY <1>4, <3>0 DEF ParseTasks
    <3>2. parses' = [parses EXCEPT ![old.ticket] = [parses[old.ticket] EXCEPT !.name = name]]
      BY <1>2
    <3> QED
      BY <1>3, <2>1, <3>1, <3>2
  <2>2. CASE old.ticket \notin DOMAIN parses
    <3>1. parses' = parses
      BY <1>2, <1>3, <2>2
    <3> QED
      BY <1>3, <3>1
  <2> QED
    BY <2>1, <2>2
<1>9. new.sure => /\ old.sure /\ old.stamp = disk[old.name]
                  /\ \A t \in active : parses[t].name \notin {old.name, name}
  BY <1>5
<1> HIDE DEF sure
<1>10. /\ name = other \/ (other \in DOMAIN Spares /\ name \in ToSet(Spares[other]))
       /\ disk[name] = None
       /\ ChangedTo([disk EXCEPT ![old.name] = None, ![name] = disk[old.name]])
       /\ DOMAIN mods' = DOMAIN mods /\ mods'[row] \in Mods
       /\ mods'[row].name = name /\ mods'[row].stamp = disk[old.name]
       /\ mods'[row].ticket = old.ticket /\ mods'[row].resolved = old.resolved
       /\ mods'[row].details = old.details
       /\ mods'[row].sure => /\ old.sure /\ old.stamp = disk[old.name]
                             /\ \A t \in active : parses[t].name \notin {old.name, name}
       /\ \A i \in DOMAIN mods : i # row => mods'[i] = mods[i]
       /\ mods' \in Seq(Mods)
       /\ places' = [places EXCEPT ![old.name] = 0, ![name] = row]
       /\ parses' = [parses EXCEPT ![old.ticket].name = name]
       /\ parses' \in Seq(ParseTasks) /\ Len(parses') = Len(parses)
       /\ astray' = (astray \/ \E i \in DOMAIN mods : mods[i].name = name)
  <2> HIDE DEF other, old
  <2>1. mods'[row] = new
    BY <1>7
  <2> QED
    BY <1>2, <1>4, <1>5, <1>7, <1>8, <1>9, <2>1
<1>11. name \in Names
  BY <1>4
<1> QED
  BY <1>1, <1>10, <1>11

-----------------------------------------------------------------------------
\* The first event is taken, and nothing new comes.
LEMMA EventTaken ==
    ASSUME posted \in Seq(Events), posted # <<>>, posted' = Tail(posted)
    PROVE  /\ posted' = Tail(posted) \o <<>> /\ <<>> \in Seq(Events) /\ DOMAIN <<>> = {}
           /\ posted' \in Seq(Events) /\ Len(posted) \in Nat
           /\ DOMAIN posted = 1 .. Len(posted) /\ DOMAIN posted' = 1 .. Len(posted) - 1
           /\ \A i \in DOMAIN posted' : i + 1 \in DOMAIN posted /\ posted'[i] = posted[i + 1]
           /\ \A i \in DOMAIN posted : i # 1 => i - 1 \in DOMAIN posted' /\ posted'[i - 1] = posted[i]
<1>1. /\ posted' \in Seq(Events) /\ Len(posted') = Len(posted) - 1 /\ Len(posted) \in Nat
      /\ \A i \in 1 .. Len(posted) - 1 : posted'[i] = posted[i + 1]
  BY EmptySeq
<1>2. posted' = posted' \o <<>>
  BY <1>1, ConcatEmptySeq
<1>3. DOMAIN posted = 1 .. Len(posted) /\ DOMAIN posted' = 1 .. Len(posted) - 1
  BY <1>1
<1>4. \A i \in 1 .. Len(posted) - 1 : i + 1 \in 1 .. Len(posted)
  BY <1>1
<1>5. \A i \in 1 .. Len(posted) : i # 1 => i - 1 \in 1 .. Len(posted) - 1 /\ i - 1 + 1 = i
  BY <1>1
<1>6. \A i \in 1 .. Len(posted) : i # 1 => posted'[i - 1] = posted[i]
  BY <1>1, <1>5
<1> QED
  BY <1>1, <1>2, <1>3, <1>4, <1>5, <1>6

\* FolderInv, as long as no index goes astray.
FolderSound == FolderTypes /\ PlacesTrue /\ UpdateInOrder /\ NothingForgotten

\* The result of an update is applied.
LEMMA UpdatedFolder ==
    ASSUME FolderSound, posted # <<>>, posted[1].kind = "Updated", Apply,
           posted' = Tail(posted), UNCHANGED <<updateVars, diskVars, watching>>
    PROVE  FolderSound'
<1>1. FolderTypes /\ PlacesTrue /\ UpdateInOrder /\ NothingForgotten
  BY DEF FolderSound
<1>2. /\ ModList(Now)' /\ places' \in [Names -> Nat] /\ PlacesTrue' /\ Shows(snapshot)'
  BY <1>1, ApplyShows DEF updateVars
<1>3. posted \in Seq(Events)
  BY <1>1 DEF FolderTypes
<1>4. /\ posted' \in Seq(Events) /\ Len(posted) \in Nat
      /\ DOMAIN posted = 1 .. Len(posted) /\ DOMAIN posted' = 1 .. Len(posted) - 1
      /\ \A i \in DOMAIN posted' : i + 1 \in DOMAIN posted /\ posted'[i] = posted[i + 1]
  BY <1>3, EventTaken
<1>5. 1 \in DOMAIN posted
  BY <1>3, <1>4, EmptySeq
<1>6. 2 \in DOMAIN posted /\ posted[2].kind = "Over"
  BY <1>1, <1>5 DEF UpdateInOrder
<1>7. 1 \in DOMAIN posted' /\ posted'[1].kind = "Over" /\ update = "Posted" /\ Waits("Updated")
  BY <1>1, <1>4, <1>5, <1>6 DEF UpdateInOrder, Waits
<1>8. ASSUME NEW i \in DOMAIN posted', posted'[i].kind = "Over"
      PROVE  i = 1
  <2>1. i + 1 \in DOMAIN posted /\ posted[i + 1].kind = "Over"
    BY <1>4, <1>8
  <2>2. i + 1 = 2
    BY <1>1, <1>6, <2>1 DEF UpdateInOrder
  <2> QED
    BY <1>4, <1>8, <2>2
<1>9. ASSUME NEW i \in DOMAIN posted', posted'[i].kind = "Updated"
      PROVE  FALSE
  <2>1. i + 1 \in DOMAIN posted /\ posted[i + 1].kind = "Updated"
    BY <1>4, <1>9
  <2>2. i + 1 + 1 \in DOMAIN posted /\ posted[i + 1 + 1].kind = "Over"
    BY <1>1, <2>1 DEF UpdateInOrder
  <2>3. i + 1 + 1 = 2
    BY <1>1, <1>6, <2>2 DEF UpdateInOrder
  <2> QED
    BY <1>4, <1>9, <2>3
<1>10. UpdateInOrder'
  BY <1>7, <1>8, <1>9 DEF UpdateInOrder, Waits, updateVars
<1>11. NothingForgotten'
  <2>1. ~Waits("Updated")'
    BY <1>9 DEF Waits
  <2>2. watching /\ ~touched /\ ~again => snapshot = disk
    BY <1>1, <1>7 DEF NothingForgotten
  <2>3. snapshot = disk => Shows(disk)'
    BY <1>2 DEF Shows, updateVars, diskVars
  <2> QED
    BY <1>7, <2>1, <2>2, <2>3 DEF NothingForgotten, updateVars, diskVars
<1>12. FolderTypes'
  BY <1>1, <1>2, <1>4 DEF FolderTypes, updateVars, diskVars
<1> QED
  BY <1>2, <1>10, <1>11, <1>12 DEF FolderSound

\* An update is over.
LEMMA OverFolder ==
    ASSUME FolderSound, posted # <<>>, posted[1].kind = "Over", Over,
           posted' = Tail(posted), UNCHANGED <<listVars, parseVars, resolverVars, diskVars, watching>>
    PROVE  FolderSound'
<1>1. FolderTypes /\ PlacesTrue /\ UpdateInOrder /\ NothingForgotten
  BY DEF FolderSound
<1>2. posted \in Seq(Events)
  BY <1>1 DEF FolderTypes
<1>3. /\ posted' \in Seq(Events) /\ Len(posted) \in Nat
      /\ DOMAIN posted = 1 .. Len(posted) /\ DOMAIN posted' = 1 .. Len(posted) - 1
      /\ \A i \in DOMAIN posted' : i + 1 \in DOMAIN posted /\ posted'[i] = posted[i + 1]
  BY <1>2, EventTaken
<1>4. 1 \in DOMAIN posted
  BY <1>2, <1>3, EmptySeq
<1>5. update = "Posted"
  BY <1>1, <1>4 DEF UpdateInOrder, Waits
<1>6. \A i \in DOMAIN posted : posted[i].kind = "Over" => i = 1
  BY <1>1, <1>4 DEF UpdateInOrder
<1>7. ASSUME NEW i \in DOMAIN posted
      PROVE  posted[i].kind # "Updated"
  <2>1. posted[i].kind = "Updated" => i + 1 = 1
    BY <1>1, <1>6, <1>7 DEF UpdateInOrder
  <2> QED
    BY <1>3, <1>7, <2>1
<1>8. ASSUME NEW i \in DOMAIN posted'
      PROVE  ~Ends(posted'[i].kind)
  <2>1. i + 1 \in DOMAIN posted /\ posted'[i] = posted[i + 1] /\ i + 1 # 1
    BY <1>3, <1>8
  <2> QED
    BY <1>6, <1>7, <2>1 DEF Ends
<1>9. update' \in {"None", "Made"} /\ (again => update' = "Made") /\ again' = FALSE
  BY DEF Over
<1>10. UpdateInOrder'
  BY <1>8, <1>9 DEF UpdateInOrder, Waits, Ends
<1>11. NothingForgotten'
  <2>1. CASE again
    BY <1>9, <2>1 DEF NothingForgotten
  <2>2. CASE ~again
    <3>1. watching /\ ~touched => Shows(disk)
      BY <1>1, <1>5, <1>7, <2>2 DEF NothingForgotten, Waits
    <3>2. Shows(disk) => Shows(disk)'
      BY DEF Shows, listVars, diskVars
    <3> QED
      BY <1>9, <3>1, <3>2 DEF NothingForgotten, diskVars
  <2> QED
    BY <2>1, <2>2
<1>12. PlacesTrue'
  BY <1>1 DEF PlacesTrue, listVars
<1>13. Now' = Now /\ places' = places /\ disk' = disk /\ touched' = touched /\ changes' = changes
       /\ snapshot' = snapshot /\ unread' = unread
  BY DEF Now, listVars, parseVars, resolverVars, diskVars, Over
<1>14. ModList(Now')
  BY <1>1, <1>13 DEF FolderTypes
<1>15. FolderTypes'
  BY <1>1, <1>3, <1>9, <1>13, <1>14 DEF FolderTypes
<1> QED
  BY <1>10, <1>11, <1>12, <1>15 DEF FolderSound

\* Any other event, which leaves names and stamps alone.
LEMMA OtherFolder ==
    ASSUME FolderSound, posted # <<>>, ~Ends(posted[1].kind),
           NEW more \in Seq(Events), \A i \in DOMAIN more : ~Ends(more[i].kind),
           posted' = Tail(posted) \o more, UNCHANGED <<updateVars, diskVars, watching, places>>,
           DOMAIN mods' = DOMAIN mods,
           \A i \in DOMAIN mods : mods'[i].name = mods[i].name /\ mods'[i].stamp = mods[i].stamp,
           ModList(Now)'
    PROVE  FolderSound'
<1>1. FolderTypes /\ PlacesTrue /\ UpdateInOrder /\ NothingForgotten
  BY DEF FolderSound
<1>2. posted \in Seq(Events)
  BY <1>1 DEF FolderTypes
<1>3. UpdateInOrder' /\ (Waits("Updated")' <=> Waits("Updated"))
  BY <1>1, <1>2, OtherEvents DEF updateVars
<1>4. posted' \in Seq(Events)
  BY <1>2, EventsAre
<1>5. PlacesTrue' /\ (Shows(disk) => Shows(disk)')
  BY <1>1, RowsKept DEF diskVars
<1>6. NothingForgotten'
  BY <1>1, <1>3, <1>5, ForgottenKept DEF updateVars, diskVars
<1>7. FolderTypes'
  BY <1>1, <1>4 DEF FolderTypes, updateVars, diskVars
<1> QED
  BY <1>3, <1>5, <1>6, <1>7 DEF FolderSound

-----------------------------------------------------------------------------
\* Rows keep what they have, and the tasks and the queue are sound.
LEMMA NowSound ==
    ASSUME ModList(Now), mods' \in Seq(Mods), parses' \in Seq(ParseTasks), Len(parses') = Len(parses),
           active' \subseteq active, queue' \in Seq(Nat), ToSet(queue') \subseteq ToSet(queue)
    PROVE  ModList(Now')
<1>1. active \subseteq 1 .. Len(parses) /\ ToSet(queue) \subseteq 1 .. Len(parses) /\ active \subseteq Nat
  BY DEF ModList, Now
<1> QED
  BY <1>1 DEF ModList, Now

\* A wakeup takes the next task from the queue, or none.
LEMMA WakeFolder ==
    ASSUME FolderSound, posted # <<>>, posted[1].kind = "Wake", NextSubTask,
           UNCHANGED <<listVars, updateVars, parseVars, diskVars, watching>>
    PROVE  FolderSound'
<1>1. posted \in Seq(Events) /\ ModList(Now)
  BY DEF FolderSound, FolderTypes
<1>2. /\ mods \in Seq(Mods) /\ parses \in Seq(ParseTasks) /\ queue \in Seq(Nat)
  BY <1>1 DEF ModList, Now
<1>3. ~Ends(posted[1].kind)
  BY DEF Ends
<1>4. /\ mods' = mods /\ places' = places /\ parses' = parses /\ active' = active
  BY DEF listVars, parseVars
<1>5. CASE queue' = queue /\ posted' = Tail(posted)
  <2>1. posted' = Tail(posted) \o <<>> /\ <<>> \in Seq(Events) /\ DOMAIN <<>> = {}
    BY <1>1, <1>5, EventTaken
  <2>2. ModList(Now')
    BY <1>1, <1>2, <1>4, <1>5, NowSound
  <2> DEFINE more == <<>>
  <2>3. posted' = Tail(posted) \o more /\ more \in Seq(Events) /\ \A i \in DOMAIN more : ~Ends(more[i].kind)
    BY <2>1
  <2> HIDE DEF more
  <2> QED
    BY <1>3, <1>4, <2>2, <2>3, OtherFolder
<1>6. CASE queue # <<>> /\ queue' = Tail(queue) /\ posted' = Append(Tail(posted), Event("Parse", Head(queue)))
  <2> DEFINE e == Event("Parse", Head(queue))
             more == <<e>>
  <2>1. e \in Events /\ e.kind = "Parse"
    BY <1>2, <1>6, HeadTailProperties DEF Event, Events, Kinds
  <2>2. queue' \in Seq(Nat) /\ ToSet(queue') \subseteq ToSet(queue)
    <3>1. /\ queue' \in Seq(Nat) /\ Len(queue') = Len(queue) - 1 /\ Len(queue) \in Nat
          /\ \A i \in 1 .. Len(queue) - 1 : queue'[i] = queue[i + 1]
      BY <1>2, <1>6
    <3>2. \A i \in 1 .. Len(queue) - 1 : i + 1 \in 1 .. Len(queue)
      BY <3>1
    <3>3. DOMAIN queue = 1 .. Len(queue) /\ DOMAIN queue' = 1 .. Len(queue) - 1
      BY <1>2, <3>1
    <3> QED
      BY <3>1, <3>2, <3>3 DEF ToSet
  <2>3. ModList(Now')
    BY <1>1, <1>2, <1>4, <2>2, NowSound
  <2>4. Tail(posted) \in Seq(Events)
    BY <1>1, HeadTailProperties
  <2> HIDE DEF e
  <2>5. posted' = Tail(posted) \o more
    BY <1>6, <2>1, <2>4 DEF e
  <2>6. more \in Seq(Events) /\ \A i \in DOMAIN more : ~Ends(more[i].kind)
    BY <2>1 DEF Ends
  <2> HIDE DEF more
  <2> QED
    BY <1>3, <1>4, <2>3, <2>5, <2>6, OtherFolder
<1> QED
  BY <1>5, <1>6 DEF NextSubTask, resolverVars

\* A parse task runs.
LEMMA ParseFolder ==
    ASSUME FolderSound, posted # <<>>, posted[1].kind = "Parse", ParseRuns(posted[1].ticket),
           UNCHANGED <<listVars, updateVars, diskVars, watching>>
    PROVE  FolderSound'
<1> DEFINE t == posted[1].ticket
<1>1. posted \in Seq(Events) /\ ModList(Now) /\ disk \in [Names -> Nat]
  BY DEF FolderSound, FolderTypes
<1>2. /\ mods \in Seq(Mods) /\ parses \in Seq(ParseTasks) /\ queue \in Seq(Nat)
  BY <1>1 DEF ModList, Now
<1>3. ~Ends(posted[1].kind)
  BY DEF Ends
<1>4. /\ mods' = mods /\ places' = places /\ active' = active /\ queue' = queue
  BY DEF listVars, ParseRuns
<1>5. t \in Nat
  <2>1. posted[1] \in Events
    BY <1>1, EmptySeq
  <2> QED
    BY <2>1 DEF Events
<1>6. parses' \in Seq(ParseTasks) /\ Len(parses') = Len(parses)
  <2> DEFINE job == parses[t]
             found == IF job.details = 0 /\ ~job.aborted THEN disk[job.file] ELSE job.details
  <2>1. parses' = [parses EXCEPT ![t] = [job EXCEPT !.details = found]]
    BY DEF ParseRuns
  <2>2. CASE t \in DOMAIN parses
    <3>1. job \in ParseTasks
      BY <1>2, <2>2
    <3>2. found \in Int
      BY <1>1, <3>1 DEF ParseTasks
    <3> HIDE DEF job, found
    <3>3. [job EXCEPT !.details = found] \in ParseTasks
      BY <3>1, <3>2 DEF ParseTasks
    <3> QED
      BY <1>2, <2>1, <2>2, <3>3
  <2>3. CASE t \notin DOMAIN parses
    <3>1. parses' = parses
      BY <1>2, <2>1, <2>3
    <3> QED
      BY <1>2, <3>1
  <2> QED
    BY <2>2, <2>3
<1>7. ModList(Now')
  BY <1>1, <1>2, <1>4, <1>6, NowSound
<1> DEFINE more == IF parses[t].aborted THEN <<Wake, Event("Done", t)>>
                   ELSE <<Event("Parsed", t), Wake, Event("Done", t)>>
<1>8. posted' = Tail(posted) \o more
  BY DEF ParseRuns
<1>9. more \in Seq(Events) /\ \A i \in DOMAIN more : ~Ends(more[i].kind)
  <2> HIDE DEF t
  <2>1. /\ Wake \in Events /\ Wake.kind = "Wake"
        /\ Event("Done", t) \in Events /\ Event("Done", t).kind = "Done"
        /\ Event("Parsed", t) \in Events /\ Event("Parsed", t).kind = "Parsed"
    BY <1>5 DEF Wake, Event, Events, Kinds
  <2>2. ~Ends("Wake") /\ ~Ends("Done") /\ ~Ends("Parsed")
    BY DEF Ends
  <2> DEFINE two == <<Wake, Event("Done", t)>>
             three == <<Event("Parsed", t), Wake, Event("Done", t)>>
  <2>3. two \in Seq(Events) /\ \A i \in DOMAIN two : ~Ends(two[i].kind)
    BY <2>1, <2>2
  <2>4. three \in Seq(Events) /\ \A i \in DOMAIN three : ~Ends(three[i].kind)
    BY <2>1, <2>2
  <2> QED
    BY <2>3, <2>4
<1> HIDE DEF more
<1> QED
  BY <1>3, <1>4, <1>7, <1>8, <1>9, OtherFolder

\* The row that details go to, if any.
LEMMA RowIs ==
    ASSUME FolderTypes, NEW name,
           NEW row, row = SelectInSeq(mods, LAMBDA mod : mod.name = name),
           \A i, j \in DOMAIN mods : mods[i].name = name /\ mods[j].name = name => i = j
    PROVE  /\ row # 0 => row \in DOMAIN mods /\ mods[row].name = name
           /\ row = 0 => \A i \in DOMAIN mods : mods[i].name # name
<1> DEFINE I == {i \in DOMAIN mods : mods[i].name = name}
<1>1. DOMAIN mods \subseteq Nat \ {0} /\ DOMAIN mods = 1 .. Len(mods)
  BY DEF FolderTypes, ModList, Now
<1>2. row = IF I # {} THEN Min(I) ELSE 0
  BY <1>1 DEF SelectInSeq
<1>3. ASSUME I # {}
      PROVE  Min(I) \in I
  <2>1. PICK i : I = {i}
    BY <1>3
  <2>2. i \in Nat
    BY <1>1, <2>1
  <2> QED
    BY <2>1, <2>2 DEF Min
<1> QED
  BY <1>1, <1>2, <1>3

\* The details of a mod arrive.
LEMMA ParsedFolder ==
    ASSUME FolderSound, posted # <<>>, posted[1].kind = "Parsed", Parsed(posted[1].ticket), ~astray',
           posted' = Tail(posted), UNCHANGED <<updateVars, parseVars, resolverVars, diskVars, watching>>
    PROVE  FolderSound'
<1> DEFINE t    == posted[1].ticket
           name == parses[t].name
           row  == SelectInSeq(mods, LAMBDA mod : mod.name = name)
<1>1. posted \in Seq(Events) /\ ModList(Now) /\ FolderTypes /\ PlacesTrue
  BY DEF FolderSound, FolderTypes
<1>2. /\ mods \in Seq(Mods) /\ parses \in Seq(ParseTasks) /\ queue \in Seq(Nat)
      /\ active \subseteq 1 .. Len(parses)
  BY <1>1 DEF ModList, Now
<1>3. ~Ends(posted[1].kind)
  BY DEF Ends
<1>4. /\ parses' = parses /\ active' = active /\ queue' = queue
  BY DEF parseVars, resolverVars
<1>5. places' = places
  BY DEF Parsed
<1>6. mods' = IF t \in active /\ row # 0
              THEN [mods EXCEPT ![row].resolved = TRUE, ![row].details = parses[t].details]
              ELSE mods
  BY DEF Parsed
<1>7. /\ mods' \in Seq(Mods) /\ DOMAIN mods' = DOMAIN mods
      /\ \A i \in DOMAIN mods : mods'[i].name = mods[i].name /\ mods'[i].stamp = mods[i].stamp
  <2>1. CASE t \in active /\ row # 0
    <3>1. row \in DOMAIN mods
      <4>1. \A i, j \in DOMAIN mods : mods[i].name = name /\ mods[j].name = name => i = j
        BY <1>1 DEF PlacesTrue
      <4> HIDE DEF name
      <4> QED
        BY <1>1, <2>1, <4>1, RowIs
    <3> HIDE DEF row
    <3> DEFINE old == mods[row]
               found == parses[t].details
    <3>2. old \in Mods /\ found \in Int
      <4> HIDE DEF t
      <4>3. DOMAIN parses = 1 .. Len(parses)
        BY <1>2
      <4>0. t \in DOMAIN parses
        BY <1>2, <2>1, <4>3
      <4>1. parses[t] \in ParseTasks
        BY <1>2, <4>0
      <4> QED
        BY <1>2, <3>1, <4>1 DEF ParseTasks
    <3>3. mods' = [mods EXCEPT ![row] = [old EXCEPT !.resolved = TRUE, !.details = found]]
      BY <1>6, <2>1, <3>1
    <3>4. /\ [old EXCEPT !.resolved = TRUE, !.details = found] \in Mods
          /\ [old EXCEPT !.resolved = TRUE, !.details = found].name = old.name
          /\ [old EXCEPT !.resolved = TRUE, !.details = found].stamp = old.stamp
      <4> HIDE DEF old, found
      <4> QED
        BY <3>2 DEF Mods
    <3> DEFINE new == [old EXCEPT !.resolved = TRUE, !.details = found]
    <3>5. new \in Mods /\ new.name = mods[row].name /\ new.stamp = mods[row].stamp
          /\ mods' = [mods EXCEPT ![row] = new]
      BY <3>3, <3>4
    <3> HIDE DEF new
    <3> QED
      BY <1>2, <3>1, <3>5
  <2>2. CASE ~(t \in active /\ row # 0)
    BY <1>2, <1>6, <2>2
  <2> QED
    BY <2>1, <2>2
<1>8. ModList(Now')
  BY <1>1, <1>2, <1>4, <1>7, NowSound
<1> DEFINE more == <<>>
<1>9. posted' = Tail(posted) \o more /\ more \in Seq(Events) /\ \A i \in DOMAIN more : ~Ends(more[i].kind)
  BY <1>1, EventTaken
<1> HIDE DEF more
<1> QED
  BY <1>3, <1>5, <1>7, <1>8, <1>9, OtherFolder

\* A task is over and forgotten.
LEMMA DoneFolder ==
    ASSUME FolderSound, posted # <<>>, posted[1].kind = "Done", active' = active \ {posted[1].ticket},
           posted' = Tail(posted), UNCHANGED <<listVars, updateVars, parses, resolverVars, diskVars, watching>>
    PROVE  FolderSound'
<1>1. posted \in Seq(Events) /\ ModList(Now)
  BY DEF FolderSound, FolderTypes
<1>2. /\ mods \in Seq(Mods) /\ parses \in Seq(ParseTasks) /\ queue \in Seq(Nat)
  BY <1>1 DEF ModList, Now
<1>3. ~Ends(posted[1].kind)
  BY DEF Ends
<1>4. /\ mods' = mods /\ places' = places /\ parses' = parses /\ queue' = queue
  BY DEF listVars, resolverVars
<1>5. ModList(Now')
  BY <1>1, <1>2, <1>4, NowSound
<1> DEFINE more == <<>>
<1>6. posted' = Tail(posted) \o more /\ more \in Seq(Events) /\ \A i \in DOMAIN more : ~Ends(more[i].kind)
  BY <1>1, EventTaken
<1> HIDE DEF more
<1> QED
  BY <1>3, <1>4, <1>5, <1>6, OtherFolder

-----------------------------------------------------------------------------
\* An update is under way as before, and so are its events.
LEMMA OrderKept ==
    ASSUME UpdateInOrder, posted' = posted, update' = "Posted" <=> update = "Posted"
    PROVE  UpdateInOrder'
  BY DEF UpdateInOrder, Waits

\* The folder changes, and the list does not.
LEMMA ChangedFolder ==
    ASSUME FolderSound, UNCHANGED <<watching, listVars, parseVars, resolverVars, posted>>,
           disk' \in [Names -> Nat], touched' = (touched \/ watching), changes' = changes + 1,
           UNCHANGED updateVars \/ Update
    PROVE  FolderSound'
<1>1. FolderTypes /\ PlacesTrue /\ UpdateInOrder
  BY DEF FolderSound
<1>2. /\ snapshot' = snapshot /\ unread' = unread
      /\ update' \in {"None", "Made", "Reading", "Posted"} /\ again' \in BOOLEAN
      /\ update' = "Posted" <=> update = "Posted"
  <2>1. CASE UNCHANGED updateVars
    BY <1>1, <2>1 DEF updateVars, FolderTypes
  <2>2. CASE Update
    BY <1>1, <2>2, UpdateIs
  <2> QED
    BY <2>1, <2>2
<1>3. NothingForgotten'
  BY <1>1, Excused DEF FolderTypes
<1>4. UpdateInOrder'
  BY <1>1, <1>2, OrderKept
<1>5. PlacesTrue'
  BY <1>1 DEF PlacesTrue, listVars
<1>6. Now' = Now /\ places' = places
  BY DEF Now, listVars, parseVars, resolverVars
<1>7. ModList(Now')
  BY <1>1, <1>6 DEF FolderTypes
<1>8. FolderTypes'
  BY <1>1, <1>2, <1>6, <1>7 DEF FolderTypes
<1> QED
  BY <1>3, <1>4, <1>5, <1>8 DEF FolderSound

\* Nothing but the update and who watches changes: the folder is watched less, or an
\* update is made.
LEMMA WatchedFolder ==
    ASSUME FolderSound, UNCHANGED <<disk, changes, listVars, parseVars, resolverVars, posted>>,
           watching' \in BOOLEAN, touched' \in BOOLEAN,
           Update \/ (UNCHANGED updateVars /\ ~watching')
    PROVE  FolderSound'
<1>1. FolderTypes /\ PlacesTrue /\ UpdateInOrder
  BY DEF FolderSound
<1>2. /\ snapshot' = snapshot /\ unread' = unread
      /\ update' \in {"None", "Made", "Reading", "Posted"} /\ again' \in BOOLEAN
      /\ update' = "Posted" <=> update = "Posted"
      /\ again' \/ update' = "Made" \/ ~watching'
  <2>1. CASE UNCHANGED updateVars /\ ~watching'
    BY <1>1, <2>1 DEF updateVars, FolderTypes
  <2>2. CASE Update
    BY <1>1, <2>2, UpdateIs
  <2> QED
    BY <2>1, <2>2
<1>3. NothingForgotten'
  BY <1>2, Excused
<1>4. UpdateInOrder'
  BY <1>1, <1>2, OrderKept
<1>5. PlacesTrue'
  BY <1>1 DEF PlacesTrue, listVars
<1>6. Now' = Now /\ places' = places
  BY DEF Now, listVars, parseVars, resolverVars
<1>7. ModList(Now')
  BY <1>1, <1>6 DEF FolderTypes
<1>8. FolderTypes'
  BY <1>1, <1>2, <1>6, <1>7 DEF FolderTypes
<1> QED
  BY <1>3, <1>4, <1>5, <1>8 DEF FolderSound

\* What people do to the folder and what the watcher says of it.
LEMMA PeopleFolder ==
    ASSUME FolderSound,
           \/ \E n \in Names : OthersChange(n)
           \/ \E n \in Given : Install(n)
           \/ \E row \in DOMAIN mods : Uninstall(row)
           \/ StartWatching \/ StopWatching \/ ChangeNoticed
    PROVE  FolderSound'
<1>1. disk \in [Names -> Nat] /\ changes \in Nat /\ touched \in BOOLEAN /\ watching \in BOOLEAN
  BY DEF FolderSound, FolderTypes
<1>2. Fresh \in Nat /\ None \in Nat
  BY <1>1, NamesListed DEF Fresh, None
<1>3. \A n : [disk EXCEPT ![n] = Fresh] \in [Names -> Nat] /\ [disk EXCEPT ![n] = None] \in [Names -> Nat]
  <2> HIDE DEF Fresh, None
  <2> QED
    BY <1>1, <1>2
<1>4. CASE \E n \in Names : OthersChange(n)
  <2>1. /\ UNCHANGED <<watching, listVars, updateVars, parseVars, resolverVars, posted>>
        /\ disk' \in [Names -> Nat] /\ touched' = (touched \/ watching) /\ changes' = changes + 1
    BY <1>3, <1>4 DEF OthersChange, ChangedTo
  <2> QED
    BY <2>1, ChangedFolder
<1>5. CASE \E n \in Given : Install(n)
  <2>1. /\ UNCHANGED <<watching, listVars, parseVars, resolverVars, posted>>
        /\ disk' \in [Names -> Nat] /\ touched' = (touched \/ watching) /\ changes' = changes + 1
        /\ UNCHANGED updateVars \/ Update
    BY <1>3, <1>5 DEF Install, ChangedTo
  <2> QED
    BY <2>1, ChangedFolder
<1>6. CASE \E row \in DOMAIN mods : Uninstall(row)
  <2>1. /\ UNCHANGED <<watching, listVars, parseVars, resolverVars, posted>>
        /\ disk' \in [Names -> Nat] /\ touched' = (touched \/ watching) /\ changes' = changes + 1
        /\ Update
    BY <1>3, <1>6 DEF Uninstall, ChangedTo
  <2> QED
    BY <2>1, ChangedFolder
<1>7. CASE StartWatching
  <2>1. /\ UNCHANGED <<disk, changes, listVars, parseVars, resolverVars, posted>>
        /\ watching' \in BOOLEAN /\ touched' \in BOOLEAN /\ Update
    BY <1>1, <1>7 DEF StartWatching, diskVars
  <2> QED
    BY <2>1, WatchedFolder
<1>8. CASE StopWatching
  <2>1. /\ UNCHANGED <<disk, changes, listVars, parseVars, resolverVars, posted>>
        /\ watching' \in BOOLEAN /\ touched' \in BOOLEAN /\ UNCHANGED updateVars /\ ~watching'
    BY <1>1, <1>8 DEF StopWatching
  <2> QED
    BY <2>1, WatchedFolder
<1>9. CASE ChangeNoticed
  <2>1. /\ UNCHANGED <<disk, changes, listVars, parseVars, resolverVars, posted>>
        /\ watching' \in BOOLEAN /\ touched' \in BOOLEAN /\ Update
    BY <1>1, <1>9 DEF ChangeNoticed
  <2> QED
    BY <2>1, WatchedFolder
<1> QED
  BY <1>4, <1>5, <1>6, <1>7, <1>8, <1>9

\* A mod is enabled or disabled.
LEMMA ToggleFolder ==
    ASSUME FolderSound, NEW row \in DOMAIN mods, Toggle(row), ~astray'
    PROVE  FolderSound'
<1> DEFINE old == mods[row]
<1>1. FolderTypes /\ PlacesTrue /\ UpdateInOrder /\ ModList(Now)
  BY DEF FolderSound, FolderTypes
<1>2. PICK name \in Names :
        /\ disk[name] = None
        /\ ChangedTo([disk EXCEPT ![old.name] = None, ![name] = disk[old.name]])
        /\ DOMAIN mods' = DOMAIN mods
        /\ mods'[row].name = name
        /\ \A i \in DOMAIN mods : i # row => mods'[i] = mods[i]
        /\ mods' \in Seq(Mods)
        /\ places' = [places EXCEPT ![old.name] = 0, ![name] = row]
        /\ parses' \in Seq(ParseTasks) /\ Len(parses') = Len(parses)
        /\ astray' = (astray \/ \E i \in DOMAIN mods : mods[i].name = name)
  BY <1>1, ToggleIs, ZenonT(40)
<1>3. UNCHANGED <<watching, updateVars, active, resolverVars, posted>>
  BY <1>1, ToggleIs
<1>4. /\ mods \in Seq(Mods) /\ disk \in [Names -> Nat] /\ places \in [Names -> Nat]
      /\ changes \in Nat /\ touched \in BOOLEAN /\ watching \in BOOLEAN
  BY <1>1 DEF FolderTypes, ModList, Now
<1>5. /\ DOMAIN mods \subseteq Nat \ {0} /\ \A i \in DOMAIN mods : mods[i].name \in Names
      /\ \A i \in DOMAIN mods : mods[i].name # name
  <2>1. (\A i \in DOMAIN mods : mods[i] \in Mods) /\ DOMAIN mods \subseteq Nat \ {0}
    BY <1>4
  <2>2. \A i \in DOMAIN mods : mods[i].name # name
    BY <1>2
  <2> QED
    BY <2>1, <2>2 DEF Mods
<1>6. old.name \in Names /\ old.name # name
  BY <1>5
<1>7. /\ places' \in [Names -> Nat] /\ places'[name] = row /\ places'[old.name] = 0
      /\ \A n \in Names : n # name /\ n # old.name => places'[n] = places[n]
  <2> HIDE DEF old
  <2>1. row \in Nat
    BY <1>5
  <2> QED
    BY <1>2, <1>4, <1>6, <2>1
<1>8. PlacesTrue'
  <2>1. ASSUME NEW i \in DOMAIN mods'
        PROVE  places'[mods'[i].name] = i
    <3>1. CASE i = row
      BY <1>2, <1>7, <3>1
    <3>2. CASE i # row
      <4>1. i \in DOMAIN mods /\ mods'[i] = mods[i] /\ places[mods[i].name] = i
        BY <1>1, <1>2, <3>2 DEF PlacesTrue
      <4>2. mods[i].name # old.name
        BY <1>1, <3>2, <4>1 DEF PlacesTrue
      <4> HIDE DEF old
      <4> QED
        BY <1>5, <1>7, <4>1, <4>2
    <3> QED
      BY <3>1, <3>2
  <2>2. ASSUME NEW n \in Names, places'[n] # 0
        PROVE  places'[n] \in DOMAIN mods' /\ mods'[places'[n]].name = n
    <3>1. CASE n = name
      BY <1>2, <1>7, <3>1
    <3>2. CASE n # name
      <4>1. n # old.name /\ places'[n] = places[n]
        BY <1>7, <2>2, <3>2
      <4>2. places[n] \in DOMAIN mods /\ mods[places[n]].name = n
        BY <1>1, <2>2, <4>1 DEF PlacesTrue
      <4>3. places[n] # row
        BY <4>1, <4>2
      <4> HIDE DEF old
      <4> QED
        BY <1>2, <4>1, <4>2, <4>3
    <3> QED
      BY <3>1, <3>2
  <2> HIDE DEF old
  <2> QED
    BY <2>1, <2>2 DEF PlacesTrue
<1>9. disk' \in [Names -> Nat] /\ changes' \in Nat /\ touched' = (touched \/ watching)
  <2> DEFINE stamp == disk[old.name]
  <2>1. stamp \in Nat /\ None \in Nat
    BY <1>4, <1>6 DEF None
  <2>2. disk' = [disk EXCEPT ![old.name] = None, ![name] = stamp]
    BY <1>2 DEF ChangedTo
  <2> HIDE DEF stamp, old
  <2>3. disk' \in [Names -> Nat]
    BY <1>4, <2>1, <2>2
  <2>4. changes' = changes + 1 /\ touched' = (touched \/ watching)
    BY <1>2 DEF ChangedTo
  <2> QED
    BY <1>4, <2>3, <2>4
<1> HIDE DEF old
<1>10. NothingForgotten'
  BY <1>3, <1>9, Excused
<1>11. UpdateInOrder'
  BY <1>1, <1>3, OrderKept DEF updateVars
<1>12. ModList(Now')
  <2>1. parses \in Seq(ParseTasks) /\ queue \in Seq(Nat)
    BY <1>1 DEF ModList, Now
  <2>2. active' = active /\ queue' = queue
    BY <1>3 DEF resolverVars
  <2> QED
    BY <1>1, <1>2, <2>1, <2>2, NowSound
<1>13. FolderTypes'
  BY <1>1, <1>3, <1>4, <1>7, <1>9, <1>12 DEF FolderTypes, updateVars
<1> QED
  BY <1>8, <1>10, <1>11, <1>13 DEF FolderSound

-----------------------------------------------------------------------------
\* The pool thread lists the folder and looks at its files.
LEMMA ListFolder ==
    ASSUME FolderSound, List
    PROVE  FolderSound'
<1>1. FolderTypes /\ PlacesTrue /\ UpdateInOrder
  BY DEF FolderSound
<1>2. /\ update = "Made" /\ update' = "Reading" /\ unread' = There
      /\ snapshot' = [n \in Names |-> None]
      /\ UNCHANGED <<again, disk, touched, changes, watching, mods, places, parses, active, queue, posted>>
  BY DEF List, diskVars, listVars, parseVars, resolverVars
<1>3. There \subseteq Names /\ None \in Int
  BY DEF There, None
<1>4. snapshot' \in [Names -> Int]
  <2> HIDE DEF None
  <2> QED
    BY <1>2, <1>3
<1>5. NothingForgotten'
  BY <1>2 DEF NothingForgotten, There
<1>6. UpdateInOrder'
  BY <1>1, <1>2, OrderKept
<1>7. PlacesTrue'
  BY <1>1, <1>2 DEF PlacesTrue
<1>8. Now' = Now
  BY <1>2 DEF Now
<1>9. ModList(Now')
  BY <1>1, <1>8 DEF FolderTypes
<1>10. FolderTypes'
  BY <1>1, <1>2, <1>3, <1>4, <1>9 DEF FolderTypes
<1> QED
  BY <1>5, <1>6, <1>7, <1>10 DEF FolderSound

\* The pool thread looks at a file: the list stays as it is.
LEMMA ReadSound ==
    ASSUME FolderSound, Read
    PROVE  FolderSound'
<1>1. FolderTypes /\ PlacesTrue /\ UpdateInOrder /\ NothingForgotten
  BY DEF FolderSound
<1>2. UNCHANGED <<update, listVars, posted>>
  BY DEF Read
<1>3. FolderTypes' /\ NothingForgotten'
  BY <1>1, ReadFolder
<1>4. UpdateInOrder'
  BY <1>1, <1>2, OrderKept
<1>5. PlacesTrue'
  BY <1>1, <1>2 DEF PlacesTrue, listVars
<1> QED
  BY <1>3, <1>4, <1>5 DEF FolderSound

\* Two events after those there are.
LEMMA TwoMore ==
    ASSUME posted \in Seq(Events), NEW e \in Events, NEW f \in Events, posted' = posted \o <<e, f>>
    PROVE  /\ posted' \in Seq(Events) /\ Len(posted) \in Nat
           /\ DOMAIN posted = 1 .. Len(posted) /\ DOMAIN posted' = 1 .. Len(posted) + 2
           /\ \A i \in 1 .. Len(posted) : posted'[i] = posted[i]
           /\ posted'[Len(posted) + 1] = e /\ posted'[Len(posted) + 2] = f
<1> DEFINE two == <<e, f>>
           n == Len(posted)
<1>1. two \in Seq(Events) /\ Len(two) = 2 /\ two[1] = e /\ two[2] = f
  OBVIOUS
<1>2. n \in Nat /\ DOMAIN posted = 1 .. n /\ posted' = posted \o two
  OBVIOUS
<1> HIDE DEF two
<1>3. posted' \in Seq(Events) /\ Len(posted') = n + 2
  BY <1>1, <1>2, ConcatProperties
<1>4. \A i \in 1 .. n + 2 : posted'[i] = IF i <= n THEN posted[i] ELSE two[i - n]
  BY <1>1, <1>2, ConcatProperties
<1> HIDE DEF n
<1>5. \A i \in 1 .. n : posted'[i] = posted[i]
  BY <1>2, <1>4
<1>6. posted'[n + 1] = two[1]
  <2> DEFINE k == n + 1
  <2>1. k \in 1 .. n + 2 /\ ~(k <= n) /\ k - n = 1
    BY <1>2
  <2> HIDE DEF k
  <2>2. posted'[k] = two[1]
    BY <1>4, <2>1
  <2> QED
    BY <2>2 DEF k
<1>7. posted'[n + 2] = two[2]
  <2> DEFINE k == n + 2
  <2>1. k \in 1 .. n + 2 /\ ~(k <= n) /\ k - n = 2
    BY <1>2
  <2> HIDE DEF k
  <2>2. posted'[k] = two[2]
    BY <1>4, <2>1
  <2> QED
    BY <2>2 DEF k
<1>8. DOMAIN posted' = 1 .. n + 2
  BY <1>3
<1> QED
  BY <1>1, <1>2, <1>3, <1>5, <1>6, <1>7, <1>8 DEF n

\* The folder has been read, and the result is posted.
LEMMA ReadEndsFolder ==
    ASSUME FolderSound, ReadEnds
    PROVE  FolderSound'
<1>1. FolderTypes /\ PlacesTrue /\ UpdateInOrder /\ NothingForgotten
  BY DEF FolderSound
<1> DEFINE e == Event("Updated", 0)
           f == Event("Over", 0)
           n == Len(posted)
<1>2. /\ update = "Reading" /\ unread = {} /\ update' = "Posted" /\ posted' = posted \o <<e, f>>
      /\ UNCHANGED <<unread, snapshot, again, disk, touched, changes, watching, mods, places, parses,
                     active, queue>>
  BY DEF ReadEnds, diskVars, listVars, parseVars, resolverVars
<1>3. e \in Events /\ f \in Events /\ e.kind = "Updated" /\ f.kind = "Over"
  BY DEF Event, Events, Kinds
<1> HIDE DEF e, f
<1>4. posted \in Seq(Events)
  BY <1>1 DEF FolderTypes
<1>5. /\ posted' \in Seq(Events) /\ n \in Nat
      /\ DOMAIN posted = 1 .. n /\ DOMAIN posted' = 1 .. n + 2
      /\ \A i \in 1 .. n : posted'[i] = posted[i]
      /\ posted'[n + 1].kind = "Updated" /\ posted'[n + 2].kind = "Over"
  BY <1>2, <1>3, <1>4, TwoMore
<1> HIDE DEF n
<1>6. n + 1 \in 1 .. n + 2 /\ n + 2 \in 1 .. n + 2
  BY <1>5
<1>7. \A i \in DOMAIN posted : ~Ends(posted[i].kind)
  <2>1. ASSUME NEW i \in DOMAIN posted
        PROVE  posted[i].kind # "Over"
    BY <1>1, <1>2 DEF UpdateInOrder, Waits
  <2>2. ASSUME NEW i \in DOMAIN posted
        PROVE  posted[i].kind # "Updated"
    BY <1>1, <2>1 DEF UpdateInOrder
  <2> QED
    BY <2>1, <2>2 DEF Ends
<1>8. ASSUME NEW i \in DOMAIN posted', posted'[i].kind = "Over"
      PROVE  i = n + 2
  <2>1. i \in 1 .. n \/ i = n + 1 \/ i = n + 2
    BY <1>5
  <2>2. i \notin 1 .. n
    BY <1>5, <1>7, <1>8 DEF Ends
  <2> QED
    BY <1>5, <1>8, <2>1, <2>2
<1>9. ASSUME NEW i \in DOMAIN posted', posted'[i].kind = "Updated"
      PROVE  i = n + 1
  <2>1. i \in 1 .. n \/ i = n + 1 \/ i = n + 2
    BY <1>5
  <2>2. i \notin 1 .. n
    BY <1>5, <1>7, <1>9 DEF Ends
  <2> QED
    BY <1>5, <1>9, <2>1, <2>2
<1>10. n + 1 + 1 = n + 2
  BY <1>5
<1>11. Waits("Over")' /\ Waits("Updated")'
  BY <1>5, <1>6 DEF Waits
<1>12. UpdateInOrder'
  BY <1>2, <1>5, <1>6, <1>8, <1>9, <1>10, <1>11 DEF UpdateInOrder
<1>13. NothingForgotten'
  <2>1. SUFFICES ASSUME watching, ~touched, ~again
                 PROVE  snapshot = disk
    BY <1>2, <1>11 DEF NothingForgotten
  <2>2. \A m \in Names : snapshot[m] = disk[m]
    BY <1>1, <1>2, <2>1 DEF NothingForgotten
  <2> QED
    BY <1>1, <2>2 DEF FolderTypes
<1>14. PlacesTrue'
  BY <1>1, <1>2 DEF PlacesTrue
<1>15. Now' = Now
  BY <1>2 DEF Now
<1>16. ModList(Now')
  BY <1>1, <1>15 DEF FolderTypes
<1>17. FolderTypes'
  BY <1>1, <1>2, <1>5, <1>16 DEF FolderTypes
<1> QED
  BY <1>12, <1>13, <1>14, <1>17 DEF FolderSound

\* The resolver is started, and its wakeups are posted.
LEMMA StartsFolder ==
    ASSUME FolderSound, PoolStarts
    PROVE  FolderSound'
<1>1. FolderTypes /\ PlacesTrue /\ UpdateInOrder /\ NothingForgotten
  BY DEF FolderSound
<1> DEFINE wakes == [i \in 1 .. MaxConcurrent |-> Wake]
           n == Len(posted)
           m == MaxConcurrent
<1>2. /\ posted' = posted \o wakes
      /\ UNCHANGED <<unread, snapshot, again, update, disk, touched, changes, watching, mods, places,
                     parses, active, queue>>
  BY DEF PoolStarts, diskVars, listVars, parseVars, updateVars
<1>3. Wake \in Events /\ ~Ends(Wake.kind)
  BY DEF Wake, Event, Events, Kinds, Ends
<1>4. wakes \in Seq(Events) /\ Len(wakes) = m /\ m \in Nat /\ \A i \in 1 .. m : wakes[i] = Wake
  <2>1. wakes \in [1 .. m -> Events] /\ m \in Nat
    BY <1>3, FolderAssumption
  <2>2. \A i \in 1 .. m : wakes[i] = Wake
    OBVIOUS
  <2> HIDE DEF wakes
  <2> QED
    BY <2>1, <2>2
<1>5. posted \in Seq(Events) /\ n \in Nat /\ DOMAIN posted = 1 .. n
  BY <1>1 DEF FolderTypes
<1> HIDE DEF wakes
<1>6. posted' \in Seq(Events) /\ Len(posted') = n + m
  BY <1>2, <1>4, <1>5, ConcatProperties
<1>7. \A i \in 1 .. n + m : posted'[i] = IF i <= n THEN posted[i] ELSE wakes[i - n]
  BY <1>2, <1>4, <1>5, ConcatProperties
<1> HIDE DEF n, m
<1>8. DOMAIN posted' = 1 .. n + m
  BY <1>6
<1>9. ASSUME NEW i \in 1 .. n
      PROVE  i \in DOMAIN posted' /\ posted'[i] = posted[i]
  <2>1. i \in 1 .. n + m /\ i <= n
    BY <1>4, <1>5
  <2> QED
    BY <1>7, <1>8, <2>1
<1>10. ASSUME NEW i \in DOMAIN posted', Ends(posted'[i].kind)
       PROVE  i \in 1 .. n
  <2>1. SUFFICES ASSUME i \notin 1 .. n
                 PROVE  FALSE
    OBVIOUS
  <2>2. i \in 1 .. n + m /\ ~(i <= n) /\ i - n \in 1 .. m
    BY <1>4, <1>5, <1>8, <2>1
  <2>3. posted'[i] = Wake
    BY <1>4, <1>7, <2>2
  <2> QED
    BY <1>3, <1>10, <2>3
<1>11. \A kind \in {"Updated", "Over"} : Waits(kind)' <=> Waits(kind)
  BY <1>5, <1>9, <1>10 DEF Waits, Ends
<1>12. UpdateInOrder'
  <2>1. ASSUME NEW i \in DOMAIN posted', posted'[i].kind = "Updated"
        PROVE  i + 1 \in DOMAIN posted' /\ posted'[i + 1].kind = "Over"
    <3>1. i \in 1 .. n /\ posted[i].kind = "Updated"
      BY <1>9, <1>10, <2>1 DEF Ends
    <3>2. i + 1 \in 1 .. n /\ posted[i + 1].kind = "Over"
      BY <1>1, <1>5, <3>1 DEF UpdateInOrder
    <3> QED
      BY <1>9, <3>2
  <2>2. ASSUME NEW i \in DOMAIN posted', NEW j \in DOMAIN posted',
               posted'[i].kind = "Over", posted'[j].kind = "Over"
        PROVE  i = j
    <3>1. i \in 1 .. n /\ posted[i].kind = "Over" /\ j \in 1 .. n /\ posted[j].kind = "Over"
      BY <1>9, <1>10, <2>2 DEF Ends
    <3> QED
      BY <1>1, <1>5, <3>1 DEF UpdateInOrder
  <2>3. update' = "Posted" <=> Waits("Over")'
    BY <1>1, <1>2, <1>11 DEF UpdateInOrder
  <2> QED
    BY <2>1, <2>2, <2>3 DEF UpdateInOrder
<1>13. NothingForgotten'
  <2>1. Shows(disk) => Shows(disk)'
    BY <1>2 DEF Shows
  <2> QED
    BY <1>1, <1>2, <1>11, <2>1, ForgottenKept
<1>14. PlacesTrue'
  BY <1>1, <1>2 DEF PlacesTrue
<1>15. Now' = Now
  BY <1>2 DEF Now
<1>16. ModList(Now')
  BY <1>1, <1>15 DEF FolderTypes
<1>17. FolderTypes'
  BY <1>1, <1>2, <1>6, <1>16 DEF FolderTypes
<1> QED
  BY <1>12, <1>13, <1>14, <1>17 DEF FolderSound

\* The main thread takes an event.
LEMMA HandleFolder ==
    ASSUME FolderSound, NEW e, Handle(e), ~astray'
    PROVE  FolderSound'
<1>1. /\ posted # <<>> /\ e = posted[1] /\ UNCHANGED <<diskVars, watching, switches>>
  BY DEF Handle, FolderSound, FolderTypes
<1>2. CASE e.kind = "Updated"
  BY <1>1, <1>2, UpdatedFolder DEF Handle
<1>3. CASE e.kind = "Over"
  BY <1>1, <1>3, OverFolder DEF Handle
<1>4. CASE e.kind = "Wake"
  BY <1>1, <1>4, WakeFolder DEF Handle
<1>5. CASE e.kind = "Parse"
  BY <1>1, <1>5, ParseFolder DEF Handle
<1>6. CASE e.kind = "Parsed"
  BY <1>1, <1>6, ParsedFolder DEF Handle
<1>7. CASE e.kind = "Done"
  BY <1>1, <1>7, DoneFolder DEF Handle
<1> QED
  BY <1>2, <1>3, <1>4, <1>5, <1>6, <1>7 DEF Handle

\* Nothing happens.
LEMMA StillFolder ==
    ASSUME FolderSound, UNCHANGED folderVars
    PROVE  FolderSound'
<1>1. UNCHANGED <<unread, snapshot, again, update, disk, touched, changes, watching, mods, places,
                  parses, active, queue, posted>>
  BY DEF folderVars, diskVars, listVars, parseVars, updateVars, resolverVars
<1>2. FolderTypes /\ PlacesTrue /\ UpdateInOrder /\ NothingForgotten
  BY DEF FolderSound
<1>3. Now' = Now
  BY <1>1 DEF Now
<1>4. ModList(Now')
  BY <1>2, <1>3 DEF FolderTypes
<1>5. FolderTypes'
  BY <1>1, <1>2, <1>4 DEF FolderTypes
<1>6. PlacesTrue' /\ UpdateInOrder'
  BY <1>1, <1>2, OrderKept DEF PlacesTrue
<1>7. Waits("Updated")' <=> Waits("Updated")
  BY <1>1 DEF Waits
<1>8. Shows(disk) => Shows(disk)'
  BY <1>1 DEF Shows
<1>9. NothingForgotten'
  BY <1>1, <1>2, <1>7, <1>8, ForgottenKept
<1> QED
  BY <1>5, <1>6, <1>9 DEF FolderSound

\* Who went astray has no way back.
LEMMA AstrayStays ==
    ASSUME [FolderNext]_folderVars, astray
    PROVE  astray'
<1>1. CASE \E row \in DOMAIN mods : Toggle(row)
  <2>1. PICK row \in DOMAIN mods : Toggle(row)
    BY <1>1
  <2> QED
    BY <2>1 DEF Toggle
<1>2. CASE \E e \in {posted[i] : i \in DOMAIN posted} : Handle(e)
  BY <1>2 DEF Handle, Parsed
<1>3. CASE UNCHANGED folderVars
  BY <1>3 DEF folderVars
<1>4. CASE \/ \E n \in Names : OthersChange(n)
           \/ \E n \in Given : Install(n)
           \/ \E row \in DOMAIN mods : Uninstall(row)
           \/ StartWatching \/ StopWatching \/ ChangeNoticed
           \/ List \/ Read \/ ReadEnds \/ PoolStarts
  BY <1>4 DEF OthersChange, Install, Uninstall, StartWatching, StopWatching, ChangeNoticed,
              List, Read, ReadEnds, PoolStarts
<1> QED
  BY <1>1, <1>2, <1>3, <1>4 DEF FolderNext, UserNext, ThreadNext

\* Every step keeps types, index, order of events and what is known of the folder.
LEMMA NextFolder ==
    ASSUME FolderSound, [FolderNext]_folderVars, ~astray'
    PROVE  FolderSound'
<1>1. CASE \E row \in DOMAIN mods : Toggle(row)
  BY <1>1, ToggleFolder
<1>2. CASE \E e \in {posted[i] : i \in DOMAIN posted} : Handle(e)
  BY <1>2, HandleFolder
<1>3. CASE UNCHANGED folderVars
  BY <1>3, StillFolder
<1>4. CASE \/ \E n \in Names : OthersChange(n)
           \/ \E n \in Given : Install(n)
           \/ \E row \in DOMAIN mods : Uninstall(row)
           \/ StartWatching \/ StopWatching \/ ChangeNoticed
  BY <1>4, PeopleFolder
<1>5. CASE List \/ Read \/ ReadEnds \/ PoolStarts
  BY <1>5, ListFolder, ReadSound, ReadEndsFolder, StartsFolder
<1> QED
  BY <1>1, <1>2, <1>3, <1>4, <1>5 DEF FolderNext, UserNext, ThreadNext

-----------------------------------------------------------------------------
\* An update is asked for again only while there is one.
LEMMA AgainKept ==
    ASSUME AgainInTime, [FolderNext]_folderVars
    PROVE  AgainInTime'
<1>1. CASE Update \/ UNCHANGED <<update, again>>
  BY <1>1 DEF AgainInTime, Update
<1>2. CASE List \/ ReadEnds
  BY <1>2 DEF AgainInTime, List, ReadEnds
<1>3. CASE \E e : Handle(e)
  BY <1>3 DEF Handle, Over, AgainInTime, updateVars
<1>4. CASE \E row : Toggle(row)
  <2>1. UNCHANGED updateVars
    BY <1>4 DEF Toggle
  <2> QED
    BY <1>1, <2>1 DEF updateVars
<1>5. CASE UNCHANGED folderVars
  BY <1>1, <1>5 DEF folderVars, updateVars
<1>6. CASE \/ \E n \in Names : OthersChange(n)
           \/ \E n \in Given : Install(n)
           \/ \E row \in DOMAIN mods : Uninstall(row)
           \/ StartWatching \/ StopWatching \/ ChangeNoticed \/ Read \/ PoolStarts
  <2>1. Update \/ UNCHANGED <<update, again>>
    BY <1>6 DEF OthersChange, Install, Uninstall, StartWatching, StopWatching, ChangeNoticed, Read,
                PoolStarts, updateVars
  <2> QED
    BY <1>1, <2>1
<1> QED
  BY <1>2, <1>3, <1>4, <1>5, <1>6 DEF FolderNext, UserNext, ThreadNext

\* FolderInv is an invariant.
THEOREM FolderCorrect == FolderSpec => []FolderInv
<1>1. FolderInit => FolderInv
  BY InitFolder DEF FolderInv, AgainInTime, FolderInit
<1>2. FolderInv /\ [FolderNext]_folderVars => FolderInv'
  <2> SUFFICES ASSUME FolderInv, [FolderNext]_folderVars
               PROVE  FolderInv'
    OBVIOUS
  <2>1. AgainInTime'
    BY AgainKept DEF FolderInv
  <2>2. ASSUME ~astray'
        PROVE  FolderSound'
    <3>1. ~astray
      BY <2>2, AstrayStays
    <3>2. FolderSound
      BY <3>1 DEF FolderInv, FolderSound
    <3> QED
      BY <2>2, <3>2, NextFolder
  <2> QED
    BY <2>1, <2>2 DEF FolderInv, FolderSound
<1> QED
  BY <1>1, <1>2, PTL DEF FolderSpec

\* As many rows as files, when each file has its row and each row is indexed.
LEMMA RowsCounted ==
    ASSUME FolderTypes, PlacesTrue, Shows(disk)
    PROVE  Len(mods) = Cardinality(There)
<1> DEFINE f == [i \in 1 .. Len(mods) |-> mods[i].name]
<1>1. /\ Len(mods) \in Nat /\ DOMAIN mods = 1 .. Len(mods)
      /\ \A i \in DOMAIN mods : mods[i] \in Mods
  BY DEF FolderTypes, ModList, Now
<1>2. \A i \in 1 .. Len(mods) : mods[i].name \in Names
  BY <1>1 DEF Mods
<1>3. \A i \in 1 .. Len(mods) : places[mods[i].name] = i /\ mods[i].name \in There
  BY <1>1, <1>2 DEF PlacesTrue, Shows, There
<1>4. \A n \in There : places[n] \in 1 .. Len(mods) /\ mods[places[n]].name = n
  BY <1>1 DEF Shows, There
<1>5. f \in Bijection(1 .. Len(mods), There)
  <2>1. f \in [1 .. Len(mods) -> There]
    BY <1>3
  <2>2. \A i, j \in 1 .. Len(mods) : f[i] = f[j] => i = j
    <3>1. \A i \in 1 .. Len(mods) : f[i] = mods[i].name
      OBVIOUS
    <3> HIDE DEF f
    <3> QED
      BY <1>3, <3>1
  <2>3. \A n \in There : \E i \in 1 .. Len(mods) : f[i] = n
    BY <1>4
  <2> HIDE DEF f
  <2> QED
    BY <2>1, <2>2, <2>3 DEF Bijection, Injection, Surjection, IsInjective
<1>6. ExistsBijection(1 .. Len(mods), There)
  BY <1>5 DEF ExistsBijection
<1> QED
  BY <1>1, <1>6, FS_CountingElements

\* ListIsTrue: a list that is watched and has no update to make shows the folder.
THEOREM ListAlwaysTrue == FolderSpec => []ListIsTrue
<1>1. FolderInv => ListIsTrue
  <2>1. SUFFICES ASSUME FolderInv, Settled
                 PROVE  Shows(disk) /\ Len(mods) = Cardinality(There)
    BY DEF ListIsTrue, Shows
  <2>2. Shows(disk)
    BY <2>1 DEF FolderInv, AgainInTime, NothingForgotten, Settled
  <2> QED
    BY <2>1, <2>2, RowsCounted DEF FolderInv, Settled
<1> QED
  BY <1>1, FolderCorrect, PTL

-----------------------------------------------------------------------------
(* DetailsAreTrue: the order of the events. *)

\* The first event is taken.
LEMMA StageTail ==
    ASSUME NEW p \in Seq(Events), p # <<>>, NEW q, q = Tail(p)
    PROVE  /\ q \in Seq(Events)
           /\ \A k : Stage(p, k) = Stage(q, k) \cup (IF p[1].kind = k THEN {p[1].ticket} ELSE {})
           /\ Sorted(p) =>
                /\ Sorted(q)
                /\ p[1].kind = "Parse" => \A u \in Stage(q, "Parse") : p[1].ticket < u
                /\ p[1].kind = "Parsed" => \A u \in Stage(q, "Parsed") : p[1].ticket < u
                /\ p[1].kind = "Done" => p[1].ticket \notin Stage(q, "Parsed")
<1> DEFINE n == Len(p)
<1>1. /\ q \in Seq(Events) /\ Len(q) = n - 1 /\ n \in Nat /\ n # 0
      /\ \A i \in 1 .. n - 1 : q[i] = p[i + 1]
  BY EmptySeq
<1>2. DOMAIN p = 1 .. n /\ DOMAIN q = 1 .. n - 1
  BY <1>1
<1> HIDE DEF n
<1>3. 1 \in DOMAIN p /\ \A i \in DOMAIN q : i + 1 \in DOMAIN p /\ q[i] = p[i + 1] /\ 1 < i + 1
  BY <1>1, <1>2
<1>4. \A i \in DOMAIN p : i # 1 => i - 1 \in DOMAIN q /\ i - 1 + 1 = i
  BY <1>1, <1>2
<1>5. \A i \in DOMAIN p : i # 1 => i - 1 \in DOMAIN q /\ q[i - 1] = p[i]
  BY <1>3, <1>4
<1>6. ASSUME NEW k
      PROVE  Stage(p, k) = Stage(q, k) \cup (IF p[1].kind = k THEN {p[1].ticket} ELSE {})
  <2>1. ASSUME NEW i \in DOMAIN p, p[i].kind = k
        PROVE  p[i].ticket \in Stage(q, k) \cup (IF p[1].kind = k THEN {p[1].ticket} ELSE {})
    <3>1. CASE i = 1
      BY <2>1, <3>1
    <3>2. CASE i # 1
      BY <1>5, <2>1, <3>2 DEF Stage
    <3> QED
      BY <3>1, <3>2
  <2>2. Stage(q, k) \subseteq Stage(p, k)
    BY <1>3 DEF Stage
  <2>3. p[1].kind = k => p[1].ticket \in Stage(p, k)
    BY <1>3 DEF Stage
  <2>4. Stage(p, k) \subseteq Stage(q, k) \cup (IF p[1].kind = k THEN {p[1].ticket} ELSE {})
    BY <2>1 DEF Stage
  <2> QED
    BY <2>2, <2>3, <2>4
<1>7. ASSUME Sorted(p)
      PROVE  Sorted(q)
  <2>1. ASSUME NEW i \in DOMAIN q, NEW j \in DOMAIN q, i < j
        PROVE  i + 1 < j + 1
    BY <1>1, <1>2, <2>1
  <2> QED
    BY <1>3, <1>7, <2>1 DEF Sorted
<1>8. ASSUME Sorted(p)
      PROVE  /\ p[1].kind = "Parse" => \A u \in Stage(q, "Parse") : p[1].ticket < u
             /\ p[1].kind = "Parsed" => \A u \in Stage(q, "Parsed") : p[1].ticket < u
             /\ p[1].kind = "Done" => p[1].ticket \notin Stage(q, "Parsed")
  BY <1>3, <1>8 DEF Sorted, Stage
<1> QED
  BY <1>1, <1>6, <1>7, <1>8

\* An event is posted.
LEMMA StageAppend ==
    ASSUME NEW p \in Seq(Events), NEW e \in Events
    PROVE  /\ Append(p, e) \in Seq(Events)
           /\ \A k : Stage(Append(p, e), k) = Stage(p, k) \cup (IF e.kind = k THEN {e.ticket} ELSE {})
           /\ /\ Sorted(p)
              /\ e.kind = "Parse" => \A u \in Stage(p, "Parse") : u < e.ticket
              /\ e.kind = "Parsed" => /\ \A u \in Stage(p, "Parsed") : u < e.ticket
                                      /\ e.ticket \notin Stage(p, "Done")
              => Sorted(Append(p, e))
<1> DEFINE n == Len(p)
           q == Append(p, e)
<1>1. /\ q \in Seq(Events) /\ Len(q) = n + 1 /\ n \in Nat
      /\ q[n + 1] = e /\ \A i \in 1 .. n : q[i] = p[i]
  OBVIOUS
<1>2. DOMAIN p = 1 .. n /\ DOMAIN q = 1 .. n + 1
  BY <1>1
<1> HIDE DEF n, q
<1>3. \A i \in DOMAIN p : i \in DOMAIN q /\ q[i] = p[i] /\ i < n + 1
  BY <1>1, <1>2
<1>4. \A i \in DOMAIN q : i = n + 1 \/ i \in DOMAIN p
  BY <1>1, <1>2
<1>5. n + 1 \in DOMAIN q /\ \A i \in DOMAIN q : ~(n + 1 < i)
  BY <1>1, <1>2
<1>6. ASSUME NEW k
      PROVE  Stage(q, k) = Stage(p, k) \cup (IF e.kind = k THEN {e.ticket} ELSE {})
  <2>1. Stage(p, k) \subseteq Stage(q, k)
    BY <1>3 DEF Stage
  <2>2. e.kind = k => e.ticket \in Stage(q, k)
    BY <1>1, <1>5 DEF Stage
  <2>3. ASSUME NEW i \in DOMAIN q, q[i].kind = k
        PROVE  q[i].ticket \in Stage(p, k) \cup (IF e.kind = k THEN {e.ticket} ELSE {})
    <3>1. CASE i = n + 1
      BY <1>1, <2>3, <3>1
    <3>2. CASE i \in DOMAIN p
      BY <1>3, <2>3, <3>2 DEF Stage
    <3> QED
      BY <1>4, <3>1, <3>2
  <2>4. Stage(q, k) \subseteq Stage(p, k) \cup (IF e.kind = k THEN {e.ticket} ELSE {})
    BY <2>3 DEF Stage
  <2> QED
    BY <2>1, <2>2, <2>4
<1>7. ASSUME Sorted(p),
             e.kind = "Parse" => \A u \in Stage(p, "Parse") : u < e.ticket,
             e.kind = "Parsed" => /\ \A u \in Stage(p, "Parsed") : u < e.ticket
                                  /\ e.ticket \notin Stage(p, "Done")
      PROVE  Sorted(q)
  <2>1. SUFFICES ASSUME NEW i \in DOMAIN q, NEW j \in DOMAIN q, i < j
                 PROVE  /\ q[i].kind = "Parse" /\ q[j].kind = "Parse" => q[i].ticket < q[j].ticket
                        /\ q[i].kind = "Parsed" /\ q[j].kind = "Parsed" => q[i].ticket < q[j].ticket
                        /\ q[i].kind = "Done" /\ q[j].kind = "Parsed" => q[i].ticket # q[j].ticket
    BY DEF Sorted
  <2>2. i \in DOMAIN p /\ q[i] = p[i]
    BY <1>3, <1>4, <1>5, <2>1
  <2>3. CASE j = n + 1
    <3>1. q[j] = e
      BY <1>1, <2>3
    <3> QED
      BY <1>7, <2>2, <3>1 DEF Stage
  <2>4. CASE j \in DOMAIN p
    <3>1. q[j] = p[j]
      BY <1>3, <2>4
    <3> QED
      BY <1>7, <2>1, <2>2, <2>4, <3>1 DEF Sorted
  <2> QED
    BY <1>4, <2>3, <2>4
<1> QED
  BY <1>1, <1>6, <1>7 DEF q

\* Events that have nothing to do with tasks are posted.
LEMMA StageMore ==
    ASSUME NEW p \in Seq(Events), NEW more \in Seq(Events),
           \A i \in DOMAIN more : more[i].kind \notin {"Parse", "Parsed", "Done"},
           NEW q, q = p \o more
    PROVE  /\ \A k \in {"Parse", "Parsed", "Done"} : Stage(q, k) = Stage(p, k)
           /\ Sorted(p) => Sorted(q)
<1> DEFINE n == Len(p)
           m == Len(more)
           S == {"Parse", "Parsed", "Done"}
<1>1. n \in Nat /\ m \in Nat /\ DOMAIN p = 1 .. n /\ DOMAIN more = 1 .. m
  OBVIOUS
<1>2. /\ q \in Seq(Events) /\ Len(q) = n + m
      /\ \A i \in 1 .. n + m : q[i] = IF i <= n THEN p[i] ELSE more[i - n]
  BY ConcatProperties
<1> HIDE DEF n, m, S
<1>3. DOMAIN q = 1 .. n + m
  BY <1>2
<1>4. ASSUME NEW i \in DOMAIN p
      PROVE  i \in DOMAIN q /\ q[i] = p[i]
  <2>1. i \in 1 .. n + m /\ i <= n
    BY <1>1
  <2> QED
    BY <1>2, <1>3, <2>1
<1>5. ASSUME NEW i \in DOMAIN q, q[i].kind \in S
      PROVE  i \in DOMAIN p
  <2>1. SUFFICES ASSUME i \notin DOMAIN p
                 PROVE  FALSE
    OBVIOUS
  <2>2. i \in 1 .. n + m /\ ~(i <= n) /\ i - n \in DOMAIN more
    BY <1>1, <1>3, <2>1
  <2>3. q[i] = more[i - n]
    BY <1>2, <2>2
  <2> QED
    BY <1>5, <2>2, <2>3 DEF S
<1>6. \A k \in S : Stage(q, k) = Stage(p, k)
  BY <1>4, <1>5 DEF Stage
<1>7. ASSUME Sorted(p)
      PROVE  Sorted(q)
  <2>1. SUFFICES ASSUME NEW i \in DOMAIN q, NEW j \in DOMAIN q, i < j,
                        q[i].kind \in S, q[j].kind \in S
                 PROVE  /\ q[i].kind = "Parse" /\ q[j].kind = "Parse" => q[i].ticket < q[j].ticket
                        /\ q[i].kind = "Parsed" /\ q[j].kind = "Parsed" => q[i].ticket < q[j].ticket
                        /\ q[i].kind = "Done" /\ q[j].kind = "Parsed" => q[i].ticket # q[j].ticket
    BY DEF Sorted, S
  <2>2. i \in DOMAIN p /\ j \in DOMAIN p /\ q[i] = p[i] /\ q[j] = p[j]
    BY <1>4, <1>5, <2>1
  <2> QED
    BY <1>7, <2>1, <2>2 DEF Sorted
<1> QED
  BY <1>6, <1>7 DEF S

\* The tickets of events are numbers.
LEMMA StageNat ==
    ASSUME NEW p \in Seq(Events), NEW k
    PROVE  Stage(p, k) \subseteq Nat
<1>1. \A i \in DOMAIN p : p[i] \in Events
  OBVIOUS
<1> QED
  BY <1>1 DEF Stage, Events

\* The queue: what is taken from it, and what is put in.
LEMMA QueueTail ==
    ASSUME NEW s \in Seq(Nat), s # <<>>, Rising(s)
    PROVE  /\ Rising(Tail(s)) /\ ToSet(s) = ToSet(Tail(s)) \cup {Head(s)}
           /\ Head(s) \in Nat /\ \A u \in ToSet(Tail(s)) : Head(s) < u
<1> DEFINE n == Len(s)
           r == Tail(s)
<1>1. /\ r \in Seq(Nat) /\ Len(r) = n - 1 /\ n \in Nat /\ n # 0 /\ Head(s) = s[1]
      /\ \A i \in 1 .. n - 1 : r[i] = s[i + 1]
  BY EmptySeq
<1>2. DOMAIN s = 1 .. n /\ DOMAIN r = 1 .. n - 1
  BY <1>1
<1> HIDE DEF n, r
<1>3. 1 \in DOMAIN s /\ \A i \in DOMAIN r : i + 1 \in DOMAIN s /\ r[i] = s[i + 1] /\ 1 < i + 1
  BY <1>1, <1>2
<1>4. \A i \in DOMAIN s : i # 1 => i - 1 \in DOMAIN r /\ i - 1 + 1 = i
  BY <1>1, <1>2
<1>5. \A i \in DOMAIN s : i # 1 => i - 1 \in DOMAIN r /\ r[i - 1] = s[i]
  BY <1>3, <1>4
<1>6. ToSet(s) = ToSet(r) \cup {s[1]}
  <2>1. ToSet(r) \subseteq ToSet(s) /\ s[1] \in ToSet(s)
    BY <1>3 DEF ToSet
  <2>2. \A i \in DOMAIN s : s[i] \in ToSet(r) \cup {s[1]}
    BY <1>5 DEF ToSet
  <2> QED
    BY <2>1, <2>2 DEF ToSet
<1>7. Rising(r)
  <2>1. ASSUME NEW i \in DOMAIN r, NEW j \in DOMAIN r, i < j
        PROVE  i + 1 < j + 1
    BY <1>1, <1>2, <2>1
  <2> QED
    BY <1>3, <2>1 DEF Rising
<1>8. \A u \in ToSet(r) : s[1] < u
  BY <1>3 DEF Rising, ToSet
<1>9. s[1] \in Nat
  BY <1>3
<1> QED
  BY <1>1, <1>6, <1>7, <1>8, <1>9 DEF r

\* What a sequence has with one more element.
LEMMA AppendSet ==
    ASSUME NEW s \in Seq(Nat), NEW t \in Nat
    PROVE  ToSet(Append(s, t)) = ToSet(s) \cup {t}
<1> DEFINE n == Len(s)
           r == Append(s, t)
<1>1. /\ r \in Seq(Nat) /\ Len(r) = n + 1 /\ n \in Nat
      /\ r[n + 1] = t /\ \A i \in 1 .. n : r[i] = s[i]
  OBVIOUS
<1>2. DOMAIN s = 1 .. n /\ DOMAIN r = 1 .. n + 1
  BY <1>1
<1> HIDE DEF n, r
<1>3. \A i \in DOMAIN s : i \in DOMAIN r
  BY <1>1, <1>2
<1>4. \A i \in DOMAIN r : i = n + 1 \/ i \in DOMAIN s
  BY <1>1, <1>2
<1>5. n + 1 \in DOMAIN r
  BY <1>1, <1>2
<1>6. \A i \in DOMAIN r : r[i] \in ToSet(s) \cup {t}
  BY <1>1, <1>2, <1>4 DEF ToSet
<1>7. ToSet(s) \cup {t} \subseteq ToSet(r)
  BY <1>1, <1>2, <1>3, <1>5 DEF ToSet
<1>8. ToSet(r) \subseteq ToSet(s) \cup {t}
  BY <1>6 DEF ToSet
<1> QED
  BY <1>7, <1>8 DEF r

\* A queue stays rising with a greater ticket at its end.
LEMMA QueueAppend ==
    ASSUME NEW s \in Seq(Nat), NEW t \in Nat, Rising(s), \A u \in ToSet(s) : u < t
    PROVE  Rising(Append(s, t))
<1> DEFINE n == Len(s)
           r == Append(s, t)
<1>1. /\ r \in Seq(Nat) /\ Len(r) = n + 1 /\ n \in Nat
      /\ r[n + 1] = t /\ \A i \in 1 .. n : r[i] = s[i]
  OBVIOUS
<1>2. DOMAIN s = 1 .. n /\ DOMAIN r = 1 .. n + 1
  BY <1>1
<1> HIDE DEF n, r
<1>3. SUFFICES ASSUME NEW i \in DOMAIN r, NEW j \in DOMAIN r, i < j
               PROVE  r[i] < r[j]
  BY DEF Rising, r
<1>4. i \in DOMAIN s /\ r[i] = s[i]
  BY <1>1, <1>2, <1>3
<1>5. CASE j = n + 1
  BY <1>1, <1>4, <1>5 DEF ToSet
<1>6. CASE j # n + 1
  <2>1. j \in DOMAIN s /\ r[j] = s[j]
    BY <1>1, <1>2, <1>6
  <2> QED
    BY <1>3, <1>4, <2>1 DEF Rising
<1> QED
  BY <1>5, <1>6

-----------------------------------------------------------------------------
(* DetailsAreTrue: what applyUpdates does. *)

\* What a row is stays true when its task is the one it was, no older task comes
\* back, and the tasks that come are for other names.
LEMMA RowCarried ==
    ASSUME NEW d, NEW l, NEW p, NEW r, RowTrue(d, l, p, r), NEW l2, NEW p2,
           r.ticket \in DOMAIN l2.parses,
           l2.parses[r.ticket].name = l.parses[r.ticket].name,
           l2.parses[r.ticket].file = l.parses[r.ticket].file,
           l2.parses[r.ticket].details = l.parses[r.ticket].details,
           l2.parses[r.ticket].aborted = l.parses[r.ticket].aborted,
           r.ticket \in l2.active => r.ticket \in l.active,
           r.ticket \in Pending(l, p) => r.ticket \in Pending(l2, p2),
           r.ticket \in Untried(l, p) => r.ticket \in Untried(l2, p2),
           \A u \in Pending(l2, p2) : \/ u \in Pending(l, p) /\ l2.parses[u].name = l.parses[u].name
                                      \/ u > r.ticket /\ l2.parses[u].name # r.name
    PROVE  RowTrue(d, l2, p2, r)
<1> DEFINE t == r.ticket
<1>1. /\ t \in DOMAIN l.parses /\ l.parses[t].name = r.name /\ ~l.parses[t].aborted
      /\ r.stamp # None
      /\ r.sure =>
           /\ t \in l.active => l.parses[t].file = r.name
           /\ t \in Pending(l, p) \/ (r.resolved /\ r.details = l.parses[t].details)
           /\ \A u \in Pending(l, p) : l.parses[u].name = r.name => u <= t
           /\ t \notin Pending(l, p) => \A u \in Pending(l, p) : u > t
           /\ t \notin Untried(l, p) => l.parses[t].details = r.stamp \/ d[r.name] # r.stamp
  BY DEF RowTrue
<1>2. ASSUME r.sure
      PROVE  /\ t \in l2.active => l2.parses[t].file = r.name
             /\ t \in Pending(l2, p2) \/ (r.resolved /\ r.details = l2.parses[t].details)
             /\ t \notin Untried(l2, p2) => l2.parses[t].details = r.stamp \/ d[r.name] # r.stamp
  BY <1>1, <1>2
<1>3. ASSUME r.sure, NEW u \in Pending(l2, p2), l2.parses[u].name = r.name
      PROVE  u <= t
  BY <1>1, <1>3
<1>4. ASSUME r.sure, t \notin Pending(l2, p2), NEW u \in Pending(l2, p2)
      PROVE  u > t
  BY <1>1, <1>4
<1> QED
  BY <1>1, <1>2, <1>3, <1>4 DEF RowTrue

\* No two rows have one ticket.
LEMMA TicketsDiffer ==
    ASSUME NEW d, NEW l, NEW p, RowsTrue(d, l, p),
           NEW i \in DOMAIN l.mods, NEW j \in DOMAIN l.mods, l.mods[i].name # l.mods[j].name
    PROVE  l.mods[i].ticket # l.mods[j].ticket
  BY DEF RowsTrue, RowTrue

\* A task is aborted.
LEMMA StoppedTrue ==
    ASSUME NEW l, NEW p, ModList(l), InTurn(l, p), NEW mod \in Mods, NEW s, s = Stopped(l, mod)
    PROVE  /\ InTurn(s, p) /\ Untried(s, p) = Untried(l, p) /\ Pending(s, p) = Pending(l, p)
           /\ \A d, r : RowTrue(d, l, p, r) /\ r.ticket # mod.ticket => RowTrue(d, s, p, r)
<1>1. /\ ModList(s) /\ s.active = l.active /\ s.queue = l.queue /\ Len(s.parses) = Len(l.parses)
      /\ \A t \in 1 .. Len(l.parses) :
           /\ s.parses[t].name = l.parses[t].name /\ s.parses[t].file = l.parses[t].file
           /\ s.parses[t].details = l.parses[t].details
           /\ t # mod.ticket => s.parses[t].aborted = l.parses[t].aborted
  BY StoppedIs
<1>2. DOMAIN l.parses = 1 .. Len(l.parses) /\ DOMAIN s.parses = 1 .. Len(l.parses)
  BY <1>1, ListIs
<1>3. Untried(s, p) = Untried(l, p) /\ Pending(s, p) = Pending(l, p)
  BY <1>1 DEF Untried, Pending
<1>4. /\ Pending(l, p) \subseteq 1 .. Len(l.parses) /\ Untried(l, p) \subseteq 1 .. Len(l.parses)
      /\ Pending(l, p) \subseteq l.active
  BY DEF InTurn, ModList, Pending
<1>5. InTurn(s, p)
  BY <1>1, <1>3, <1>4 DEF InTurn
<1>6. ASSUME NEW d, NEW r, RowTrue(d, l, p, r), r.ticket # mod.ticket
      PROVE  RowTrue(d, s, p, r)
  <2>1. r.ticket \in 1 .. Len(l.parses)
    BY <1>2, <1>6 DEF RowTrue
  <2> QED
    BY <1>1, <1>2, <1>3, <1>4, <1>6, <2>1, RowCarried
<1> QED
  BY <1>3, <1>5, <1>6

\* The tickets there are.
LEMMA TicketsAre ==
    ASSUME NEW l, NEW p \in Seq(Events), ModList(l), InTurn(l, p)
    PROVE  /\ Pending(l, p) \subseteq 1 .. Len(l.parses) /\ Untried(l, p) \subseteq Pending(l, p)
           /\ Len(l.parses) \in Nat /\ Pending(l, p) \subseteq Nat
           /\ ToSet(l.queue) \subseteq Untried(l, p)
           /\ Stage(p, "Parse") \subseteq Untried(l, p) /\ Stage(p, "Parsed") \subseteq Pending(l, p)
<1>1. Len(l.parses) \in Nat
  BY DEF ModList
<1> QED
  BY <1>1 DEF Pending, Untried, InTurn, ModList

\* The rows of `s' are rows of `l', or made from the file `n'.
RowsFrom(l, s, n) ==
    \A i \in DOMAIN s.mods : \/ i \in DOMAIN l.mods /\ s.mods[i] = l.mods[i]
                             \/ s.mods[i].name = n /\ s.mods[i].stamp = snapshot[n]

\* All rows but one are sound, and it is the one `n' has, if any.
OthersTrue(d, l, p, row, n) ==
    \A i \in DOMAIN l.mods : i # row => l.mods[i].name # n /\ RowTrue(d, l, p, l.mods[i])

\* A mod becomes a row, with a task that is the last in turn.
LEMMA PlacedTrue ==
    ASSUME NEW d, NEW l, NEW p \in Seq(Events), ModList(l), InTurn(l, p), NEW n \in NewSet,
           snapshot \in [Names -> Int], NEW row \in 1 .. Len(l.mods) + 1,
           OthersTrue(d, l, p, row, n), NEW s, s = Placed(l, row, n)
    PROVE  InTurn(s, p) /\ RowsTrue(d, s, p) /\ RowsFrom(l, s, n)
<1> DEFINE T == Len(l.parses) + 1
<1>1. n \in Names /\ snapshot[n] # None
  BY DEF NewSet
<1>2. /\ ModList(s)
      /\ DOMAIN s.mods = DOMAIN l.mods \cup {row}
      /\ s.mods[row] = Mod(n, snapshot[n], T)
      /\ \A i \in DOMAIN s.mods : i # row => s.mods[i] = l.mods[i]
      /\ Len(s.parses) = T /\ s.parses[T] = Parse(n)
      /\ \A t \in 1 .. Len(l.parses) : s.parses[t] = l.parses[t]
      /\ s.active = l.active \cup {T}
      /\ s.queue = Append(l.queue, T)
      /\ ToSet(s.queue) = ToSet(l.queue) \cup {T}
  <2> HIDE DEF T
  <2>1. /\ ModList(s)
        /\ DOMAIN s.mods = DOMAIN l.mods \cup {row}
        /\ s.mods[row] = Mod(n, snapshot[n], Len(l.parses) + 1)
        /\ \A i \in DOMAIN s.mods : i # row => s.mods[i] = l.mods[i]
        /\ Len(s.parses) = Len(l.parses) + 1 /\ s.parses[Len(l.parses) + 1] = Parse(n)
        /\ \A t \in 1 .. Len(l.parses) : s.parses[t] = l.parses[t]
        /\ s.active = l.active \cup {Len(l.parses) + 1}
        /\ s.queue = Append(l.queue, Len(l.parses) + 1)
    BY <1>1, PlacedIs, SMTT(30)
  <2>2. l.queue \in Seq(Nat) /\ Len(l.parses) + 1 \in Nat
    BY DEF ModList
  <2>3. ToSet(Append(l.queue, Len(l.parses) + 1)) = ToSet(l.queue) \cup {Len(l.parses) + 1}
    BY <2>2, AppendSet
  <2> QED
    BY <2>1, <2>3 DEF T
<1>3. /\ Pending(l, p) \subseteq 1 .. Len(l.parses) /\ Untried(l, p) \subseteq Pending(l, p)
      /\ ToSet(l.queue) \subseteq 1 .. Len(l.parses) /\ Len(l.parses) \in Nat
      /\ Stage(p, "Parse") \subseteq Untried(l, p) /\ Stage(p, "Parsed") \subseteq Pending(l, p)
  BY TicketsAre DEF ModList
<1>4. T \in Nat /\ \A t \in 1 .. Len(l.parses) : t < T /\ t # T
  BY <1>3
<1>5. Untried(s, p) = Untried(l, p) \cup {T} /\ Pending(s, p) = Pending(l, p) \cup {T}
  BY <1>2 DEF Untried, Pending
<1>6. DOMAIN s.parses = 1 .. T /\ DOMAIN l.parses = 1 .. Len(l.parses)
  BY <1>2, ListIs
<1>7. \A t \in 1 .. Len(l.parses) : t \in 1 .. T
  BY <1>3
<1>8. T \in 1 .. T
  BY <1>4
<1> HIDE DEF T
<1>9. InTurn(s, p)
  <2>1. Rising(s.queue)
    <3>1. l.queue \in Seq(Nat) /\ Rising(l.queue)
      BY DEF InTurn, ModList
    <3>2. \A u \in ToSet(l.queue) : u < T
      BY <1>3, <1>4
    <3> QED
      BY <1>2, <1>4, <3>1, <3>2, QueueAppend
  <2>2. \A t \in Stage(p, "Parse"), u \in ToSet(s.queue) : t < u
    BY <1>2, <1>3, <1>4 DEF InTurn
  <2>3. \A t \in Stage(p, "Parsed"), u \in Untried(s, p) : t < u
    BY <1>3, <1>4, <1>5 DEF InTurn
  <2>4. \A t \in Stage(p, "Done") : t \notin Untried(s, p) /\ t \in 1 .. Len(s.parses)
    BY <1>2, <1>4, <1>5, <1>7 DEF InTurn
  <2>5. Pending(s, p) \subseteq s.active
    BY <1>2, <1>5 DEF InTurn
  <2>6. \A t \in Untried(s, p) : s.parses[t].details = 0
    BY <1>2, <1>3, <1>5 DEF InTurn, Parse
  <2> QED
    BY <2>1, <2>2, <2>3, <2>4, <2>5, <2>6 DEF InTurn
<1>10. ASSUME NEW i \in DOMAIN s.mods
       PROVE  RowTrue(d, s, p, s.mods[i])
  <2>1. CASE i = row
    <3> DEFINE r == Mod(n, snapshot[n], T)
    <3>1. /\ r.ticket = T /\ r.name = n /\ r.stamp = snapshot[n]
          /\ s.parses[T].name = n /\ s.parses[T].file = n /\ s.parses[T].aborted = FALSE
      BY <1>2 DEF Mod, Parse
    <3> HIDE DEF r
    <3>2. T \in Pending(s, p) /\ T \in Untried(s, p) /\ \A u \in Pending(s, p) : u <= T
      BY <1>3, <1>4, <1>5
    <3>3. RowTrue(d, s, p, r)
      BY <1>1, <1>6, <1>8, <3>1, <3>2 DEF RowTrue
    <3> QED
      BY <1>2, <2>1, <3>3 DEF r
  <2>2. CASE i # row
    <3> DEFINE r == l.mods[i]
    <3>1. r = s.mods[i] /\ i \in DOMAIN l.mods /\ r.name # n /\ RowTrue(d, l, p, r)
      BY <1>2, <2>2 DEF OthersTrue
    <3> HIDE DEF r
    <3>2. r.ticket \in 1 .. Len(l.parses) /\ r.ticket \in 1 .. T /\ r.ticket # T /\ T > r.ticket
      BY <1>4, <1>6, <1>7, <3>1 DEF RowTrue
    <3>3. s.parses[T].name # r.name
      BY <1>2, <3>1 DEF Parse
    <3>4. r.ticket \in DOMAIN s.parses /\ s.parses[r.ticket] = l.parses[r.ticket]
      BY <1>2, <1>6, <3>2
    <3>5. r.ticket \in s.active => r.ticket \in l.active
      BY <1>2, <3>2
    <3>6. \A u \in Pending(s, p) : \/ u \in Pending(l, p) /\ s.parses[u].name = l.parses[u].name
                                   \/ u > r.ticket /\ s.parses[u].name # r.name
      BY <1>2, <1>3, <1>5, <3>2, <3>3
    <3>7. RowTrue(d, s, p, r)
      BY <1>5, <3>1, <3>4, <3>5, <3>6, RowCarried, ZenonT(40)
    <3> QED
      BY <3>1, <3>7
  <2> QED
    BY <2>1, <2>2
<1>11. s.mods[row].name = n /\ s.mods[row].stamp = snapshot[n]
  BY <1>2 DEF Mod
<1>12. RowsFrom(l, s, n)
  BY <1>2, <1>11 DEF RowsFrom
<1> QED
  BY <1>9, <1>10, <1>12 DEF RowsTrue

\* A row goes.
LEMMA DroppedTrue ==
    ASSUME NEW d, NEW l, NEW p \in Seq(Events), ModList(l), InTurn(l, p), RowsTrue(d, l, p),
           \A i, j \in DOMAIN l.mods : l.mods[i].name = l.mods[j].name => i = j,
           NEW n, places[n] \in 1 .. Len(l.mods), NEW s, s = Dropped(l, n)
    PROVE  /\ InTurn(s, p) /\ RowsTrue(d, s, p)
           /\ \A i \in DOMAIN s.mods : \E j \in DOMAIN l.mods : s.mods[i] = l.mods[j]
<1> DEFINE k == places[n]
           m == Len(l.mods)
           mod == l.mods[k]
           q == Stopped(l, mod)
           Old(i) == IF i < k THEN i ELSE i + 1
<1>1. /\ ModList(s) /\ Len(s.mods) = m - 1
      /\ \A i \in 1 .. m - 1 : s.mods[i] = IF i < k THEN l.mods[i] ELSE l.mods[i + 1]
      /\ s.parses = q.parses /\ s.active = q.active /\ s.queue = q.queue
  BY DroppedIs
<1>2. /\ m \in Nat /\ DOMAIN l.mods = 1 .. m /\ \A i \in DOMAIN l.mods : l.mods[i] \in Mods
  BY ListIs
<1>3. DOMAIN s.mods = 1 .. m - 1
  BY <1>1, ListIs
<1>4. k \in 1 .. m /\ mod \in Mods /\ mod = l.mods[k]
  BY <1>2
<1> HIDE DEF m, k, mod
<1>11. ModList(q) /\ Len(q.parses) = Len(l.parses)
  BY <1>4, StoppedIs
<1>12. /\ InTurn(q, p)
       /\ \A e, r : RowTrue(e, l, p, r) /\ r.ticket # mod.ticket => RowTrue(e, q, p, r)
  BY <1>4, StoppedTrue
<1>5. /\ InTurn(q, p)
      /\ \A r : RowTrue(d, l, p, r) /\ r.ticket # l.mods[k].ticket => RowTrue(d, q, p, r)
  BY <1>4, <1>12
<1> HIDE DEF q
<1>6. Untried(s, p) = Untried(q, p) /\ Pending(s, p) = Pending(q, p)
  BY <1>1 DEF Untried, Pending
<1>7. InTurn(s, p)
  BY <1>1, <1>5, <1>6 DEF InTurn
<1>8. ASSUME NEW i \in 1 .. m - 1
      PROVE  Old(i) \in 1 .. m /\ Old(i) # k /\ s.mods[i] = l.mods[Old(i)]
  BY <1>1, <1>2, <1>4, <1>8, SMTT(30)
<1> HIDE DEF Old
<1>9. ASSUME NEW i \in 1 .. m - 1
      PROVE  RowTrue(d, s, p, s.mods[i])
  <2> DEFINE r == s.mods[i]
  <2>1. l.mods[Old(i)].name # l.mods[k].name
    BY <1>2, <1>4, <1>8
  <2> DEFINE j == Old(i)
  <2>5. j \in DOMAIN l.mods /\ k \in DOMAIN l.mods /\ r = l.mods[j] /\ l.mods[j].name # l.mods[k].name
    BY <1>2, <1>4, <1>8, <2>1
  <2> HIDE DEF j, r
  <2>6. l.mods[j].ticket # l.mods[k].ticket
    BY <2>5, TicketsDiffer
  <2>2. r.ticket # l.mods[k].ticket /\ RowTrue(d, l, p, r)
    BY <2>5, <2>6 DEF RowsTrue
  <2>3. RowTrue(d, q, p, r)
    BY <1>5, <2>2
  <2> HIDE DEF r
  <2>4. RowTrue(d, s, p, r)
    BY <1>1, <1>6, <2>3 DEF RowTrue
  <2> QED
    BY <2>4 DEF r
<1>10. \A i \in DOMAIN s.mods : \E j \in DOMAIN l.mods : s.mods[i] = l.mods[j]
  BY <1>2, <1>3, <1>8
<1> QED
  BY <1>3, <1>7, <1>9, <1>10 DEF RowsTrue

\* One name after the other.
LEMMA TreatedTrue ==
    ASSUME NEW d, NEW f, NEW l, NEW p \in Seq(Events), NEW done \in SUBSET Names, Partly(l, done),
           InTurn(l, p), RowsTrue(d, l, p), RowsKnown(d, f, l),
           \A m \in Names : snapshot[m] # None => Known(d, f, m, snapshot[m]),
           snapshot \in [Names -> Int], places \in [Names -> Nat],
           NEW n \in (CurrentSet \cup NewSet) \ done, NEW s, s = Treated(l, n)
    PROVE  InTurn(s, p) /\ RowsTrue(d, s, p) /\ RowsKnown(d, f, s)
<1>1. /\ ModList(l)
      /\ \A i, j \in DOMAIN l.mods : l.mods[i].name = l.mods[j].name => i = j
      /\ \A i \in DOMAIN l.mods : Has(done, l.mods[i].name)
      /\ \A m \in CurrentSet \ done : places[m] \in DOMAIN l.mods /\ l.mods[places[m]].name = m
  BY DEF Partly
<1>2. Len(l.mods) \in Nat /\ DOMAIN l.mods = 1 .. Len(l.mods)
  BY <1>1, ListIs
<1>3. ASSUME n \in NewSet, RowsFrom(l, s, n)
      PROVE  RowsKnown(d, f, s)
  <2>1. Known(d, f, n, snapshot[n])
    BY <1>3 DEF NewSet
  <2> QED
    BY <1>3, <2>1 DEF RowsKnown, RowsFrom
<1>4. CASE n \notin CurrentSet
  <2>1. s = Placed(l, Len(l.mods) + 1, n) /\ n \in NewSet
    BY <1>4 DEF Treated, Appended
  <2>2. OthersTrue(d, l, p, Len(l.mods) + 1, n)
    BY <1>1, <1>4 DEF Has, RowsTrue, OthersTrue
  <2>3. Len(l.mods) + 1 \in 1 .. Len(l.mods) + 1
    BY <1>2
  <2> DEFINE row == Len(l.mods) + 1
  <2>4. s = Placed(l, row, n) /\ row \in 1 .. Len(l.mods) + 1 /\ OthersTrue(d, l, p, row, n)
    BY <2>1, <2>2, <2>3
  <2> HIDE DEF row
  <2>5. InTurn(s, p) /\ RowsTrue(d, s, p) /\ RowsFrom(l, s, n)
    BY <1>1, <2>1, <2>4, PlacedTrue
  <2> QED
    BY <1>3, <2>1, <2>5
<1>5. CASE n \in CurrentSet /\ n \in NewSet
  <2> DEFINE row == places[n]
             mod == l.mods[row]
             q == Stopped(l, mod)
  <2>1. row \in DOMAIN l.mods /\ mod.name = n
    BY <1>1, <1>5
  <2>2. mod \in Mods
    BY <1>1, <2>1, ListIs
  <2> HIDE DEF mod, row
  <2>6. ModList(q) /\ q.mods = l.mods
    BY <1>1, <2>2, StoppedIs
  <2>7. /\ InTurn(q, p)
        /\ \A e, r : RowTrue(e, l, p, r) /\ r.ticket # mod.ticket => RowTrue(e, q, p, r)
    BY <1>1, <2>2, StoppedTrue
  <2>3. \A r : RowTrue(d, l, p, r) /\ r.ticket # mod.ticket => RowTrue(d, q, p, r)
    BY <2>7
  <2>4. CASE mod.stamp = snapshot[n]
    BY <1>5, <2>4 DEF Treated, Renewed, mod, row
  <2>5. CASE mod.stamp # snapshot[n]
    <3>1. s = Placed(q, row, n)
      BY <1>5, <2>5 DEF Treated, Renewed, mod, row
    <3>2. ASSUME NEW i \in DOMAIN l.mods, i # row
          PROVE  l.mods[i].name # n /\ RowTrue(d, q, p, l.mods[i])
      <4>1. l.mods[i].name # mod.name /\ RowTrue(d, l, p, l.mods[i])
        BY <1>1, <2>1, <3>2 DEF RowsTrue, mod
      <4>2. l.mods[i].ticket # mod.ticket
        BY <2>1, <3>2, <4>1, TicketsDiffer DEF mod
      <4> QED
        BY <2>1, <2>3, <4>1, <4>2
    <3>3. row \in 1 .. Len(l.mods) + 1
      BY <1>2, <2>1
    <3> HIDE DEF q
    <3>5. OthersTrue(d, q, p, row, n)
      BY <2>6, <3>2 DEF OthersTrue
    <3>6. row \in 1 .. Len(q.mods) + 1 /\ InTurn(q, p)
      BY <2>6, <2>7, <3>3
    <3>7. InTurn(s, p) /\ RowsTrue(d, s, p) /\ RowsFrom(q, s, n)
      BY <1>5, <2>6, <3>1, <3>5, <3>6, PlacedTrue
    <3>8. RowsFrom(l, s, n)
      BY <2>6, <3>7 DEF RowsFrom
    <3> QED
      BY <1>3, <1>5, <3>7, <3>8
  <2> QED
    BY <2>4, <2>5
<1>6. CASE n \in CurrentSet /\ n \notin NewSet
  <2>1. s = Dropped(l, n)
    BY <1>6 DEF Treated
  <2>2. places[n] \in 1 .. Len(l.mods)
    BY <1>1, <1>2, <1>6
  <2>3. /\ InTurn(s, p) /\ RowsTrue(d, s, p)
        /\ \A i \in DOMAIN s.mods : \E j \in DOMAIN l.mods : s.mods[i] = l.mods[j]
    BY <1>1, <2>1, <2>2, DroppedTrue
  <2> QED
    BY <2>3 DEF RowsKnown
<1> QED
  BY <1>4, <1>5, <1>6

\* All the names.
LEMMA AppliedTrue ==
    ASSUME FolderTypes, PlacesTrue, NEW order, IsOrder(order), NEW d, NEW f, NEW p \in Seq(Events),
           InTurn(Now, p), RowsTrue(d, Now, p), RowsKnown(d, f, Now),
           \A m \in Names : snapshot[m] # None => Known(d, f, m, snapshot[m])
    PROVE  LET s == TreatedInTurn(order)[Len(order)]
           IN  InTurn(s, p) /\ RowsTrue(d, s, p) /\ RowsKnown(d, f, s)
<1> DEFINE T == TreatedInTurn(order)
           Fine(s) == InTurn(s, p) /\ RowsTrue(d, s, p) /\ RowsKnown(d, f, s)
           Good == {k \in Nat : k <= Len(order) => Fine(T[k])}
<1>1. /\ Len(order) \in Nat /\ snapshot \in [Names -> Int] /\ places \in [Names -> Nat]
      /\ ModList(Now) /\ \A k \in 1 .. Len(order) : order[k] \in Names
  BY DEF FolderTypes, IsOrder
<1>2. T = [k \in 0 .. Len(order) |-> IF k = 0 THEN Now ELSE Treated(T[k - 1], order[k])]
  BY <1>1, TreatedIs
<1>3. \A k \in 0 .. Len(order) : Partly(T[k], FirstOf(order, k))
  BY InTurnPartly
<1> HIDE DEF T
<1>4. 0 \in Good
  <2>1. T[0] = Now
    BY <1>1, <1>2
  <2> QED
    BY <2>1
<1>5. ASSUME NEW k \in Nat, k \in Good
      PROVE  k + 1 \in Good
  <2>1. SUFFICES ASSUME k + 1 <= Len(order)
                 PROVE  Fine(T[k + 1])
    OBVIOUS
  <2> DEFINE n == order[k + 1]
             done == FirstOf(order, k)
             l == T[k]
             s == T[k + 1]
  <2>2. k \in 0 .. Len(order) /\ k + 1 \in 1 .. Len(order) /\ k + 1 \in 0 .. Len(order) /\ k + 1 - 1 = k
        /\ k + 1 # 0
    BY <1>1, <2>1
  <2>3. Partly(l, done)
    BY <1>3, <2>2
  <2>4. s = Treated(l, n)
    BY <1>2, <2>2
  <2>5. done \in SUBSET Names
    BY <1>1, <2>2 DEF FirstOf
  <2>6. n \in FirstOf(order, Len(order))
    BY <2>2 DEF FirstOf
  <2>7. n \in (CurrentSet \cup NewSet) \ done
    BY <2>2, <2>6 DEF IsOrder
  <2>8. k <= Len(order)
    BY <1>1, <2>1
  <2>9. Fine(l)
    BY <1>5, <2>8
  <2> HIDE DEF n, done, l, s
  <2>10. InTurn(s, p) /\ RowsTrue(d, s, p) /\ RowsKnown(d, f, s)
    BY <1>1, <2>3, <2>4, <2>5, <2>7, <2>9, TreatedTrue
  <2> QED
    BY <2>10 DEF s
<1> HIDE DEF Good
<1>6. Nat \subseteq Good
  BY <1>4, <1>5, Induction
<1> QED
  BY <1>1, <1>6 DEF Good, T

-----------------------------------------------------------------------------
(* DetailsAreTrue: events. *)

\* The tasks under way are the same.
LEMMA StagesKept ==
    ASSUME NEW p, NEW q, \A k \in {"Parse", "Parsed", "Done"} : Stage(q, k) = Stage(p, k),
           Sorted(p) => Sorted(q), NEW l, InTurn(l, p)
    PROVE  /\ InTurn(l, q)
           /\ \A d : RowsTrue(d, l, p) => RowsTrue(d, l, q)
<1>1. Untried(l, q) = Untried(l, p) /\ Pending(l, q) = Pending(l, p)
  BY DEF Untried, Pending
<1>2. InTurn(l, q)
  BY <1>1 DEF InTurn
<1>3. \A d, r : RowTrue(d, l, p, r) => RowTrue(d, l, q, r)
  BY <1>1 DEF RowTrue
<1> QED
  BY <1>2, <1>3 DEF RowsTrue

\* An event that has nothing to do with tasks is taken.
LEMMA QuietTail ==
    ASSUME NEW p \in Seq(Events), p # <<>>, p[1].kind \notin {"Parse", "Parsed", "Done"},
           NEW l, InTurn(l, p)
    PROVE  /\ InTurn(l, Tail(p)) /\ Tail(p) \in Seq(Events)
           /\ \A d : RowsTrue(d, l, p) => RowsTrue(d, l, Tail(p))
<1> DEFINE q == Tail(p)
<1>1. /\ q \in Seq(Events)
      /\ \A k : Stage(p, k) = Stage(q, k) \cup (IF p[1].kind = k THEN {p[1].ticket} ELSE {})
      /\ Sorted(p) => Sorted(q)
  BY StageTail
<1> HIDE DEF q
<1>2. \A k \in {"Parse", "Parsed", "Done"} : Stage(q, k) = Stage(p, k)
  BY <1>1
<1>3. InTurn(l, q) /\ \A d : RowsTrue(d, l, p) => RowsTrue(d, l, q)
  BY <1>1, <1>2, StagesKept
<1> QED
  BY <1>1, <1>3 DEF q

\* Nothing happens to rows and tasks.
LEMMA QuietDetails ==
    ASSUME DetailSound, Now' = Now, disk' = disk, changes' = changes,
           FilesTrue(disk, Fresh, snapshot'),
           InTurn(Now, posted'), RowsTrue(disk, Now, posted')
    PROVE  DetailSound'
<1>1. Fresh' = Fresh
  BY DEF Fresh
<1>2. RowsKnown(disk, Fresh, Now)
  BY DEF DetailSound
<1> QED
  BY <1>1, <1>2 DEF DetailSound

\* The result of an update is applied.
LEMMA UpdatedDetails ==
    ASSUME FolderSound, DetailSound, posted # <<>>, posted[1].kind = "Updated", Apply,
           posted' = Tail(posted), UNCHANGED <<updateVars, diskVars>>
    PROVE  DetailSound'
<1> DEFINE p == Tail(posted)
<1>1. posted \in Seq(Events) /\ FolderTypes /\ PlacesTrue
  BY DEF FolderSound, FolderTypes
<1>2. /\ InTurn(Now, posted) /\ RowsTrue(disk, Now, posted)
      /\ FilesTrue(disk, Fresh, snapshot) /\ RowsKnown(disk, Fresh, Now)
  BY DEF DetailSound
<1>3. InTurn(Now, p) /\ p \in Seq(Events) /\ RowsTrue(disk, Now, p)
  BY <1>1, <1>2, QuietTail
<1>4. \A m \in Names : snapshot[m] # None => Known(disk, Fresh, m, snapshot[m])
  BY <1>2 DEF FilesTrue
<1>5. PICK order : IsOrder(order) /\ Now' = TreatedInTurn(order)[Len(order)]
  BY <1>1, ApplyIs
<1> HIDE DEF p
<1> DEFINE d == disk
           f == Fresh
<1>6. /\ RowsTrue(d, Now, p) /\ RowsKnown(d, f, Now)
      /\ \A m \in Names : snapshot[m] # None => Known(d, f, m, snapshot[m])
  BY <1>2, <1>3, <1>4
<1> HIDE DEF d, f
<1>7. InTurn(Now', p) /\ RowsTrue(d, Now', p) /\ RowsKnown(d, f, Now')
  BY <1>1, <1>3, <1>5, <1>6, AppliedTrue
<1>8. disk' = disk /\ Fresh' = Fresh /\ snapshot' = snapshot
  BY DEF diskVars, updateVars, Fresh
<1>9. InTurn(Now', posted') /\ RowsTrue(disk', Now', posted') /\ RowsKnown(disk', Fresh', Now')
  BY <1>7, <1>8 DEF d, f, p
<1>10. FilesTrue(disk', Fresh', snapshot')
  BY <1>2, <1>8
<1> QED
  BY <1>9, <1>10 DEF DetailSound

\* An update is over, or a wakeup finds nothing to do.
LEMMA TakenDetails ==
    ASSUME FolderSound, DetailSound, posted # <<>>, posted[1].kind \in {"Over", "Wake"},
           posted' = Tail(posted), Now' = Now, disk' = disk, changes' = changes, snapshot' = snapshot
    PROVE  DetailSound'
<1>1. posted \in Seq(Events)
  BY DEF FolderSound, FolderTypes
<1>2. /\ InTurn(Now, posted) /\ RowsTrue(disk, Now, posted) /\ FilesTrue(disk, Fresh, snapshot')
  BY DEF DetailSound
<1>3. posted[1].kind \notin {"Parse", "Parsed", "Done"}
  OBVIOUS
<1>4. InTurn(Now, Tail(posted)) /\ RowsTrue(disk, Now, Tail(posted))
  BY <1>1, <1>2, <1>3, QuietTail
<1> QED
  BY <1>2, <1>4, QuietDetails

\* A wakeup takes a task from the queue.
LEMMA WakeDetails ==
    ASSUME FolderSound, DetailSound, posted # <<>>, posted[1].kind = "Wake", queue # <<>>,
           queue' = Tail(queue), posted' = Append(Tail(posted), Event("Parse", Head(queue))),
           UNCHANGED <<mods, parses, active, disk, changes, snapshot>>
    PROVE  DetailSound'
<1> DEFINE p == Tail(posted)
           h == Head(queue)
           e == Event("Parse", h)
           P == Pending(Now, p)
           U == Untried(Now, p)
<1>1. posted \in Seq(Events) /\ ModList(Now) /\ queue \in Seq(Nat)
  BY DEF FolderSound, FolderTypes, ModList, Now
<1>2. /\ InTurn(Now, posted) /\ RowsTrue(disk, Now, posted)
      /\ FilesTrue(disk, Fresh, snapshot) /\ RowsKnown(disk, Fresh, Now)
  BY DEF DetailSound
<1>3. InTurn(Now, p) /\ p \in Seq(Events) /\ RowsTrue(disk, Now, p)
  BY <1>1, <1>2, QuietTail
<1> HIDE DEF p
<1>4. /\ Now.queue = queue /\ Now.parses = parses /\ Now.active = active /\ Now.mods = mods
      /\ Now'.queue = queue' /\ Now'.parses = parses /\ Now'.active = active /\ Now'.mods = mods
  BY DEF Now
<1>5. /\ Rising(queue') /\ ToSet(queue) = ToSet(queue') \cup {h}
      /\ h \in Nat /\ \A u \in ToSet(queue') : h < u
  BY <1>1, <1>3, <1>4, QueueTail DEF InTurn
<1>6. /\ e \in Events /\ e.kind = "Parse" /\ e.ticket = h
  BY <1>5 DEF Event, Events, Kinds
<1>7. \A u \in Stage(p, "Parse") : u < h
  BY <1>3, <1>4, <1>5 DEF InTurn
<1> HIDE DEF e, h
<1>8. /\ posted' = Append(p, e)
      /\ \A k : Stage(posted', k) = Stage(p, k) \cup (IF e.kind = k THEN {e.ticket} ELSE {})
      /\ Sorted(posted')
  <2>1. posted' = Append(p, e)
    BY DEF p, e, h
  <2>2. Sorted(p) /\ e.kind # "Parsed"
    BY <1>3, <1>6 DEF InTurn
  <2> DEFINE q == posted'
  <2>3. q = Append(p, e)
    BY <2>1
  <2> HIDE DEF q
  <2>8. p \in Seq(Events) /\ e \in Events
    BY <1>3, <1>6
  <2>5. ASSUME NEW k
        PROVE  Stage(q, k) = Stage(p, k) \cup (IF e.kind = k THEN {e.ticket} ELSE {})
    <3>1. Stage(Append(p, e), k) = Stage(p, k) \cup (IF e.kind = k THEN {e.ticket} ELSE {})
      BY <2>8, StageAppend
    <3> QED
      BY <2>3, <3>1
  <2>6. /\ Sorted(p)
        /\ e.kind = "Parse" => \A u \in Stage(p, "Parse") : u < e.ticket
        /\ e.kind = "Parsed" => /\ \A u \in Stage(p, "Parsed") : u < e.ticket
                                /\ e.ticket \notin Stage(p, "Done")
    BY <1>6, <1>7, <2>2
  <2>7. Sorted(q)
    BY <1>3, <1>6, <2>3, <2>6, StageAppend
  <2>4. /\ \A k : Stage(q, k) = Stage(p, k) \cup (IF e.kind = k THEN {e.ticket} ELSE {})
        /\ Sorted(q)
    BY <2>5, <2>7
  <2> QED
    BY <2>1, <2>4 DEF q
<1>9. /\ Stage(posted', "Parse") = Stage(p, "Parse") \cup {h}
      /\ Stage(posted', "Parsed") = Stage(p, "Parsed") /\ Stage(posted', "Done") = Stage(p, "Done")
  BY <1>6, <1>8
<1>10. Untried(Now', posted') = U /\ Pending(Now', posted') = P
  BY <1>4, <1>5, <1>9 DEF Untried, Pending
<1>11. InTurn(Now', posted')
  <2>1. \A t \in Stage(posted', "Parse"), u \in ToSet(queue') : t < u
    BY <1>3, <1>4, <1>5, <1>9 DEF InTurn
  <2>2. \A t \in Stage(posted', "Parsed"), u \in U : t < u
    BY <1>3, <1>9 DEF InTurn
  <2>3. /\ \A t \in Stage(posted', "Done") : t \notin U /\ t \in 1 .. Len(parses)
        /\ P \subseteq active /\ \A t \in U : parses[t].details = 0
    BY <1>3, <1>4, <1>9 DEF InTurn
  <2> HIDE DEF U, P
  <2> QED
    BY <1>4, <1>5, <1>8, <1>10, <2>1, <2>2, <2>3 DEF InTurn
<1>12. RowsTrue(disk, Now', posted')
  <2>1. ASSUME NEW r, RowTrue(disk, Now, p, r)
        PROVE  RowTrue(disk, Now', posted', r)
    BY <1>4, <1>10, <2>1 DEF RowTrue
  <2> QED
    BY <1>3, <1>4, <2>1 DEF RowsTrue
<1>13. Fresh' = Fresh
  BY DEF Fresh
<1>14. RowsKnown(disk, Fresh, Now')
  BY <1>2, <1>4 DEF RowsKnown
<1> QED
  BY <1>2, <1>11, <1>12, <1>13, <1>14 DEF DetailSound

\* Events posted together are posted one after the other.
LEMMA TogetherIs ==
    ASSUME NEW p \in Seq(Events), NEW a \in Events, NEW b \in Events, NEW c \in Events
    PROVE  /\ p \o <<a, b>> = Append(Append(p, a), b)
           /\ p \o <<a, b, c>> = Append(Append(Append(p, a), b), c)
<1> DEFINE two   == <<a, b>>
           three == <<a, b, c>>
           n == Len(p)
           q == Append(p, a)
           r == Append(q, b)
           s == Append(r, c)
<1>1. two \in Seq(Events) /\ Len(two) = 2 /\ two[1] = a /\ two[2] = b
  OBVIOUS
<1>2. three \in Seq(Events) /\ Len(three) = 3 /\ three[1] = a /\ three[2] = b /\ three[3] = c
  OBVIOUS
<1>3. n \in Nat /\ q \in Seq(Events) /\ Len(q) = n + 1 /\ q[n + 1] = a /\ \A i \in 1 .. n : q[i] = p[i]
  OBVIOUS
<1> HIDE DEF two, three, n, q
<1>4. r \in Seq(Events) /\ Len(r) = n + 1 + 1 /\ r[n + 1 + 1] = b /\ \A i \in 1 .. n + 1 : r[i] = q[i]
  BY <1>3
<1> HIDE DEF r
<1>5. /\ s \in Seq(Events) /\ Len(s) = n + 1 + 1 + 1 /\ s[n + 1 + 1 + 1] = c
      /\ \A i \in 1 .. n + 1 + 1 : s[i] = r[i]
  BY <1>3, <1>4
<1> HIDE DEF s
<1>6. /\ p \o two \in Seq(Events) /\ Len(p \o two) = n + 2
      /\ \A i \in 1 .. n + 2 : (p \o two)[i] = IF i <= n THEN p[i] ELSE two[i - n]
  <2>1. /\ p \o two \in Seq(Events) /\ Len(p \o two) = Len(p) + Len(two)
        /\ \A i \in 1 .. Len(p) + Len(two) : (p \o two)[i] = IF i <= Len(p) THEN p[i] ELSE two[i - Len(p)]
    BY <1>1, ConcatProperties
  <2> QED
    BY <1>1, <2>1 DEF n
<1>7. /\ p \o three \in Seq(Events) /\ Len(p \o three) = n + 3
      /\ \A i \in 1 .. n + 3 : (p \o three)[i] = IF i <= n THEN p[i] ELSE three[i - n]
  <2>1. /\ p \o three \in Seq(Events) /\ Len(p \o three) = Len(p) + Len(three)
        /\ \A i \in 1 .. Len(p) + Len(three) :
             (p \o three)[i] = IF i <= Len(p) THEN p[i] ELSE three[i - Len(p)]
    BY <1>2, ConcatProperties
  <2> QED
    BY <1>2, <2>1 DEF n
<1>8. ASSUME NEW i \in 1 .. n + 2
      PROVE  (p \o two)[i] = r[i]
  <2>1. CASE i \in 1 .. n
    <3>1. i <= n /\ i \in 1 .. n + 1
      BY <1>3, <2>1
    <3> QED
      BY <1>3, <1>4, <1>6, <2>1, <3>1
  <2>2. CASE i = n + 1
    <3>1. ~(i <= n) /\ i - n = 1 /\ i \in 1 .. n + 1
      BY <1>3, <2>2
    <3> QED
      BY <1>1, <1>3, <1>4, <1>6, <2>2, <3>1
  <2>3. CASE i = n + 1 + 1
    <3>1. ~(i <= n) /\ i - n = 2
      BY <1>3, <2>3
    <3> QED
      BY <1>1, <1>4, <1>6, <2>3, <3>1
  <2>4. i \in 1 .. n \/ i = n + 1 \/ i = n + 1 + 1
    BY <1>3
  <2> QED
    BY <2>1, <2>2, <2>3, <2>4
<1>9. ASSUME NEW i \in 1 .. n + 3
      PROVE  (p \o three)[i] = s[i]
  <2>1. CASE i \in 1 .. n
    <3>1. i <= n /\ i \in 1 .. n + 1 /\ i \in 1 .. n + 1 + 1
      BY <1>3, <2>1
    <3> QED
      BY <1>3, <1>4, <1>5, <1>7, <2>1, <3>1
  <2>2. CASE i = n + 1
    <3>1. ~(i <= n) /\ i - n = 1 /\ i \in 1 .. n + 1 /\ i \in 1 .. n + 1 + 1
      BY <1>3, <2>2
    <3> QED
      BY <1>2, <1>3, <1>4, <1>5, <1>7, <2>2, <3>1
  <2>3. CASE i = n + 1 + 1
    <3>1. ~(i <= n) /\ i - n = 2 /\ i \in 1 .. n + 1 + 1
      BY <1>3, <2>3
    <3> QED
      BY <1>2, <1>4, <1>5, <1>7, <2>3, <3>1
  <2>4. CASE i = n + 1 + 1 + 1
    <3>1. ~(i <= n) /\ i - n = 3
      BY <1>3, <2>4
    <3> QED
      BY <1>2, <1>5, <1>7, <2>4, <3>1
  <2>5. i \in 1 .. n \/ i = n + 1 \/ i = n + 1 + 1 \/ i = n + 1 + 1 + 1
    BY <1>3
  <2> QED
    BY <2>1, <2>2, <2>3, <2>4, <2>5
<1>10. n + 1 + 1 = n + 2 /\ n + 1 + 1 + 1 = n + 3
  BY <1>3
<1>11. p \o two = r
  BY <1>4, <1>6, <1>8, <1>10, SeqEqual
<1>12. p \o three = s
  BY <1>5, <1>7, <1>9, <1>10, SeqEqual
<1> QED
  BY <1>11, <1>12 DEF two, three, q, r, s

\* An event that says nothing of what is to be done is posted.
LEMMA OneMore ==
    ASSUME NEW p \in Seq(Events), NEW e \in Events, e.kind \in {"Wake", "Done"},
           NEW l, InTurn(l, p), e.kind = "Done" => e.ticket \notin Untried(l, p) /\ e.ticket \in 1 .. Len(l.parses)
    PROVE  /\ Append(p, e) \in Seq(Events) /\ InTurn(l, Append(p, e))
           /\ Untried(l, Append(p, e)) = Untried(l, p) /\ Pending(l, Append(p, e)) = Pending(l, p)
<1> DEFINE q == Append(p, e)
<1>1. /\ q \in Seq(Events)
      /\ \A k : Stage(q, k) = Stage(p, k) \cup (IF e.kind = k THEN {e.ticket} ELSE {})
      /\ Sorted(p) => Sorted(q)
  <2>1. e.kind # "Parse" /\ e.kind # "Parsed"
    OBVIOUS
  <2> QED
    BY <2>1, StageAppend
<1> HIDE DEF q
<1>2. Stage(q, "Parse") = Stage(p, "Parse") /\ Stage(q, "Parsed") = Stage(p, "Parsed")
  BY <1>1
<1>3. Stage(q, "Done") = Stage(p, "Done") \/
      (e.kind = "Done" /\ Stage(q, "Done") = Stage(p, "Done") \cup {e.ticket})
  BY <1>1
<1>4. Untried(l, q) = Untried(l, p) /\ Pending(l, q) = Pending(l, p)
  BY <1>2 DEF Untried, Pending
<1>5. InTurn(l, q)
  BY <1>1, <1>2, <1>3, <1>4 DEF InTurn
<1> QED
  BY <1>1, <1>4, <1>5 DEF q

\* A parse task runs.
LEMMA ParseDetails ==
    ASSUME FolderSound, DetailSound, posted # <<>>, posted[1].kind = "Parse",
           ParseRuns(posted[1].ticket), UNCHANGED <<mods, disk, changes, snapshot>>
    PROVE  DetailSound'
<1> DEFINE t == posted[1].ticket
           p == Tail(posted)
           l == Now
           m == Now'
           done == Event("Done", t)
           parsed == Event("Parsed", t)
<1>1. posted \in Seq(Events) /\ ModList(Now) /\ disk \in [Names -> Nat] /\ parses \in Seq(ParseTasks)
  BY DEF FolderSound, FolderTypes, ModList, Now
<1>2. /\ InTurn(l, posted) /\ RowsTrue(disk, l, posted)
      /\ FilesTrue(disk, Fresh, snapshot) /\ RowsKnown(disk, Fresh, l)
  BY DEF DetailSound
<1>3. /\ p \in Seq(Events)
      /\ \A k : Stage(posted, k) = Stage(p, k) \cup (IF posted[1].kind = k THEN {t} ELSE {})
      /\ Sorted(p) /\ \A u \in Stage(p, "Parse") : t < u
  BY <1>1, <1>2, StageTail DEF InTurn
<1>4. /\ Stage(posted, "Parse") = Stage(p, "Parse") \cup {t}
      /\ Stage(posted, "Parsed") = Stage(p, "Parsed") /\ Stage(posted, "Done") = Stage(p, "Done")
  BY <1>3
<1> HIDE DEF p
<1>5. /\ l.queue = queue /\ l.parses = parses /\ l.active = active /\ l.mods = mods
      /\ m.queue = queue /\ m.parses = parses' /\ m.active = active /\ m.mods = mods
  BY DEF Now, ParseRuns
<1>6. ModList(l)
  BY <1>1
<1> HIDE DEF l, m
<1> DEFINE U == Untried(l, posted)
           P == Pending(l, posted)
<1>7. /\ U = ToSet(queue) \cup Stage(p, "Parse") \cup {t}
      /\ P = U \cup Stage(p, "Parsed")
      /\ Untried(m, p) = ToSet(queue) \cup Stage(p, "Parse")
      /\ Pending(m, p) = Untried(m, p) \cup Stage(p, "Parsed")
  BY <1>4, <1>5 DEF Untried, Pending
<1>8. /\ Rising(queue) /\ \A u \in Stage(p, "Parse"), v \in ToSet(queue) : u < v
      /\ \A v \in ToSet(queue) : t < v
      /\ \A u \in Stage(p, "Parsed"), v \in U : u < v
      /\ \A u \in Stage(p, "Done") : u \notin U /\ u \in 1 .. Len(parses)
      /\ P \subseteq active /\ \A u \in U : parses[u].details = 0
  BY <1>2, <1>4, <1>5 DEF InTurn
<1>9. /\ P \subseteq 1 .. Len(parses) /\ P \subseteq Nat /\ t \in U /\ U \subseteq P /\ t \in Nat
      /\ t \in 1 .. Len(parses)
  <2>1. P \subseteq 1 .. Len(parses) /\ P \subseteq Nat
    BY <1>1, <1>2, <1>5, <1>6, TicketsAre
  <2> QED
    BY <1>7, <2>1
<1>10. U = Untried(m, p) \cup {t} /\ \A u \in Untried(m, p) : t < u /\ u # t
  BY <1>3, <1>7, <1>8, <1>9
<1>11. /\ Len(parses') = Len(parses) /\ \A u \in 1 .. Len(parses) : u # t => parses'[u] = parses[u]
       /\ parses'[t].name = parses[t].name /\ parses'[t].file = parses[t].file
       /\ parses'[t].aborted = parses[t].aborted
       /\ ~parses[t].aborted => parses'[t].details = disk[parses[t].file]
       /\ DOMAIN parses = 1 .. Len(parses) /\ DOMAIN parses' = 1 .. Len(parses)
  <2> DEFINE job == parses[t]
             found == IF job.details = 0 /\ ~job.aborted THEN disk[job.file] ELSE job.details
  <2>1. parses' = [parses EXCEPT ![t] = [job EXCEPT !.details = found]]
    BY DEF ParseRuns
  <2>2. DOMAIN parses = 1 .. Len(parses)
    BY <1>1
  <2>3. job \in ParseTasks /\ job.details = 0
    BY <1>1, <1>8, <1>9, <2>2
  <2>4. ~job.aborted => found = disk[job.file]
    BY <2>3
  <2> DEFINE new == [job EXCEPT !.details = found]
  <2>5. new.name = job.name /\ new.file = job.file /\ new.aborted = job.aborted /\ new.details = found
    <3> HIDE DEF found, job
    <3> QED
      BY <2>3 DEF ParseTasks
  <2> HIDE DEF new
  <2>6. parses' = [parses EXCEPT ![t] = new]
    BY <2>1 DEF new
  <2>7. parses'[t] = new /\ \A u \in 1 .. Len(parses) : u # t => parses'[u] = parses[u]
    BY <1>9, <2>2, <2>6
  <2>8. DOMAIN parses' = DOMAIN parses
    BY <2>6
  <2>9. Len(parses') = Len(parses)
    BY <1>1, <2>2, <2>8
  <2> QED
    BY <2>2, <2>4, <2>5, <2>7, <2>8, <2>9
<1>12. InTurn(m, p)
  <2>1. \A u \in Stage(p, "Parsed"), v \in Untried(m, p) : u < v
    BY <1>8, <1>10
  <2>2. \A u \in Stage(p, "Done") : u \notin Untried(m, p) /\ u \in 1 .. Len(parses')
    BY <1>8, <1>10, <1>11
  <2>3. Pending(m, p) \subseteq active
    BY <1>7, <1>8
  <2>4. \A u \in Untried(m, p) : parses'[u].details = 0
    BY <1>8, <1>9, <1>10, <1>11
  <2> HIDE DEF U, P
  <2> QED
    BY <1>3, <1>5, <1>8, <2>1, <2>2, <2>3, <2>4 DEF InTurn
<1>13. /\ Wake \in Events /\ done \in Events /\ parsed \in Events
       /\ Wake.kind = "Wake" /\ done.kind = "Done" /\ done.ticket = t
       /\ parsed.kind = "Parsed" /\ parsed.ticket = t
  BY <1>9 DEF Wake, Event, Events, Kinds
<1>14. /\ InTurn(m, posted') /\ Untried(m, posted') = Untried(m, p)
       /\ Pending(m, posted') = IF parses[t].aborted THEN Pending(m, p) ELSE Pending(m, p) \cup {t}
  <2>1. t \notin Untried(m, p) /\ t \in 1 .. Len(m.parses)
    BY <1>5, <1>9, <1>10, <1>11
  <2>2. posted' = p \o (IF parses[t].aborted THEN <<Wake, done>> ELSE <<parsed, Wake, done>>)
    BY DEF ParseRuns, p
  <2> HIDE DEF done, parsed, t, U, P
  <2>3. CASE parses[t].aborted
    <3> DEFINE q == Append(p, Wake)
    <3>1. posted' = Append(q, done)
      BY <1>3, <1>13, <2>2, <2>3, TogetherIs
    <3>2. q \in Seq(Events) /\ InTurn(m, q) /\ Untried(m, q) = Untried(m, p) /\ Pending(m, q) = Pending(m, p)
      BY <1>3, <1>12, <1>13, OneMore
    <3> HIDE DEF q
    <3>3. InTurn(m, Append(q, done)) /\ Untried(m, Append(q, done)) = Untried(m, q)
          /\ Pending(m, Append(q, done)) = Pending(m, q)
      BY <1>13, <2>1, <3>2, OneMore
    <3> QED
      BY <2>3, <3>1, <3>2, <3>3
  <2>4. CASE ~parses[t].aborted
    <3> DEFINE o == Append(p, parsed)
               q == Append(o, Wake)
    <3>1. posted' = Append(q, done)
      BY <1>3, <1>13, <2>2, <2>4, TogetherIs
    <3>2. /\ o \in Seq(Events)
          /\ \A k : Stage(o, k) = Stage(p, k) \cup (IF parsed.kind = k THEN {parsed.ticket} ELSE {})
      BY <1>3, <1>13, StageAppend
    <3>3. t \in U /\ \A u \in Stage(p, "Parsed") : u < t
      BY <1>8, <1>9
    <3>4. t \notin Stage(p, "Done")
      BY <1>8, <3>3
    <3>5. Sorted(o)
      BY <1>3, <1>13, <3>3, <3>4, StageAppend
    <3> HIDE DEF o
    <3>6. /\ Stage(o, "Parse") = Stage(p, "Parse") /\ Stage(o, "Done") = Stage(p, "Done")
          /\ Stage(o, "Parsed") = Stage(p, "Parsed") \cup {t}
      BY <1>13, <3>2
    <3>7. Untried(m, o) = Untried(m, p) /\ Pending(m, o) = Pending(m, p) \cup {t}
      BY <3>6 DEF Untried, Pending
    <3>8. t \in active
      BY <1>8, <1>9
    <3>9. InTurn(m, o)
      BY <1>5, <1>10, <1>12, <3>5, <3>6, <3>7, <3>8 DEF InTurn
    <3>10. /\ q \in Seq(Events) /\ InTurn(m, q)
           /\ Untried(m, q) = Untried(m, o) /\ Pending(m, q) = Pending(m, o)
      BY <1>13, <3>2, <3>9, OneMore
    <3> HIDE DEF q
    <3>11. InTurn(m, Append(q, done)) /\ Untried(m, Append(q, done)) = Untried(m, q)
           /\ Pending(m, Append(q, done)) = Pending(m, q)
      BY <1>13, <2>1, <3>7, <3>10, OneMore
    <3> QED
      BY <2>4, <3>1, <3>7, <3>10, <3>11
  <2> QED
    BY <2>3, <2>4
<1>15. ASSUME NEW r \in Mods, RowTrue(disk, l, posted, r)
       PROVE  RowTrue(disk, m, posted', r)
  <2> DEFINE v == r.ticket
  <2>1. /\ v \in 1 .. Len(parses) /\ parses[v].name = r.name /\ ~parses[v].aborted
        /\ r.stamp # None
        /\ r.sure =>
             /\ v \in active => parses[v].file = r.name
             /\ v \in P \/ (r.resolved /\ r.details = parses[v].details)
             /\ \A u \in P : parses[u].name = r.name => u <= v
             /\ v \notin P => \A u \in P : u > v
             /\ v \notin U => parses[v].details = r.stamp \/ disk[r.name] # r.stamp
    BY <1>5, <1>11, <1>15 DEF RowTrue
  <2>2. v \in 1 .. Len(parses') /\ parses'[v].name = r.name /\ ~parses'[v].aborted
    BY <1>11, <2>1
  <2> DEFINE Q == Pending(m, posted')
             V == Untried(m, posted')
  <2>3. Q \subseteq P /\ U = V \cup {t} /\ \A u \in P : u # t => u \in Q
    BY <1>7, <1>9, <1>10, <1>14
  <2>4. ~parses[t].aborted => t \in Q
    BY <1>14
  <2>5. \A u \in 1 .. Len(parses) : parses'[u].name = parses[u].name /\ parses'[u].file = parses[u].file
    BY <1>11
  <2> HIDE DEF U, P, Q, V, t, v
  <2>6. v \in P => v \in Q
    BY <2>1, <2>3, <2>4
  <2>7. r.sure =>
             /\ v \in active => parses'[v].file = r.name
             /\ \A u \in Q : parses'[u].name = r.name => u <= v
             /\ v \notin Q => \A u \in Q : u > v
    BY <1>9, <2>1, <2>3, <2>5, <2>6
  <2>8. ASSUME r.sure
        PROVE  v \in Q \/ (r.resolved /\ r.details = parses'[v].details)
    <3>1. CASE v = t
      BY <1>9, <2>1, <2>4, <3>1
    <3>2. CASE v # t
      BY <1>11, <2>1, <2>6, <2>8, <3>2
    <3> QED
      BY <3>1, <3>2
  <2>9. ASSUME r.sure, v \notin V
        PROVE  parses'[v].details = r.stamp \/ disk[r.name] # r.stamp
    <3>1. CASE v = t
      <4>1. parses[v].file = r.name
        BY <1>8, <1>9, <2>1, <2>9, <3>1
      <4>2. parses'[v].details = disk[r.name]
        BY <1>11, <2>1, <3>1, <4>1
      <4> QED
        BY <4>2
    <3>2. CASE v # t
      BY <1>11, <2>1, <2>3, <2>9, <3>2
    <3> QED
      BY <3>1, <3>2
  <2> QED
    BY <1>5, <1>11, <2>1, <2>2, <2>7, <2>8, <2>9 DEF RowTrue, Q, V, v
<1>16. RowsTrue(disk, m, posted')
  <2>1. \A i \in DOMAIN mods : mods[i] \in Mods
    BY DEF FolderSound, FolderTypes, ModList, Now
  <2> QED
    BY <1>2, <1>5, <1>15, <2>1 DEF RowsTrue
<1>17. RowsKnown(disk, Fresh, m) /\ Fresh' = Fresh
  BY <1>2, <1>5 DEF RowsKnown, Fresh
<1> QED
  BY <1>2, <1>14, <1>16, <1>17 DEF DetailSound, m

\* What onParseSucceeded does to the rows.
LEMMA ParsedIs ==
    ASSUME FolderSound, NEW t \in active, Parsed(t)
    PROVE  /\ DOMAIN mods' = DOMAIN mods
           /\ \A i \in DOMAIN mods : mods[i].name # parses[t].name => mods'[i] = mods[i]
           /\ \A i \in DOMAIN mods :
                /\ mods'[i].name = mods[i].name /\ mods'[i].stamp = mods[i].stamp
                /\ mods'[i].ticket = mods[i].ticket /\ mods'[i].sure = mods[i].sure
                /\ mods[i].name = parses[t].name =>
                     mods'[i].resolved /\ mods'[i].details = parses[t].details
<1> DEFINE name == parses[t].name
           row  == SelectInSeq(mods, LAMBDA mod : mod.name = name)
           found == parses[t].details
<1>1. FolderTypes /\ PlacesTrue /\ mods \in Seq(Mods)
  BY DEF FolderSound, FolderTypes, ModList, Now
<1>2. \A i, j \in DOMAIN mods : mods[i].name = name /\ mods[j].name = name => i = j
  BY <1>1 DEF PlacesTrue
<1>3. mods' = IF row # 0 THEN [mods EXCEPT ![row].resolved = TRUE, ![row].details = found] ELSE mods
  BY DEF Parsed
<1> HIDE DEF name, found
<1>4. /\ row # 0 => row \in DOMAIN mods /\ mods[row].name = name
      /\ row = 0 => \A i \in DOMAIN mods : mods[i].name # name
  BY <1>1, <1>2, RowIs
<1> HIDE DEF row
<1>5. CASE row = 0
  BY <1>3, <1>4, <1>5 DEF name
<1>6. CASE row # 0
  <2> DEFINE old == mods[row]
             new == [old EXCEPT !.resolved = TRUE, !.details = found]
  <2>1. row \in DOMAIN mods /\ old \in Mods /\ old.name = name
    BY <1>1, <1>4, <1>6
  <2>2. /\ new.name = old.name /\ new.stamp = old.stamp /\ new.ticket = old.ticket
        /\ new.sure = old.sure /\ new.resolved /\ new.details = found
    <3> HIDE DEF old
    <3> QED
      BY <2>1 DEF Mods
  <2>3. mods' = [mods EXCEPT ![row] = new]
    BY <1>3, <1>6, <2>1
  <2> HIDE DEF new
  <2>4. DOMAIN mods' = DOMAIN mods /\ mods'[row] = new /\ \A i \in DOMAIN mods : i # row => mods'[i] = mods[i]
    BY <2>1, <2>3
  <2>5. \A i \in DOMAIN mods : i = row <=> mods[i].name = name
    BY <1>2, <2>1
  <2> QED
    BY <2>2, <2>4, <2>5 DEF name, found
<1> QED
  BY <1>5, <1>6

\* The details of a mod arrive.
LEMMA ParsedDetails ==
    ASSUME FolderSound, DetailSound, posted # <<>>, posted[1].kind = "Parsed",
           Parsed(posted[1].ticket), posted' = Tail(posted),
           UNCHANGED <<parses, active, queue, disk, changes, snapshot>>
    PROVE  DetailSound'
<1> DEFINE t == posted[1].ticket
           p == Tail(posted)
           l == Now
           m == Now'
           P == Pending(l, posted)
           U == Untried(l, posted)
           Q == Pending(l, p)
<1>1. posted \in Seq(Events) /\ ModList(l)
  BY DEF FolderSound, FolderTypes
<1>2. /\ InTurn(l, posted) /\ RowsTrue(disk, l, posted)
      /\ FilesTrue(disk, Fresh, snapshot) /\ RowsKnown(disk, Fresh, l)
  BY DEF DetailSound
<1>3. /\ p \in Seq(Events)
      /\ \A k : Stage(posted, k) = Stage(p, k) \cup (IF posted[1].kind = k THEN {t} ELSE {})
      /\ Sorted(p) /\ \A u \in Stage(p, "Parsed") : t < u
  BY <1>1, <1>2, StageTail DEF InTurn
<1>4. /\ Stage(posted, "Parsed") = Stage(p, "Parsed") \cup {t}
      /\ Stage(posted, "Parse") = Stage(p, "Parse") /\ Stage(posted, "Done") = Stage(p, "Done")
  BY <1>3
<1> HIDE DEF p
<1>5. /\ l.queue = queue /\ l.parses = parses /\ l.active = active /\ l.mods = mods
      /\ m.queue = queue /\ m.parses = parses /\ m.active = active /\ m.mods = mods'
  BY DEF Now
<1> HIDE DEF l, m
<1>6. /\ Untried(l, p) = U /\ Untried(m, p) = U /\ Pending(m, p) = Q /\ P = Q \cup {t}
      /\ Q = U \cup Stage(p, "Parsed")
  BY <1>4, <1>5 DEF Untried, Pending
<1>7. /\ \A u \in U : t < u
      /\ P \subseteq Nat /\ P \subseteq 1 .. Len(parses) /\ P \subseteq active
  <2>1. t \in Stage(posted, "Parsed")
    BY <1>4
  <2>2. P \subseteq Nat /\ P \subseteq 1 .. Len(parses)
    BY <1>1, <1>2, <1>5, TicketsAre
  <2> QED
    BY <1>2, <1>5, <2>1, <2>2 DEF InTurn
<1>8. t \in P /\ t \in active /\ \A u \in Q : u > t
  BY <1>3, <1>6, <1>7
<1>9. InTurn(m, p)
  BY <1>2, <1>3, <1>4, <1>5, <1>6 DEF InTurn
<1>10. /\ DOMAIN mods' = DOMAIN mods
       /\ \A i \in DOMAIN mods : mods[i].name # parses[t].name => mods'[i] = mods[i]
       /\ \A i \in DOMAIN mods :
            /\ mods'[i].name = mods[i].name /\ mods'[i].stamp = mods[i].stamp
            /\ mods'[i].ticket = mods[i].ticket /\ mods'[i].sure = mods[i].sure
            /\ mods[i].name = parses[t].name =>
                 mods'[i].resolved /\ mods'[i].details = parses[t].details
  BY <1>8, ParsedIs
<1>11. ASSUME NEW i \in DOMAIN mods
       PROVE  RowTrue(disk, m, p, mods'[i])
  <2> DEFINE r == mods[i]
             s == mods'[i]
             v == r.ticket
  <2>1. r \in Mods
    BY <1>1, <1>5 DEF ModList
  <2>2. /\ v \in DOMAIN parses /\ parses[v].name = r.name /\ ~parses[v].aborted
        /\ r.stamp # None
        /\ r.sure =>
             /\ v \in active => parses[v].file = r.name
             /\ v \in P \/ (r.resolved /\ r.details = parses[v].details)
             /\ \A u \in P : parses[u].name = r.name => u <= v
             /\ v \notin P => \A u \in P : u > v
             /\ v \notin U => parses[v].details = r.stamp \/ disk[r.name] # r.stamp
    BY <1>2, <1>5 DEF RowsTrue, RowTrue
  <2>3. v \in Nat
    BY <2>1 DEF Mods
  <2>4. /\ s.name = r.name /\ s.stamp = r.stamp /\ s.ticket = v /\ s.sure = r.sure
        /\ r.name = parses[t].name => s.resolved /\ s.details = parses[t].details
        /\ r.name # parses[t].name => s = r
    BY <1>10
  <2> HIDE DEF r, s, v, P, U, Q, t
  <2>5. ASSUME r.sure
        PROVE  v \in Q \/ (s.resolved /\ s.details = parses[v].details)
    <3>1. CASE v = t
      BY <2>2, <2>4, <3>1
    <3>2. CASE v # t /\ v \in P
      BY <1>6, <3>2
    <3>3. CASE v # t /\ v \notin P
      <4>1. t > v
        BY <1>8, <2>2, <2>5, <3>3
      <4>2. parses[t].name # r.name
        BY <1>7, <1>8, <2>2, <2>3, <2>5, <4>1
      <4> QED
        BY <2>2, <2>4, <2>5, <3>3, <4>2
    <3> QED
      BY <3>1, <3>2, <3>3
  <2>6. ASSUME r.sure, v \notin Q
        PROVE  \A u \in Q : u > v
    <3>1. v = t \/ v \notin P
      BY <1>6, <2>6
    <3> QED
      BY <1>6, <1>8, <2>2, <2>6, <3>1
  <2>7. r.sure => /\ v \in active => parses[v].file = r.name
                  /\ \A u \in Q : parses[u].name = r.name => u <= v
                  /\ v \notin U => parses[v].details = r.stamp \/ disk[r.name] # r.stamp
    BY <1>6, <2>2
  <2>8. RowTrue(disk, m, p, s)
    BY <1>5, <1>6, <2>2, <2>4, <2>5, <2>6, <2>7 DEF RowTrue
  <2> QED
    BY <2>8 DEF s
<1>12. RowsTrue(disk, m, p)
  BY <1>5, <1>10, <1>11 DEF RowsTrue
<1>13. RowsKnown(disk, Fresh, m) /\ Fresh' = Fresh
  BY <1>2, <1>5, <1>10 DEF RowsKnown, Fresh
<1>14. posted' = p
  BY DEF p
<1> QED
  BY <1>2, <1>9, <1>12, <1>13, <1>14 DEF DetailSound, m

\* A task is over and forgotten.
LEMMA DoneDetails ==
    ASSUME FolderSound, DetailSound, posted # <<>>, posted[1].kind = "Done",
           active' = active \ {posted[1].ticket}, posted' = Tail(posted),
           UNCHANGED <<mods, parses, queue, disk, changes, snapshot>>
    PROVE  DetailSound'
<1> DEFINE t == posted[1].ticket
           p == Tail(posted)
           l == Now
           m == Now'
<1>1. posted \in Seq(Events) /\ ModList(l)
  BY DEF FolderSound, FolderTypes
<1>2. /\ InTurn(l, posted) /\ RowsTrue(disk, l, posted)
      /\ FilesTrue(disk, Fresh, snapshot) /\ RowsKnown(disk, Fresh, l)
  BY DEF DetailSound
<1>3. /\ p \in Seq(Events)
      /\ \A k : Stage(posted, k) = Stage(p, k) \cup (IF posted[1].kind = k THEN {t} ELSE {})
      /\ Sorted(p) /\ t \notin Stage(p, "Parsed")
  BY <1>1, <1>2, StageTail DEF InTurn
<1>4. /\ Stage(posted, "Parsed") = Stage(p, "Parsed") /\ Stage(posted, "Parse") = Stage(p, "Parse")
      /\ Stage(posted, "Done") = Stage(p, "Done") \cup {t}
  BY <1>3
<1> HIDE DEF p
<1>5. /\ l.queue = queue /\ l.parses = parses /\ l.active = active /\ l.mods = mods
      /\ m.queue = queue /\ m.parses = parses /\ m.active = active \ {t} /\ m.mods = mods
  BY DEF Now
<1> HIDE DEF l, m
<1>6. /\ Untried(m, p) = Untried(l, posted) /\ Pending(m, p) = Pending(l, posted)
      /\ Pending(m, p) = Untried(m, p) \cup Stage(p, "Parsed")
  BY <1>4, <1>5 DEF Untried, Pending
<1>7. t \notin Pending(m, p)
  BY <1>2, <1>3, <1>4, <1>6 DEF InTurn
<1>8. InTurn(m, p)
  BY <1>2, <1>3, <1>4, <1>5, <1>6, <1>7 DEF InTurn
<1>9. \A r : RowTrue(disk, l, posted, r) => RowTrue(disk, m, p, r)
  BY <1>5, <1>6 DEF RowTrue
<1>10. RowsTrue(disk, m, p)
  BY <1>2, <1>5, <1>9 DEF RowsTrue
<1>11. RowsKnown(disk, Fresh, m) /\ Fresh' = Fresh
  BY <1>2, <1>5 DEF RowsKnown, Fresh
<1>12. posted' = p
  BY DEF p
<1> QED
  BY <1>2, <1>8, <1>10, <1>11, <1>12 DEF DetailSound, m

\* The main thread takes an event.
LEMMA HandleDetails ==
    ASSUME FolderSound, DetailSound, NEW e, Handle(e)
    PROVE  DetailSound'
<1>1. /\ posted # <<>> /\ e = posted[1] /\ UNCHANGED <<diskVars, watching, switches>>
  BY DEF Handle, FolderSound, FolderTypes
<1>2. UNCHANGED <<disk, changes>>
  BY <1>1 DEF diskVars
<1>3. CASE e.kind = "Updated"
  BY <1>1, <1>3, UpdatedDetails DEF Handle
<1>4. CASE e.kind = "Over"
  <2>1. Now' = Now /\ snapshot' = snapshot /\ posted' = Tail(posted)
    BY <1>4 DEF Handle, Over, Now, listVars, parseVars, resolverVars
  <2> QED
    BY <1>1, <1>2, <1>4, <2>1, TakenDetails
<1>5. CASE e.kind = "Wake"
  <2>1. NextSubTask /\ UNCHANGED <<mods, parses, active, snapshot>>
    BY <1>5 DEF Handle, listVars, parseVars, updateVars
  <2>2. CASE queue' = queue /\ posted' = Tail(posted)
    <3>1. Now' = Now
      BY <2>1, <2>2 DEF Now
    <3> QED
      BY <1>1, <1>2, <1>5, <2>1, <2>2, <3>1, TakenDetails
  <2>3. CASE queue # <<>> /\ queue' = Tail(queue) /\ posted' = Append(Tail(posted), Event("Parse", Head(queue)))
    BY <1>1, <1>2, <1>5, <2>1, <2>3, WakeDetails
  <2> QED
    BY <2>1, <2>2, <2>3 DEF NextSubTask, resolverVars
<1>6. CASE e.kind = "Parse"
  <2>1. ParseRuns(posted[1].ticket) /\ UNCHANGED <<mods, snapshot>>
    BY <1>1, <1>6 DEF Handle, listVars, updateVars
  <2> QED
    BY <1>1, <1>2, <1>6, <2>1, ParseDetails
<1>7. CASE e.kind = "Parsed"
  <2>1. Parsed(posted[1].ticket) /\ posted' = Tail(posted) /\ UNCHANGED <<parses, active, queue, snapshot>>
    BY <1>1, <1>7 DEF Handle, parseVars, resolverVars, updateVars
  <2> QED
    BY <1>1, <1>2, <1>7, <2>1, ParsedDetails
<1>8. CASE e.kind = "Done"
  <2>1. /\ active' = active \ {posted[1].ticket} /\ posted' = Tail(posted)
        /\ UNCHANGED <<mods, parses, queue, snapshot>>
    BY <1>1, <1>8 DEF Handle, listVars, resolverVars, updateVars
  <2> QED
    BY <1>1, <1>2, <1>8, <2>1, DoneDetails
<1> QED
  BY <1>3, <1>4, <1>5, <1>6, <1>7, <1>8 DEF Handle

-----------------------------------------------------------------------------
(* DetailsAreTrue: changes of the folder. *)

\* Names that files get when they are renamed do not come back.
LEMMA RankIs ==
    /\ Rank \in [Names -> 0 .. Len(Order)]
    /\ \A n \in DOMAIN Toggled : Rank[Toggled[n]] = Rank[n]
    /\ \A n \in DOMAIN Spares : \A name \in ToSet(Spares[n]) : Rank[name] > Rank[n]
<1>1. \E rank \in [Names -> 0 .. Len(Order)] :
        /\ \A n \in DOMAIN Toggled : rank[Toggled[n]] = rank[n]
        /\ \A n \in DOMAIN Spares : \A name \in ToSet(Spares[n]) : rank[name] > rank[n]
  BY FolderAssumption
<1> QED
  BY <1>1 DEF Rank

\* Ranks are natural numbers.
LEMMA RankNat ==
    ASSUME NEW n \in Names
    PROVE  Rank[n] \in Nat
<1>1. Rank[n] \in 0 .. Len(Order) /\ Len(Order) \in Nat
  BY RankIs, NamesListed
<1> QED
  BY <1>1

\* Rows stay true when the files change so that no row is right that was wrong.
LEMMA FilesChange ==
    ASSUME NEW d, NEW e, NEW l, NEW p, RowsTrue(d, l, p),
           \A i \in DOMAIN l.mods :
             e[l.mods[i].name] = l.mods[i].stamp => d[l.mods[i].name] = l.mods[i].stamp
    PROVE  RowsTrue(e, l, p)
<1>1. ASSUME NEW r, RowTrue(d, l, p, r), e[r.name] = r.stamp => d[r.name] = r.stamp
      PROVE  RowTrue(e, l, p, r)
  BY <1>1 DEF RowTrue
<1> QED
  BY <1>1 DEF RowsTrue

\* The stamps there are.
LEMMA StampsAre ==
    ASSUME FolderSound, DetailSound
    PROVE  /\ Fresh \in Nat /\ Fresh # None /\ disk \in [Names -> Nat] /\ snapshot \in [Names -> Int]
           /\ \A n \in Names : disk[n] < Fresh
           /\ \A n, m \in Names : disk[n] = disk[m] /\ disk[n] # None => n = m
           /\ \A n \in Names : snapshot[n] # None => Known(disk, Fresh, n, snapshot[n])
           /\ \A i \in DOMAIN mods : /\ mods[i].name \in Names /\ mods[i].stamp \in Int
                                     /\ mods[i].stamp # None /\ mods[i].ticket \in Nat
                                     /\ Known(disk, Fresh, mods[i].name, mods[i].stamp)
<1>1. /\ disk \in [Names -> Nat] /\ snapshot \in [Names -> Int] /\ changes \in Nat /\ ModList(Now)
  BY DEF FolderSound, FolderTypes
<1>2. Fresh \in Nat /\ Fresh # None
  BY <1>1, NamesListed DEF Fresh, None
<1>3. \A i \in DOMAIN mods : mods[i] \in Mods
  BY <1>1 DEF ModList, Now
<1>4. \A i \in DOMAIN mods : mods[i].name \in Names /\ mods[i].stamp \in Int /\ mods[i].ticket \in Nat
  BY <1>3 DEF Mods
<1>5. Now.mods = mods
  BY DEF Now
<1>6. \A i \in DOMAIN mods : mods[i].stamp # None
  BY <1>5 DEF DetailSound, RowsTrue, RowTrue
<1>7. \A i \in DOMAIN mods : Known(disk, Fresh, mods[i].name, mods[i].stamp)
  BY <1>5 DEF DetailSound, RowsKnown
<1> QED
  BY <1>1, <1>2, <1>4, <1>6, <1>7 DEF DetailSound, FilesTrue

\* A file is put in place or taken away.
LEMMA ChangedDetails ==
    ASSUME FolderSound, DetailSound, NEW n \in Names, NEW x \in {Fresh, None},
           disk' = [disk EXCEPT ![n] = x], changes' = changes + 1,
           snapshot' = snapshot, Now' = Now, posted' = posted
    PROVE  DetailSound'
<1>1. /\ Fresh \in Nat /\ Fresh # None /\ disk \in [Names -> Nat] /\ snapshot \in [Names -> Int]
      /\ \A m \in Names : disk[m] < Fresh
      /\ \A k, m \in Names : disk[k] = disk[m] /\ disk[k] # None => k = m
      /\ \A m \in Names : snapshot[m] # None => Known(disk, Fresh, m, snapshot[m])
      /\ \A i \in DOMAIN mods : /\ mods[i].name \in Names /\ mods[i].stamp \in Int
                                /\ mods[i].stamp # None
                                /\ Known(disk, Fresh, mods[i].name, mods[i].stamp)
  BY StampsAre
<1>2. Fresh' = Fresh + 1
  <2>1. changes \in Nat /\ Len(Order) \in Nat
    BY NamesListed DEF FolderSound, FolderTypes
  <2> QED
    BY <2>1 DEF Fresh
<1> DEFINE f == Fresh
           g == Fresh'
<1>3. f \in Nat /\ g = f + 1 /\ x \in {f, None} /\ f # None
  BY <1>1, <1>2
<1>4. /\ \A m \in Names : disk[m] < f
      /\ \A m \in Names : snapshot[m] # None => Known(disk, f, m, snapshot[m])
      /\ \A i \in DOMAIN mods : Known(disk, f, mods[i].name, mods[i].stamp)
  BY <1>1
<1> HIDE DEF f, g
<1>5. disk'[n] = x /\ \A m \in Names : m # n => disk'[m] = disk[m]
  BY <1>1
<1>6. ASSUME NEW m \in Names, NEW s \in Int, s # None, Known(disk, f, m, s)
      PROVE  Known(disk', g, m, s) /\ disk'[n] # s
  <2>1. s < f
    BY <1>6 DEF Known
  <2>2. s < g /\ x # s
    BY <1>3, <1>6, <2>1
  <2>3. ASSUME NEW k \in Names, disk'[k] = s
        PROVE  Rank[k] >= Rank[m]
    <3>1. k # n
      BY <1>5, <2>2, <2>3
    <3> QED
      BY <1>5, <1>6, <2>3, <3>1 DEF Known
  <2> QED
    BY <1>5, <2>2, <2>3 DEF Known
<1>7. FilesTrue(disk', g, snapshot)
  <2>1. \A m \in Names : snapshot[m] # None => Known(disk', g, m, snapshot[m])
    BY <1>1, <1>4, <1>6
  <2>2. ASSUME NEW m \in Names
        PROVE  disk'[m] < g
    <3>1. CASE m = n
      BY <1>3, <1>5, <3>1 DEF None
    <3>2. CASE m # n
      BY <1>1, <1>3, <1>4, <1>5, <3>2
    <3> QED
      BY <3>1, <3>2
  <2>3. ASSUME NEW k \in Names, NEW m \in Names, disk'[k] = disk'[m], disk'[k] # None
        PROVE  k = m
    <3>1. \A j \in Names : disk[j] # f
      BY <1>1, <1>3, <1>4
    <3>2. x = f \/ x = None
      BY <1>3
    <3> QED
      BY <1>1, <1>5, <2>3, <3>1, <3>2
  <2> QED
    BY <2>1, <2>2, <2>3 DEF FilesTrue
<1>8. Now.mods = mods
  BY DEF Now
<1>9. RowsKnown(disk', g, Now)
  BY <1>1, <1>4, <1>6, <1>8 DEF RowsKnown
<1>10. \A i \in DOMAIN mods : disk'[mods[i].name] = mods[i].stamp => disk[mods[i].name] = mods[i].stamp
  BY <1>1, <1>4, <1>5, <1>6
<1> DEFINE d == disk
           e == disk'
<1>11. RowsTrue(d, Now, posted) /\
       \A i \in DOMAIN Now.mods : e[Now.mods[i].name] = Now.mods[i].stamp => d[Now.mods[i].name] = Now.mods[i].stamp
  BY <1>8, <1>10 DEF DetailSound
<1> HIDE DEF d, e
<1>12. RowsTrue(e, Now, posted)
  BY <1>11, FilesChange
<1> QED
  BY <1>7, <1>9, <1>12 DEF DetailSound, e, g

\* With a file renamed from `old' to `name' the files are `d'.
Moved(d, old, name, g) ==
    /\ d \in [Names -> Nat] /\ \A m \in Names : d[m] < g
    /\ \A n, m \in Names : d[n] = d[m] /\ d[n] # None => n = m
    /\ \A n \in Names, s \in Int : s # None /\ Known(disk, Fresh, n, s) => Known(d, g, n, s)
    /\ d[name] = disk[old] /\ d[old] = None
    /\ \A n \in Names : n # name /\ n # old => d[n] = disk[n]

\* A file that is renamed goes to a name of no less rank.
LEMMA RenamedFiles ==
    ASSUME FolderSound, DetailSound, NEW old \in Names, NEW name \in Names, NEW d,
           disk[name] = None, old # name, Rank[name] >= Rank[old],
           d = [disk EXCEPT ![old] = None, ![name] = disk[old]],
           NEW g \in Nat, g >= Fresh
    PROVE  Moved(d, old, name, g)
<1>1. /\ Fresh \in Nat /\ disk \in [Names -> Nat]
      /\ \A m \in Names : disk[m] < Fresh
      /\ \A k, m \in Names : disk[k] = disk[m] /\ disk[k] # None => k = m
  BY StampsAre
<1>2. None \in Nat /\ None = 0
  BY DEF None
<1>3. d[name] = disk[old] /\ d[old] = None /\ \A n \in Names : n # name /\ n # old => d[n] = disk[n]
  BY <1>1
<1>4. d \in [Names -> Nat]
  <2> DEFINE stamp == disk[old]
  <2>1. stamp \in Nat
    BY <1>1
  <2>2. d = [disk EXCEPT ![old] = None, ![name] = stamp]
    OBVIOUS
  <2> HIDE DEF stamp, None
  <2> QED
    BY <1>1, <1>2, <2>1, <2>2
<1> DEFINE f == Fresh
<1>5. f \in Nat /\ g >= f /\ \A m \in Names : disk[m] < f
  BY <1>1
<1> HIDE DEF f, None
<1>6. ASSUME NEW m \in Names
      PROVE  d[m] < g
  <2>1. f \in Nat /\ g \in Nat /\ disk[m] \in Nat /\ disk[old] \in Nat /\ disk[m] < f /\ disk[old] < f
    BY <1>1, <1>5
  <2>2. CASE m = name
    BY <1>3, <1>5, <2>1, <2>2
  <2>3. CASE m = old
    BY <1>2, <1>3, <1>5, <2>1, <2>3
  <2>4. CASE m # name /\ m # old
    <3>1. d[m] = disk[m]
      BY <1>3, <2>4
    <3> QED
      BY <1>5, <2>1, <3>1
  <2> QED
    BY <2>2, <2>3, <2>4
<1>7. ASSUME NEW n \in Names, NEW m \in Names, d[n] = d[m], d[n] # None
      PROVE  n = m
  <2>1. n # old /\ m # old
    BY <1>3, <1>7
  <2> DEFINE Was(k) == IF k = name THEN old ELSE k
  <2>2. /\ Was(n) \in Names /\ Was(m) \in Names /\ d[n] = disk[Was(n)] /\ d[m] = disk[Was(m)]
    BY <1>3, <2>1
  <2>3. Was(n) = Was(m)
    <3> HIDE DEF Was
    <3> QED
      BY <1>1, <1>7, <2>2
  <2> QED
    BY <2>1, <2>3
<1>8. ASSUME NEW n \in Names, NEW s \in Int, s # None, Known(disk, f, n, s)
      PROVE  Known(d, g, n, s)
  <2>1. s < f /\ \A m \in Names : disk[m] = s => Rank[m] >= Rank[n]
    BY <1>8 DEF Known
  <2>2. s < g
    BY <1>5, <2>1
  <2>3. ASSUME NEW m \in Names, d[m] = s
        PROVE  Rank[m] >= Rank[n]
    <3>1. m # old
      BY <1>3, <1>8, <2>3
    <3>2. CASE m = name
      <4>1. Rank[old] >= Rank[n]
        BY <1>3, <2>1, <2>3, <3>2
      <4>2. Rank[name] \in Nat /\ Rank[old] \in Nat /\ Rank[n] \in Nat
        BY RankNat
      <4> QED
        BY <3>2, <4>1, <4>2
    <3>3. CASE m # name
      BY <1>3, <2>1, <2>3, <3>1, <3>3
    <3> QED
      BY <3>2, <3>3
  <2> QED
    BY <2>2, <2>3 DEF Known
<1> QED
  BY <1>3, <1>4, <1>6, <1>7, <1>8 DEF f, Moved

\* The stamps that the pool thread can find at a name.
LEMMA StampKnown ==
    ASSUME NEW d \in [Names -> Nat], NEW f \in Nat, NEW n \in Names, \A m \in Names : d[m] < f,
           \A k, m \in Names : d[k] = d[m] /\ d[k] # None => k = m
    PROVE  /\ Known(d, f, n, Invalid)
           /\ d[n] # None => Known(d, f, n, d[n])
<1>1. Invalid = 0 - 1
  BY DEF Invalid
<1>2. Invalid < f /\ \A m \in Names : d[m] # Invalid
  BY <1>1
<1>3. Known(d, f, n, Invalid)
  BY <1>2 DEF Known
<1>4. ASSUME d[n] # None, NEW m \in Names, d[m] = d[n]
      PROVE  Rank[m] >= Rank[n]
  <2>1. m = n
    BY <1>4
  <2> QED
    BY <2>1, RankNat
<1>5. d[n] # None => Known(d, f, n, d[n])
  BY <1>4 DEF Known
<1> QED
  BY <1>3, <1>5

\* The pool thread looks at a file.
LEMMA ReadDetails ==
    ASSUME FolderSound, DetailSound, Read
    PROVE  DetailSound'
<1> DEFINE f == Fresh
           d == disk'
<1>1. /\ FolderTypes /\ InTurn(Now, posted) /\ RowsTrue(disk, Now, posted)
      /\ FilesTrue(disk, f, snapshot) /\ RowsKnown(disk, f, Now)
  BY DEF FolderSound, DetailSound
<1>2. /\ f \in Nat /\ disk \in [Names -> Nat] /\ snapshot \in [Names -> Int]
      /\ \A m \in Names : disk[m] < f
      /\ \A k, m \in Names : disk[k] = disk[m] /\ disk[k] # None => k = m
      /\ \A m \in Names : snapshot[m] # None => Known(disk, f, m, snapshot[m])
      /\ \A i \in DOMAIN mods : /\ mods[i].name \in Names /\ mods[i].stamp \in Int
                                /\ mods[i].stamp # None
                                /\ Known(disk, f, mods[i].name, mods[i].stamp)
  BY StampsAre
<1>3. UNCHANGED <<changes, mods, places, parses, active, queue, posted>>
  BY DEF Read, listVars, parseVars, resolverVars
<1>4. Now' = Now /\ Fresh' = f /\ Now.mods = mods /\ posted' = posted
  BY <1>3 DEF Now, Fresh
<1>5. PICK n \in Names, name \in Names :
        /\ snapshot' = [snapshot EXCEPT ![name] = IF @ # None THEN @
                                                 ELSE IF disk[n] = None THEN Invalid
                                                 ELSE disk[n]]
        /\ \/ name = n /\ disk' = disk
           \/ /\ n \in DOMAIN Spares /\ name \in ToSet(Spares[n]) /\ disk[name] = None
              /\ disk' = [disk EXCEPT ![n] = None, ![name] = disk[n]]
  BY <1>1, ReadIs DEF FolderTypes
<1> HIDE DEF f
<1>6. ASSUME name # n, Rank[name] > Rank[n], disk[name] = None,
             disk' = [disk EXCEPT ![n] = None, ![name] = disk[n]]
      PROVE  /\ d \in [Names -> Nat] /\ \A m \in Names : d[m] < f
             /\ \A k, m \in Names : d[k] = d[m] /\ d[k] # None => k = m
             /\ \A m \in Names, s \in Int : s # None /\ Known(disk, f, m, s) => Known(d, f, m, s)
             /\ d[name] = disk[n]
             /\ \A m \in Names, s \in Int : s # None /\ Known(disk, f, m, s) =>
                                              (d[m] = s => disk[m] = s)
  <2>1. Rank[name] \in Nat /\ Rank[n] \in Nat
    BY RankNat
  <2>2. Rank[name] >= Rank[n] /\ ~(Rank[n] >= Rank[name])
    BY <1>6, <2>1
  <2>3. Fresh \in Nat /\ Fresh >= Fresh
    BY <1>2 DEF f
  <2>4. /\ d \in [Names -> Nat] /\ \A m \in Names : d[m] < Fresh
        /\ \A k, m \in Names : d[k] = d[m] /\ d[k] # None => k = m
        /\ \A m \in Names, s \in Int : s # None /\ Known(disk, Fresh, m, s) => Known(d, Fresh, m, s)
        /\ d[name] = disk[n] /\ d[n] = None
        /\ \A m \in Names : m # name /\ m # n => d[m] = disk[m]
    <3>1. d = [disk EXCEPT ![n] = None, ![name] = disk[n]] /\ n # name
      BY <1>6
    <3> HIDE DEF d
    <3> DEFINE g == Fresh
    <3>2. g \in Nat /\ g >= Fresh
      BY <2>3
    <3> HIDE DEF g
    <3>3. Moved(d, n, name, g)
      BY <1>6, <2>2, <3>1, <3>2, RenamedFiles
    <3> QED
      BY <3>3 DEF g, Moved
  <2>5. ASSUME NEW m \in Names, NEW s \in Int, s # None, Known(disk, f, m, s), d[m] = s
        PROVE  disk[m] = s
    <3>1. CASE m = name
      BY <2>2, <2>4, <2>5, <3>1 DEF Known
    <3>2. CASE m # name
      BY <2>4, <2>5, <3>2
    <3> QED
      BY <3>1, <3>2
  <2> QED
    BY <2>4, <2>5 DEF f
<1>7. /\ d \in [Names -> Nat] /\ \A m \in Names : d[m] < f
      /\ \A k, m \in Names : d[k] = d[m] /\ d[k] # None => k = m
      /\ \A m \in Names, s \in Int : s # None /\ Known(disk, f, m, s) => Known(d, f, m, s)
      /\ d[name] = disk[n]
      /\ \A m \in Names, s \in Int : s # None /\ Known(disk, f, m, s) => (d[m] = s => disk[m] = s)
  <2>1. CASE name = n /\ disk' = disk
    BY <1>2, <2>1
  <2>2. CASE /\ n \in DOMAIN Spares /\ name \in ToSet(Spares[n]) /\ disk[name] = None
             /\ disk' = [disk EXCEPT ![n] = None, ![name] = disk[n]]
    <3>1. Rank[name] > Rank[n]
      BY <2>2, RankIs
    <3>2. name # n
      BY <3>1, RankNat
    <3> HIDE DEF d
    <3> QED
      BY <1>6, <2>2, <3>1, <3>2
  <2> QED
    BY <1>5, <2>1, <2>2
<1>8. Known(d, f, name, Invalid) /\ (d[name] # None => Known(d, f, name, d[name]))
  BY <1>2, <1>7, StampKnown
<1>9. ASSUME NEW m \in Names, snapshot'[m] # None
      PROVE  Known(d, f, m, snapshot'[m])
  <2>1. snapshot[m] \in Int /\ (snapshot[m] # None => Known(disk, f, m, snapshot[m]))
    BY <1>2
  <2>2. CASE snapshot'[m] = snapshot[m]
    BY <1>7, <1>9, <2>1, <2>2
  <2>3. CASE snapshot'[m] # snapshot[m]
    <3>1. m = name /\ snapshot'[m] = IF disk[n] = None THEN Invalid ELSE disk[n]
      BY <1>2, <1>5, <2>3
    <3> HIDE DEF d
    <3> QED
      BY <1>7, <1>8, <3>1
  <2> QED
    BY <2>2, <2>3
<1> HIDE DEF d
<1>10. FilesTrue(d, f, snapshot')
  BY <1>7, <1>9 DEF FilesTrue
<1>11. RowsKnown(d, f, Now)
  BY <1>2, <1>4, <1>7 DEF RowsKnown
<1>12. \A i \in DOMAIN Now.mods : d[Now.mods[i].name] = Now.mods[i].stamp => disk[Now.mods[i].name] = Now.mods[i].stamp
  BY <1>2, <1>4, <1>7
<1> DEFINE before == disk
<1>13. RowsTrue(before, Now, posted) /\
       \A i \in DOMAIN Now.mods : d[Now.mods[i].name] = Now.mods[i].stamp => before[Now.mods[i].name] = Now.mods[i].stamp
  BY <1>1, <1>12
<1> HIDE DEF before
<1>14. RowsTrue(d, Now, posted)
  BY <1>13, FilesChange
<1> QED
  BY <1>1, <1>4, <1>10, <1>11, <1>14 DEF DetailSound, d

\* A mod is enabled or disabled, and its task has the new name.
LEMMA ToggleDetails ==
    ASSUME FolderSound, DetailSound, NEW row \in DOMAIN mods, Toggle(row), ~astray'
    PROVE  DetailSound'
<1> DEFINE old == mods[row].name
           tick == mods[row].ticket
           d == disk'
           f == Fresh
           g == Fresh'
           l == Now
           m == Now'
           p == posted
           now == disk
<1>1. /\ FolderTypes /\ InTurn(l, p) /\ RowsTrue(now, l, p) /\ FilesTrue(now, f, snapshot) /\ RowsKnown(now, f, l)
      /\ PlacesTrue /\ mods \in Seq(Mods) /\ parses \in Seq(ParseTasks) /\ ModList(l) /\ p \in Seq(Events)
      /\ changes \in Nat
  BY DEF FolderSound, DetailSound, FolderTypes, ModList, Now
<1>2. /\ f \in Nat /\ now \in [Names -> Nat] /\ snapshot \in [Names -> Int]
      /\ \A n \in Names : snapshot[n] # None => Known(now, f, n, snapshot[n])
      /\ \A i \in DOMAIN mods : /\ mods[i].name \in Names /\ mods[i].stamp \in Int
                                /\ mods[i].stamp # None
                                /\ Known(now, f, mods[i].name, mods[i].stamp)
  BY StampsAre
<1>3. PICK name \in Names :
        /\ \/ name = Toggled[old]
           \/ Toggled[old] \in DOMAIN Spares /\ name \in ToSet(Spares[Toggled[old]])
        /\ disk[name] = None
        /\ ChangedTo([disk EXCEPT ![old] = None, ![name] = disk[old]])
        /\ DOMAIN mods' = DOMAIN mods
        /\ mods'[row].name = name /\ mods'[row].stamp = disk[old]
        /\ mods'[row].ticket = tick /\ mods'[row].resolved = mods[row].resolved
        /\ mods'[row].details = mods[row].details
        /\ mods'[row].sure => /\ mods[row].sure /\ mods[row].stamp = disk[old]
                              /\ \A t \in active : parses[t].name \notin {old, name}
        /\ \A i \in DOMAIN mods : i # row => mods'[i] = mods[i]
        /\ parses' = [parses EXCEPT ![tick].name = name]
        /\ parses' \in Seq(ParseTasks) /\ Len(parses') = Len(parses)
        /\ astray' = (astray \/ \E i \in DOMAIN mods : mods[i].name = name)
  BY <1>1, ToggleIs, ZenonT(60)
<1>4. /\ old \in DOMAIN Toggled /\ disk[old] # None /\ old \in Names
      /\ UNCHANGED <<snapshot, active, queue, posted>>
  <2>1. old \in DOMAIN Toggled /\ disk[old] # None /\ UNCHANGED <<updateVars, active, resolverVars, posted>>
    BY <1>1, ToggleIs
  <2> QED
    BY <1>2, <2>1 DEF updateVars, resolverVars
<1>5. d = [disk EXCEPT ![old] = None, ![name] = disk[old]] /\ changes' = changes + 1
  BY <1>3 DEF ChangedTo
<1>6. g = f + 1 /\ g \in Nat /\ g >= f
  <2>1. g = f + 1
    BY <1>1, <1>5, NamesListed DEF Fresh
  <2> HIDE DEF f, g
  <2> QED
    BY <1>2, <2>1
<1>7. old # name /\ Rank[name] >= Rank[old]
  <2>1. old # name
    BY <1>3, <1>4
  <2>2. Rank[Toggled[old]] = Rank[old]
    BY <1>4, RankIs
  <2>3. Rank[name] \in Nat /\ Rank[old] \in Nat
    BY <1>4, RankNat
  <2>4. CASE name = Toggled[old]
    <3>1. Rank[name] = Rank[old]
      BY <2>2, <2>4
    <3> HIDE DEF old
    <3> QED
      BY <2>1, <2>3, <3>1
  <2>5. CASE Toggled[old] \in DOMAIN Spares /\ name \in ToSet(Spares[Toggled[old]])
    <3>1. Rank[name] > Rank[Toggled[old]]
      BY <2>5, RankIs
    <3> QED
      BY <2>2, <2>3, <3>1
  <2> QED
    BY <1>3, <2>1, <2>4, <2>5
<1>8. Moved(d, old, name, g)
  <2>1. g >= Fresh
    BY <1>6 DEF f
  <2> HIDE DEF d, g
  <2> QED
    BY <1>3, <1>4, <1>5, <1>6, <1>7, <2>1, RenamedFiles
<1>9. /\ d \in [Names -> Nat] /\ \A n \in Names : d[n] < g
      /\ \A k, n \in Names : d[k] = d[n] /\ d[k] # None => k = n
      /\ \A n \in Names, s \in Int : s # None /\ Known(now, f, n, s) => Known(d, g, n, s)
      /\ d[name] = now[old] /\ d[old] = None
      /\ \A n \in Names : n # name /\ n # old => d[n] = now[n]
  <2> HIDE DEF d, g
  <2> QED
    BY <1>8 DEF Moved
<1>10. /\ l.mods = mods /\ l.parses = parses /\ l.active = active /\ l.queue = queue
       /\ m.mods = mods' /\ m.parses = parses' /\ m.active = active /\ m.queue = queue
  BY <1>4 DEF Now
<1>11. Untried(m, p) = Untried(l, p) /\ Pending(m, p) = Pending(l, p)
  BY <1>10 DEF Untried, Pending
<1>12. RowTrue(now, l, p, mods[row]) /\ \A i \in DOMAIN mods : RowTrue(now, l, p, mods[i])
  BY <1>1, <1>10 DEF RowsTrue
<1>13. tick \in DOMAIN parses /\ parses[tick].name = old /\ ~parses[tick].aborted
  BY <1>10, <1>12 DEF RowTrue
<1>14. /\ DOMAIN parses' = DOMAIN parses
       /\ \A t \in DOMAIN parses : t # tick => parses'[t] = parses[t]
       /\ parses'[tick].name = name /\ parses'[tick].aborted = parses[tick].aborted
       /\ parses'[tick].details = parses[tick].details
  <2> DEFINE job == parses[tick]
             new == [job EXCEPT !.name = name]
  <2>1. job \in ParseTasks
    BY <1>1, <1>13
  <2>2. new.name = name /\ new.aborted = job.aborted /\ new.details = job.details
    <3> HIDE DEF job
    <3> QED
      BY <2>1 DEF ParseTasks
  <2>3. parses' = [parses EXCEPT ![tick] = new]
    BY <1>3
  <2> HIDE DEF job, new, tick
  <2>4. /\ DOMAIN parses' = DOMAIN parses /\ parses'[tick] = new
        /\ \A t \in DOMAIN parses : t # tick => parses'[t] = parses[t]
    BY <1>13, <2>3
  <2> QED
    BY <2>2, <2>4 DEF job
<1>15. /\ Pending(l, p) \subseteq 1 .. Len(parses) /\ Untried(l, p) \subseteq Pending(l, p)
       /\ Pending(l, p) \subseteq active /\ DOMAIN parses = 1 .. Len(parses)
  BY <1>1, <1>10, TicketsAre DEF InTurn
<1> HIDE DEF d, f, g, l, m, p, now
<1>16. InTurn(m, p)
  <2>1. \A t \in Untried(l, p) : parses'[t].details = 0
    <3>1. ASSUME NEW t \in Untried(l, p)
          PROVE  parses'[t].details = 0
      <4>1. t \in DOMAIN parses /\ parses[t].details = 0
        BY <1>1, <1>10, <1>15 DEF InTurn
      <4> QED
        BY <1>14, <4>1
    <3> QED
      BY <3>1
  <2> QED
    BY <1>1, <1>3, <1>10, <1>11, <2>1 DEF InTurn
<1>17. ASSUME NEW i \in DOMAIN mods, i # row
       PROVE  RowTrue(d, m, p, mods'[i])
  <2>1. mods[i].name # name /\ mods[i].name # old
    <3>1. \A j \in DOMAIN mods : mods[j].name # name
      BY <1>3
    <3>2. places[mods[i].name] = i /\ places[old] = row
      BY <1>1, <1>17 DEF PlacesTrue
    <3> QED
      BY <1>17, <3>1, <3>2
  <2>2. mods[i].ticket # tick
    BY <1>1, <1>10, <2>1, TicketsDiffer
  <2>3. d[mods[i].name] = now[mods[i].name]
    BY <1>2, <1>9, <2>1
  <2>4. \A u \in Pending(l, p) : parses'[u].name = mods[i].name => parses[u].name = mods[i].name
    BY <1>14, <1>15, <2>1
  <2>5. mods[i].ticket \in DOMAIN parses /\ parses'[mods[i].ticket] = parses[mods[i].ticket]
    BY <1>10, <1>12, <1>14, <2>2 DEF RowTrue
  <2>6. RowTrue(d, m, p, mods[i])
    BY <1>10, <1>11, <1>12, <1>14, <2>3, <2>4, <2>5 DEF RowTrue
  <2> QED
    BY <1>3, <1>17, <2>6
<1>18. RowTrue(d, m, p, mods'[row])
  <2> DEFINE r == mods[row]
             new == mods'[row]
  <2>1. /\ tick \in DOMAIN m.parses /\ m.parses[tick].name = name /\ ~m.parses[tick].aborted
        /\ new.ticket = tick /\ new.name = name /\ new.stamp # None
    BY <1>3, <1>4, <1>10, <1>13, <1>14
  <2>2. ASSUME new.sure
        PROVE  /\ tick \notin active
               /\ new.resolved /\ new.details = parses[tick].details
               /\ \A u \in Pending(l, p) : parses'[u].name # name
               /\ \A u \in Pending(l, p) : u > tick
               /\ tick \notin Untried(l, p) => parses[tick].details = new.stamp
    <3>1. r.sure /\ r.stamp = now[old] /\ \A t \in active : parses[t].name # old /\ parses[t].name # name
      BY <1>3, <2>2 DEF now
    <3>2. tick \notin active /\ tick \notin Pending(l, p)
      BY <1>13, <1>15, <3>1
    <3>3. RowTrue(now, l, p, r) /\ r.ticket = tick /\ r.name = old
      BY <1>12
    <3>4. /\ r.resolved /\ r.details = parses[tick].details
          /\ \A u \in Pending(l, p) : u > tick
          /\ tick \notin Untried(l, p) => parses[tick].details = r.stamp \/ now[old] # r.stamp
      <4> HIDE DEF r
      <4> QED
        BY <1>10, <3>1, <3>2, <3>3 DEF RowTrue
    <3>5. \A u \in Pending(l, p) : parses'[u].name # name
      BY <1>14, <1>15, <3>1, <3>2
    <3>6. new.resolved = r.resolved /\ new.details = r.details /\ new.stamp = now[old]
      BY <1>3 DEF now
    <3> QED
      BY <3>1, <3>2, <3>4, <3>5, <3>6
  <2> HIDE DEF new
  <2>3. RowTrue(d, m, p, new)
    BY <1>10, <1>11, <1>14, <1>15, <2>1, <2>2 DEF RowTrue
  <2> QED
    BY <2>3 DEF new
<1>19. RowsTrue(d, m, p)
  BY <1>3, <1>10, <1>17, <1>18 DEF RowsTrue
<1>20. RowsKnown(d, g, m)
  <2>1. \A i \in DOMAIN mods : i # row => Known(d, g, mods'[i].name, mods'[i].stamp)
    BY <1>2, <1>3, <1>9
  <2>2. Known(d, g, name, d[name])
    <3>1. d[name] # None
      BY <1>4, <1>9 DEF now
    <3> QED
      BY <1>6, <1>9, <3>1, StampKnown
  <2>3. mods'[row].name = name /\ mods'[row].stamp = d[name]
    BY <1>3, <1>9 DEF now
  <2> QED
    BY <1>3, <1>10, <2>1, <2>2, <2>3 DEF RowsKnown
<1>21. FilesTrue(d, g, snapshot)
  BY <1>2, <1>9 DEF FilesTrue
<1> QED
  BY <1>4, <1>16, <1>19, <1>20, <1>21 DEF DetailSound, d, g, m, p

\* Nothing happens to rows, tasks, files and events.
LEMMA SameDetails ==
    ASSUME DetailSound, Now' = Now, disk' = disk, changes' = changes, posted' = posted,
           snapshot' = snapshot
    PROVE  DetailSound'
<1>1. FilesTrue(disk, Fresh, snapshot') /\ InTurn(Now, posted') /\ RowsTrue(disk, Now, posted')
  BY DEF DetailSound
<1> QED
  BY <1>1, QuietDetails

\* What people do to the folder and what the watcher says of it.
LEMMA PeopleDetails ==
    ASSUME FolderSound, DetailSound,
           \/ \E n \in Names : OthersChange(n)
           \/ \E n \in Given : Install(n)
           \/ \E row \in DOMAIN mods : Uninstall(row)
           \/ StartWatching \/ StopWatching \/ ChangeNoticed
    PROVE  DetailSound'
<1>1. FolderTypes /\ Given \subseteq Names
  BY FolderAssumption DEF FolderSound
<1>2. Update => snapshot' = snapshot
  BY DEF Update
<1>3. /\ UNCHANGED <<listVars, parseVars, resolverVars, posted>>
      /\ snapshot' = snapshot
  BY <1>2 DEF OthersChange, Install, Uninstall, StartWatching, StopWatching, ChangeNoticed, updateVars
<1>4. Now' = Now /\ posted' = posted
  BY <1>3 DEF Now, listVars, parseVars, resolverVars
<1>5. CASE StartWatching \/ StopWatching \/ ChangeNoticed
  <2>1. disk' = disk /\ changes' = changes
    BY <1>5 DEF StartWatching, StopWatching, ChangeNoticed, diskVars
  <2> QED
    BY <1>3, <1>4, <2>1, SameDetails
<1>6. \A i \in DOMAIN mods : mods[i].name \in Names
  BY StampsAre
<1>7. CASE \/ \E n \in Names : OthersChange(n)
           \/ \E n \in Given : Install(n)
           \/ \E row \in DOMAIN mods : Uninstall(row)
  <2>1. PICK n \in Names, x \in {Fresh, None} : ChangedTo([disk EXCEPT ![n] = x])
    <3>1. CASE \E n \in Names : OthersChange(n)
      BY <3>1 DEF OthersChange
    <3>2. CASE \E n \in Given : Install(n)
      BY <1>1, <3>2 DEF Install
    <3>3. CASE \E row \in DOMAIN mods : Uninstall(row)
      BY <1>6, <3>3 DEF Uninstall
    <3> QED
      BY <1>7, <3>1, <3>2, <3>3
  <2>2. disk' = [disk EXCEPT ![n] = x] /\ changes' = changes + 1
    BY <2>1 DEF ChangedTo
  <2> QED
    BY <1>3, <1>4, <2>2, ChangedDetails
<1> QED
  BY <1>5, <1>7

\* The pool thread lists the folder.
LEMMA ListDetails ==
    ASSUME FolderSound, DetailSound, List
    PROVE  DetailSound'
<1>1. /\ snapshot' = [n \in Names |-> None]
      /\ UNCHANGED <<disk, changes, mods, places, parses, active, queue, posted>>
  BY DEF List, diskVars, listVars, parseVars, resolverVars
<1>2. Now' = Now
  BY <1>1 DEF Now
<1>3. FilesTrue(disk, Fresh, snapshot')
  BY <1>1 DEF DetailSound, FilesTrue
<1>4. InTurn(Now, posted') /\ RowsTrue(disk, Now, posted')
  BY <1>1 DEF DetailSound
<1> QED
  BY <1>1, <1>2, <1>3, <1>4, QuietDetails

\* Events are posted that have nothing to do with tasks.
LEMMA MoreDetails ==
    ASSUME FolderSound, DetailSound, NEW more \in Seq(Events),
           \A i \in DOMAIN more : more[i].kind \notin {"Parse", "Parsed", "Done"},
           posted' = posted \o more,
           UNCHANGED <<disk, changes, snapshot, mods, parses, active, queue>>
    PROVE  DetailSound'
<1> DEFINE p == posted
           q == posted'
           l == Now
           d == disk
<1>1. p \in Seq(Events) /\ q = p \o more
  BY DEF FolderSound, FolderTypes
<1>2. InTurn(l, p) /\ RowsTrue(d, l, p) /\ FilesTrue(disk, Fresh, snapshot')
  BY DEF DetailSound
<1>3. Now' = Now
  BY DEF Now
<1> HIDE DEF p, q, l, d
<1>4. (\A k \in {"Parse", "Parsed", "Done"} : Stage(q, k) = Stage(p, k)) /\ (Sorted(p) => Sorted(q))
  BY <1>1, StageMore, ZenonT(40)
<1>5. InTurn(l, q) /\ RowsTrue(d, l, q)
  BY <1>2, <1>4, StagesKept
<1>6. InTurn(Now, posted') /\ RowsTrue(disk, Now, posted')
  BY <1>5 DEF q, l, d
<1> QED
  BY <1>2, <1>3, <1>6, QuietDetails

\* The result of an update is posted.
LEMMA ReadEndsDetails ==
    ASSUME FolderSound, DetailSound, ReadEnds
    PROVE  DetailSound'
<1> DEFINE more == <<Event("Updated", 0), Event("Over", 0)>>
<1>1. posted' = posted \o more /\ UNCHANGED <<disk, changes, snapshot, mods, parses, active, queue>>
  BY DEF ReadEnds, diskVars, listVars, parseVars, resolverVars
<1>2. Event("Updated", 0) \in Events /\ Event("Over", 0) \in Events
  BY DEF Event, Events, Kinds
<1>3. more \in Seq(Events)
  <2> HIDE DEF Event
  <2> QED
    BY <1>2
<1>4. \A i \in DOMAIN more : more[i].kind \notin {"Parse", "Parsed", "Done"}
  BY DEF Event
<1> HIDE DEF more
<1> QED
  BY <1>1, <1>3, <1>4, MoreDetails

\* The wakeups of the resolver are posted.
LEMMA StartsDetails ==
    ASSUME FolderSound, DetailSound, PoolStarts
    PROVE  DetailSound'
<1> DEFINE more == [i \in 1 .. MaxConcurrent |-> Wake]
<1>1. posted' = posted \o more /\ UNCHANGED <<disk, changes, snapshot, mods, parses, active, queue>>
  BY DEF PoolStarts, diskVars, listVars, parseVars, updateVars
<1>2. Wake \in Events /\ Wake.kind = "Wake"
  BY DEF Wake, Event, Events, Kinds
<1>3. more \in Seq(Events)
  <2>1. more \in [1 .. MaxConcurrent -> Events] /\ MaxConcurrent \in Nat
    BY <1>2, FolderAssumption
  <2> HIDE DEF more
  <2> QED
    BY <2>1
<1>4. \A i \in DOMAIN more : more[i].kind \notin {"Parse", "Parsed", "Done"}
  BY <1>2
<1> HIDE DEF more
<1> QED
  BY <1>1, <1>3, <1>4, MoreDetails

\* At first there are files and no rows.
LEMMA InitDetails ==
    ASSUME FolderInit
    PROVE  DetailSound
<1>1. FolderTypes
  BY InitFolder
<1>2. mods = <<>> /\ queue = <<>> /\ posted = <<>> /\ parses = <<>> /\ active = {} /\ snapshot = disk /\ changes = 0
  BY DEF FolderInit
<1>3. /\ Now.mods = <<>> /\ Now.queue = <<>> /\ Now.parses = <<>> /\ Now.active = {}
      /\ \A k : Stage(posted, k) = {}
  BY <1>2 DEF Now, Stage
<1>4. Untried(Now, posted) = {} /\ Pending(Now, posted) = {}
  BY <1>3 DEF Untried, Pending, ToSet
<1>5. InTurn(Now, posted)
  BY <1>2, <1>3, <1>4 DEF InTurn, Rising, Sorted
<1>6. RowsTrue(disk, Now, posted) /\ RowsKnown(disk, Fresh, Now)
  BY <1>3 DEF RowsTrue, RowsKnown
<1>7. disk \in [Names -> Nat] /\ Fresh = Len(Order) + 1 /\ Fresh \in Nat
  BY <1>1, <1>2, NamesListed DEF FolderTypes, Fresh
<1>8. \A n \in Names : disk[n] # None => disk[n] \in DOMAIN Order /\ Order[disk[n]] = n
  <2>1. TAKE n \in Names
  <2>2. disk[n] # None => disk[n] = CHOOSE k \in DOMAIN Order : Order[k] = n
    BY DEF FolderInit
  <2>3. \E k \in DOMAIN Order : Order[k] = n
    BY NamesListed
  <2> QED
    BY <2>2, <2>3
<1>9. \A n \in Names : disk[n] < Fresh
  <2>1. TAKE n \in Names
  <2>2. CASE disk[n] = None
    BY <1>7, <2>2, NamesListed DEF None
  <2>3. CASE disk[n] # None
    <3>1. disk[n] \in 1 .. Len(Order)
      BY <1>8, <2>3, NamesListed
    <3> QED
      BY <1>7, <3>1, NamesListed
  <2> QED
    BY <2>2, <2>3
<1>10. \A n, m \in Names : disk[n] = disk[m] /\ disk[n] # None => n = m
  BY <1>8
<1> DEFINE d == disk
           f == Fresh
<1>11. /\ d \in [Names -> Nat] /\ f \in Nat /\ \A n \in Names : d[n] < f
       /\ \A n, m \in Names : d[n] = d[m] /\ d[n] # None => n = m
  BY <1>7, <1>9, <1>10
<1>12. snapshot = d
  BY <1>2
<1> HIDE DEF d, f
<1>13. \A n \in Names : d[n] # None => Known(d, f, n, d[n])
  BY <1>11, StampKnown
<1>14. FilesTrue(d, f, snapshot)
  BY <1>11, <1>12, <1>13 DEF FilesTrue
<1> QED
  BY <1>5, <1>6, <1>14 DEF DetailSound, d, f

\* Every step keeps what DetailsAreTrue rests on.
LEMMA NextDetails ==
    ASSUME FolderSound, DetailSound, [FolderNext]_folderVars, ~astray'
    PROVE  DetailSound'
<1>1. CASE \E row \in DOMAIN mods : Toggle(row)
  BY <1>1, ToggleDetails
<1>2. CASE \E e \in {posted[i] : i \in DOMAIN posted} : Handle(e)
  BY <1>2, HandleDetails
<1>3. CASE UNCHANGED folderVars
  <2>1. Now' = Now /\ UNCHANGED <<disk, changes, posted, snapshot>>
    BY <1>3 DEF folderVars, diskVars, listVars, parseVars, resolverVars, updateVars, Now
  <2> QED
    BY <2>1, SameDetails
<1>4. CASE \/ \E n \in Names : OthersChange(n)
           \/ \E n \in Given : Install(n)
           \/ \E row \in DOMAIN mods : Uninstall(row)
           \/ StartWatching \/ StopWatching \/ ChangeNoticed
  BY <1>4, PeopleDetails
<1>5. CASE List \/ Read \/ ReadEnds \/ PoolStarts
  BY <1>5, ListDetails, ReadDetails, ReadEndsDetails, StartsDetails
<1> QED
  BY <1>1, <1>2, <1>3, <1>4, <1>5 DEF FolderNext, UserNext, ThreadNext

\* DetailInv is an invariant.
THEOREM DetailsCorrect == FolderSpec => []DetailInv
<1>1. FolderInit => DetailInv
  BY InitDetails DEF DetailInv
<1>2. FolderInv /\ DetailInv /\ [FolderNext]_folderVars => DetailInv'
  <2> SUFFICES ASSUME FolderInv, DetailInv, [FolderNext]_folderVars, ~astray'
               PROVE  DetailSound'
    BY DEF DetailInv
  <2>1. ~astray
    BY AstrayStays
  <2>2. FolderSound /\ DetailSound
    BY <2>1 DEF FolderInv, FolderSound, DetailInv
  <2> QED
    BY <2>2, NextDetails
<1> QED
  BY <1>1, <1>2, FolderCorrect, PTL DEF FolderSpec

\* DetailsAreTrue: when no task is under way for a row, the row shows what the task
\* that was made for it last has read from the file that is there.
THEOREM DetailsAlwaysTrue == FolderSpec => []DetailsAreTrue
<1>1. FolderInv /\ DetailInv => DetailsAreTrue
  <2>1. SUFFICES ASSUME FolderInv, DetailInv, Settled, NEW i \in DOMAIN mods,
                        mods[i].ticket \notin active, mods[i].sure
                 PROVE  mods[i].resolved /\ mods[i].details = disk[mods[i].name]
    BY DEF DetailsAreTrue
  <2> DEFINE r == mods[i]
             t == mods[i].ticket
  <2>2. FolderTypes /\ PlacesTrue /\ Shows(disk) /\ DetailSound
    BY <2>1 DEF FolderInv, AgainInTime, NothingForgotten, Settled, DetailInv
  <2>3. /\ Now.mods = mods /\ Now.parses = parses /\ Now.active = active
        /\ InTurn(Now, posted) /\ RowsTrue(disk, Now, posted) /\ ModList(Now) /\ posted \in Seq(Events)
    BY <2>2 DEF Now, DetailSound, FolderTypes
  <2>4. Pending(Now, posted) \subseteq active /\ Untried(Now, posted) \subseteq Pending(Now, posted)
    BY <2>3, TicketsAre DEF InTurn
  <2>5. RowTrue(disk, Now, posted, r)
    BY <2>3 DEF RowsTrue
  <2>6. /\ r.resolved /\ r.details = parses[t].details
        /\ parses[t].details = r.stamp \/ disk[r.name] # r.stamp
    <3>1. t \notin Pending(Now, posted) /\ t \notin Untried(Now, posted) /\ r.sure
      BY <2>1, <2>4
    <3>2. r.ticket = t
      OBVIOUS
    <3> HIDE DEF r, t
    <3> QED
      BY <2>3, <2>5, <3>1, <3>2 DEF RowTrue
  <2>7. disk[r.name] = r.stamp
    <3>1. r.name \in Names
      <4>1. mods \in Seq(Mods)
        BY <2>2 DEF FolderTypes, ModList, Now
      <4>2. r \in Mods
        BY <4>1
      <4> QED
        BY <4>2 DEF Mods
    <3>2. places[r.name] = i
      BY <2>2 DEF PlacesTrue
    <3>3. i # 0 /\ None = 0
      BY <2>2 DEF FolderTypes, ModList, Now, None
    <3> QED
      BY <2>2, <3>1, <3>2, <3>3 DEF Shows
  <2> QED
    BY <2>6, <2>7
<1> QED
  BY <1>1, FolderCorrect, DetailsCorrect, PTL
===============================================================================
