--------------------------- MODULE OptGemm_proofs ---------------------------
(***************************************************************************)
(* opt_gemm is correct for every set of shapes, every vector length and    *)
(* every number of accumulators: whatever the order of the additions, each *)
(* cell it stores sums the scaled old content and its k products, each     *)
(* exactly once.  And the two pictures of it in doc/ show what it does.    *)
(***************************************************************************)
EXTENDS OptDrawing, KernelLemmas, FiniteSetTheorems

\* SumsTo without the places: by accumulator and position.
LEMMA SumsByPosition ==
  ASSUME NEW v, NEW ref
  PROVE  SumsTo(v, ref) <=>
           /\ \A y \in DOMAIN ref : \E q \in DOMAIN v : \E x \in DOMAIN v[q] : v[q][x] = ref[y]
           /\ \A q \in DOMAIN v : \A x \in DOMAIN v[q] :
                v[q][x] = Zero \/ \E y \in DOMAIN ref : v[q][x] = ref[y]
           /\ \A q1, q2 \in DOMAIN v : \A x1 \in DOMAIN v[q1], x2 \in DOMAIN v[q2] :
                v[q1][x1] = v[q2][x2] => (q1 = q2 /\ x1 = x2) \/ v[q1][x1] = Zero
           /\ \E q \in DOMAIN v : SubSeq(v[q], 1, 2) = SubSeq(ref, 1, 2)
<1>1. \A p \in Places(v) :
        p[1] \in DOMAIN v /\ p[2] \in DOMAIN v[p[1]] /\ p = <<p[1], p[2]>>
  BY DEF Places
<1>2. ASSUME NEW q \in DOMAIN v, NEW x \in DOMAIN v[q]
      PROVE  \E p \in Places(v) : p[1] = q /\ p[2] = x
  <2>1. <<q, x>> \in Places(v)
    BY DEF Places
  <2> QED BY <2>1
<1>3. (\A y \in DOMAIN ref : \E p \in Places(v) : v[p[1]][p[2]] = ref[y])
        <=> (\A y \in DOMAIN ref : \E q \in DOMAIN v : \E x \in DOMAIN v[q] : v[q][x] = ref[y])
  BY <1>1, <1>2
<1>4. (\A p \in Places(v) : v[p[1]][p[2]] = Zero \/ \E y \in DOMAIN ref : v[p[1]][p[2]] = ref[y])
        <=> (\A q \in DOMAIN v : \A x \in DOMAIN v[q] :
               v[q][x] = Zero \/ \E y \in DOMAIN ref : v[q][x] = ref[y])
  BY <1>1, <1>2
<1>5. (\A p1, p2 \in Places(v) :
         v[p1[1]][p1[2]] = v[p2[1]][p2[2]] => p1 = p2 \/ v[p1[1]][p1[2]] = Zero)
        <=> (\A q1, q2 \in DOMAIN v : \A x1 \in DOMAIN v[q1], x2 \in DOMAIN v[q2] :
               v[q1][x1] = v[q2][x2] => (q1 = q2 /\ x1 = x2) \/ v[q1][x1] = Zero)
  <2>1. ASSUME \A p1, p2 \in Places(v) :
                 v[p1[1]][p1[2]] = v[p2[1]][p2[2]] => p1 = p2 \/ v[p1[1]][p1[2]] = Zero,
               NEW q1 \in DOMAIN v, NEW q2 \in DOMAIN v,
               NEW x1 \in DOMAIN v[q1], NEW x2 \in DOMAIN v[q2], v[q1][x1] = v[q2][x2]
        PROVE  (q1 = q2 /\ x1 = x2) \/ v[q1][x1] = Zero
    <3>1. PICK p1 \in Places(v) : p1[1] = q1 /\ p1[2] = x1
      BY <1>2
    <3>2. PICK p2 \in Places(v) : p2[1] = q2 /\ p2[2] = x2
      BY <1>2
    <3>3. p1 = p2 \/ v[q1][x1] = Zero
      BY <2>1, <3>1, <3>2
    <3> QED BY <3>1, <3>2, <3>3
  <2>2. ASSUME \A q1, q2 \in DOMAIN v : \A x1 \in DOMAIN v[q1], x2 \in DOMAIN v[q2] :
                 v[q1][x1] = v[q2][x2] => (q1 = q2 /\ x1 = x2) \/ v[q1][x1] = Zero,
               NEW p1 \in Places(v), NEW p2 \in Places(v), v[p1[1]][p1[2]] = v[p2[1]][p2[2]]
        PROVE  p1 = p2 \/ v[p1[1]][p1[2]] = Zero
    <3>1. (p1[1] = p2[1] /\ p1[2] = p2[2]) \/ v[p1[1]][p1[2]] = Zero
      BY <1>1, <2>2
    <3> QED BY <1>1, <3>1
  <2> QED BY <2>1, <2>2
<1> QED BY <1>3, <1>4, <1>5 DEF SumsTo

\* Appending keeps a sequence's first two entries.
LEMMA AppendKeeps ==
  ASSUME NEW T, NEW s \in Seq(T), NEW e \in T
  PROVE  /\ Append(s, e) \in Seq(T)
         /\ Len(s) >= 1 => Len(Append(s, e)) >= 1 /\ Append(s, e)[1] = s[1]
         /\ Len(s) >= 2 =>
              Len(Append(s, e)) >= 2 /\ Append(s, e)[1] = s[1] /\ Append(s, e)[2] = s[2]
OBVIOUS

\* What the first three conjuncts of SumsTo say of the operations of ref at
\* the positions Y.
AllIn(v, ref, Y) ==
  \A y \in Y : \E q \in DOMAIN v : \E x \in DOMAIN v[q] : v[q][x] = ref[y]

OnlyFrom(v, ref, Y) ==
  \A q \in DOMAIN v : \A x \in DOMAIN v[q] : v[q][x] = Zero \/ \E y \in Y : v[q][x] = ref[y]

NoneTwice(v) ==
  \A q1, q2 \in DOMAIN v : \A x1 \in DOMAIN v[q1], x2 \in DOMAIN v[q2] :
    v[q1][x1] = v[q2][x2] => (q1 = q2 /\ x1 = x2) \/ v[q1][x1] = Zero

\* A prefix of a sequence, position by position.
LEMMA PrefixAt ==
  ASSUME NEW T, NEW s \in Seq(T), NEW p \in Nat, p <= Len(s)
  PROVE  DOMAIN SubSeq(s, 1, p) = 1 .. p /\ \A y \in 1 .. p : SubSeq(s, 1, p)[y] = s[y]
OBVIOUS

\* The first two entries of a prefix are those of the sequence.
LEMMA FirstTwo ==
  ASSUME NEW T, NEW s \in Seq(T), 2 <= Len(s)
  PROVE  SubSeq(s, 1, 2) = [x \in 1 .. 2 |-> s[x]]
OBVIOUS

\* An appended sequence, position by position.
LEMMA AppendAt ==
  ASSUME NEW T, NEW s \in Seq(T), NEW e \in T
  PROVE  /\ DOMAIN Append(s, e) = DOMAIN s \cup {Len(s) + 1}
         /\ \A x \in DOMAIN s : Append(s, e)[x] = s[x]
         /\ Append(s, e)[Len(s) + 1] = e
OBVIOUS

First(ref) == [x \in 1 .. 2 |-> ref[x]]

\* SumsTo a prefix of ref.
LEMMA SumsPrefix ==
  ASSUME NEW T, NEW v, NEW ref \in Seq(T), NEW p \in Nat, 2 <= p, p <= Len(ref)
  PROVE  SumsTo(v, SubSeq(ref, 1, p)) <=>
           /\ AllIn(v, ref, 1 .. p) /\ OnlyFrom(v, ref, 1 .. p) /\ NoneTwice(v)
           /\ \E q \in DOMAIN v : SubSeq(v[q], 1, 2) = First(ref)
<1> DEFINE pre == SubSeq(ref, 1, p)
<1>1. DOMAIN pre = 1 .. p /\ \A y \in 1 .. p : pre[y] = ref[y]
  BY PrefixAt
<1>2. SubSeq(pre, 1, 2) = First(ref)
  <2>1. pre \in Seq(T) /\ Len(pre) = p
    OBVIOUS
  <2>2. SubSeq(pre, 1, 2) = [x \in 1 .. 2 |-> pre[x]]
    BY <2>1, FirstTwo
  <2>3. \A x \in 1 .. 2 : pre[x] = ref[x]
    BY <1>1
  <2> HIDE DEF pre
  <2> QED BY <2>2, <2>3 DEF First
<1> HIDE DEF pre
<1>3. (\A y \in DOMAIN pre : \E q \in DOMAIN v : \E x \in DOMAIN v[q] : v[q][x] = pre[y])
        <=> AllIn(v, ref, 1 .. p)
  BY <1>1 DEF AllIn
<1>4. (\A q \in DOMAIN v : \A x \in DOMAIN v[q] :
         v[q][x] = Zero \/ \E y \in DOMAIN pre : v[q][x] = pre[y])
        <=> OnlyFrom(v, ref, 1 .. p)
  BY <1>1 DEF OnlyFrom
<1>5. SumsTo(v, pre) <=>
           /\ AllIn(v, ref, 1 .. p) /\ OnlyFrom(v, ref, 1 .. p) /\ NoneTwice(v)
           /\ \E q \in DOMAIN v : SubSeq(v[q], 1, 2) = First(ref)
  BY <1>2, <1>3, <1>4, SumsByPosition DEF NoneTwice
<1> QED BY <1>5 DEF pre

\* Each of the first w accumulators goes on with the operation of ref that is
\* its own; ref is a chain without zeros or repetitions.
Extends(v, v2, ref, p, N, w) ==
  /\ DOMAIN v = 0 .. N - 1 /\ DOMAIN v2 = 0 .. N - 1
  /\ \A q \in 0 .. w - 1 : v2[q] = Append(v[q], ref[p + 1 + q])
  /\ \A q \in w .. N - 1 : v2[q] = v[q]
  /\ \A y \in 1 .. Len(ref) : ref[y] # Zero
  /\ \A y, z \in 1 .. Len(ref) : ref[y] = ref[z] => y = z

\* Then the family sums to a prefix that is w operations longer.
LEMMA SumsGrow ==
  ASSUME NEW N \in Nat, NEW T, NEW v, NEW v2, NEW ref \in Seq(T),
         NEW p \in Nat, NEW w \in Nat, 1 <= w, w <= N, 2 <= p, p + w <= Len(ref),
         Extends(v, v2, ref, p, N, w), v \in [0 .. N - 1 -> Seq(T)],
         Len(v[0]) >= 2, v[0][1] = ref[1], v[0][2] = ref[2],
         SumsTo(v, SubSeq(ref, 1, p))
  PROVE  SumsTo(v2, SubSeq(ref, 1, p + w))
<1> DEFINE Q == 0 .. N - 1
           D == 0 .. w - 1
           new(q) == p + 1 + q
           last(q) == Len(v[q]) + 1
<1>1. /\ p <= Len(ref) /\ p + w \in Nat /\ 2 <= p + w /\ DOMAIN v = Q /\ DOMAIN v2 = Q /\ 0 \in Q
  BY DEF Extends
<1>2. AllIn(v, ref, 1 .. p) /\ OnlyFrom(v, ref, 1 .. p) /\ NoneTwice(v)
  BY <1>1, SumsPrefix
<1>3. ASSUME NEW q \in D
      PROVE  /\ q \in Q /\ new(q) \in 1 .. Len(ref) /\ new(q) \in 1 .. p + w /\ new(q) \notin 1 .. p
             /\ DOMAIN v2[q] = DOMAIN v[q] \cup {last(q)}
             /\ \A x \in DOMAIN v[q] : v2[q][x] = v[q][x]
             /\ v2[q][last(q)] = ref[new(q)]
  <2>1. q \in Q /\ new(q) \in 1 .. Len(ref) /\ new(q) \in 1 .. p + w /\ new(q) \notin 1 .. p
    <3>1. q \in Int /\ 0 <= q /\ q < w /\ Len(ref) \in Nat
      OBVIOUS
    <3> QED BY <3>1
  <2>2. v[q] \in Seq(T) /\ ref[new(q)] \in T
    BY <2>1
  <2>3. v2[q] = Append(v[q], ref[new(q)])
    BY DEF Extends
  <2> HIDE DEF Q, new
  <2>4. /\ DOMAIN Append(v[q], ref[new(q)]) = DOMAIN v[q] \cup {last(q)}
        /\ \A x \in DOMAIN v[q] : Append(v[q], ref[new(q)])[x] = v[q][x]
        /\ Append(v[q], ref[new(q)])[last(q)] = ref[new(q)]
    <3>1. \A a \in Seq(T), e \in T :
            /\ DOMAIN Append(a, e) = DOMAIN a \cup {Len(a) + 1}
            /\ \A x \in DOMAIN a : Append(a, e)[x] = a[x]
            /\ Append(a, e)[Len(a) + 1] = e
      BY AppendAt
    <3> QED BY <2>2, <3>1, Zenon DEF last
  <2> HIDE DEF last
  <2> QED BY <2>1, <2>3, <2>4
<1>4. ASSUME NEW q \in Q, q \notin D
      PROVE  v2[q] = v[q]
  <2>1. q \in w .. N - 1
    BY <1>4
  <2> QED BY <2>1 DEF Extends
<1>5. ASSUME NEW y \in 1 .. Len(ref)
      PROVE  ref[y] # Zero /\ \A z \in 1 .. Len(ref) : ref[y] = ref[z] => y = z
  BY DEF Extends
<1>6. 1 .. p \subseteq 1 .. p + w /\ 1 .. p \subseteq 1 .. Len(ref)
  BY <1>1
<1>7. \A y \in (1 .. p + w) \ (1 .. p) : \E q \in D : y = new(q)
  <2> SUFFICES ASSUME NEW y \in (1 .. p + w) \ (1 .. p) PROVE \E q \in D : y = new(q)
    OBVIOUS
  <2>1. y - p - 1 \in D /\ y = new(y - p - 1)
    OBVIOUS
  <2> QED BY <2>1
<1> HIDE DEF Q, D, new, last
\* Where an operation of the extended family is: it was there, or it is new.
<1>8. ASSUME NEW q \in Q, NEW x \in DOMAIN v2[q]
      PROVE  \/ x \in DOMAIN v[q] /\ v2[q][x] = v[q][x]
             \/ q \in D /\ x = last(q) /\ v2[q][x] = ref[new(q)]
  BY <1>3, <1>4
<1>9. ASSUME NEW q \in Q, NEW x \in DOMAIN v[q]
      PROVE  x \in DOMAIN v2[q] /\ v2[q][x] = v[q][x]
  BY <1>3, <1>4
\* An operation that is new is none of the old ones.
<1>10. ASSUME NEW q \in D, NEW r \in Q, NEW x \in DOMAIN v[r], v[r][x] = ref[new(q)]
       PROVE  FALSE
  <2>1. v[r][x] # Zero
    BY <1>3, <1>5, <1>10
  <2>2. PICK y \in 1 .. p : v[r][x] = ref[y]
    BY <1>1, <1>2, <2>1 DEF OnlyFrom
  <2>3. y \in 1 .. Len(ref) /\ ref[y] = ref[new(q)]
    BY <1>6, <1>10, <2>2
  <2> QED BY <1>3, <1>5, <2>2, <2>3
<1>11. AllIn(v2, ref, 1 .. p + w)
  <2> SUFFICES ASSUME NEW y \in 1 .. p + w
               PROVE  \E q \in Q : \E x \in DOMAIN v2[q] : v2[q][x] = ref[y]
    BY <1>1 DEF AllIn
  <2>1. CASE y \in 1 .. p
    <3>1. PICK q \in Q : \E x \in DOMAIN v[q] : v[q][x] = ref[y]
      BY <1>1, <1>2, <2>1 DEF AllIn
    <3> QED BY <1>9, <3>1
  <2>2. CASE y \notin 1 .. p
    <3>1. PICK q \in D : y = new(q)
      BY <1>7, <2>2
    <3> QED BY <1>3, <3>1
  <2> QED BY <2>1, <2>2
<1>12. OnlyFrom(v2, ref, 1 .. p + w)
  <2> SUFFICES ASSUME NEW q \in Q, NEW x \in DOMAIN v2[q]
               PROVE  v2[q][x] = Zero \/ \E y \in 1 .. p + w : v2[q][x] = ref[y]
    BY <1>1 DEF OnlyFrom
  <2>1. CASE x \in DOMAIN v[q] /\ v2[q][x] = v[q][x]
    <3>1. v[q][x] = Zero \/ \E y \in 1 .. p : v[q][x] = ref[y]
      BY <1>1, <1>2, <2>1 DEF OnlyFrom
    <3> QED BY <1>6, <2>1, <3>1
  <2>2. CASE q \in D /\ x = last(q) /\ v2[q][x] = ref[new(q)]
    BY <1>3, <2>2
  <2> QED BY <1>8, <2>1, <2>2
<1>13. NoneTwice(v2)
  <2> SUFFICES ASSUME NEW q1 \in Q, NEW q2 \in Q, NEW x1 \in DOMAIN v2[q1], NEW x2 \in DOMAIN v2[q2],
                      v2[q1][x1] = v2[q2][x2]
               PROVE  (q1 = q2 /\ x1 = x2) \/ v2[q1][x1] = Zero
    BY <1>1 DEF NoneTwice
  <2>1. CASE /\ x1 \in DOMAIN v[q1] /\ v2[q1][x1] = v[q1][x1]
             /\ x2 \in DOMAIN v[q2] /\ v2[q2][x2] = v[q2][x2]
    <3>1. \A r1, r2 \in Q : \A y1 \in DOMAIN v[r1], y2 \in DOMAIN v[r2] :
            v[r1][y1] = v[r2][y2] => (r1 = r2 /\ y1 = y2) \/ v[r1][y1] = Zero
      BY <1>1, <1>2 DEF NoneTwice
    <3>2. v[q1][x1] = v[q2][x2]
      BY <2>1
    <3> QED BY <2>1, <3>1, <3>2
  <2>2. CASE /\ q1 \in D /\ x1 = last(q1) /\ v2[q1][x1] = ref[new(q1)]
             /\ x2 \in DOMAIN v[q2] /\ v2[q2][x2] = v[q2][x2]
    BY <1>10, <2>2
  <2>3. CASE /\ q2 \in D /\ x2 = last(q2) /\ v2[q2][x2] = ref[new(q2)]
             /\ x1 \in DOMAIN v[q1] /\ v2[q1][x1] = v[q1][x1]
    BY <1>10, <2>3
  <2>4. CASE /\ q1 \in D /\ x1 = last(q1) /\ v2[q1][x1] = ref[new(q1)]
             /\ q2 \in D /\ x2 = last(q2) /\ v2[q2][x2] = ref[new(q2)]
    <3>1. new(q1) = new(q2)
      BY <1>3, <1>5, <2>4
    <3>2. q1 = q2
      BY <2>4, <3>1 DEF new, D
    <3> QED BY <2>4, <3>2
  <2> QED BY <1>8, <2>1, <2>2, <2>3, <2>4
<1>14. SubSeq(v2[0], 1, 2) = First(ref)
  <2>1. 0 \in D /\ v[0] \in Seq(T)
    BY DEF D, Q
  <2>2. ref[new(0)] \in T
    <3>1. new(0) \in 1 .. Len(ref)
      BY <1>3, <2>1
    <3> QED BY <3>1
  <2>3. v2[0] = Append(v[0], ref[new(0)])
    BY <2>1 DEF Extends, D, new
  <2>4. v2[0] \in Seq(T) /\ Len(v2[0]) >= 2 /\ v2[0][1] = ref[1] /\ v2[0][2] = ref[2]
    BY <2>1, <2>2, <2>3
  <2>5. \A x \in 1 .. 2 : v2[0][x] = ref[x]
    BY <2>4
  <2>6. SubSeq(v2[0], 1, 2) = [x \in 1 .. 2 |-> v2[0][x]]
    BY <2>4, FirstTwo
  <2> QED BY <2>5, <2>6 DEF First
<1>15. SumsTo(v2, SubSeq(ref, 1, p + w)) <=>
           /\ AllIn(v2, ref, 1 .. p + w) /\ OnlyFrom(v2, ref, 1 .. p + w) /\ NoneTwice(v2)
           /\ \E q \in DOMAIN v2 : SubSeq(v2[q], 1, 2) = First(ref)
  BY <1>1, SumsPrefix
<1> QED BY <1>1, <1>11, <1>12, <1>13, <1>14, <1>15

-----------------------------------------------------------------------------
\* The facts about the arguments every step needs.
LEMMA CallType ==
  ASSUME TypeOK
  PROVE  /\ call \in Shapes
         /\ call.m \in Nat /\ call.n \in Nat /\ call.k \in Nat
         /\ call.lda \in Nat /\ call.ldb \in Nat /\ call.ldc \in Nat
         /\ call.k <= call.lda /\ call.n <= call.ldb /\ call.n <= call.ldc
         /\ VLMAX \in Nat \ {0} /\ CHAINS \in Nat /\ 1 <= CHAINS /\ UNROLL = CHAINS
         /\ i \in Nat /\ j \in Nat /\ l \in Nat /\ vl \in Nat
         /\ i <= call.m /\ j <= call.n /\ l <= call.k
BY VectorAssumption, ShapeType DEF TypeOK

\* A tile is never empty and never reaches beyond the last column.
LEMMA TileVlBounds ==
  ASSUME NEW avl \in Nat \ {0}
  PROVE  TileVl(avl) \in 1 .. VLMAX /\ TileVl(avl) <= avl
BY VectorAssumption DEF TileVl

\* Counting loads and stores leaves counters.
LEMMA BumpType ==
  ASSUME NEW D, NEW f \in [D -> Nat], NEW S
  PROVE  Bump(f, S) \in [D -> Nat]
BY DEF Bump

\* The operations are told apart by their first component.
LEMMA OpsDiffer ==
  ASSUME NEW x, NEW a, NEW b
  PROVE  /\ Old(x) # Beta /\ Old(x) # Zero /\ Beta # Zero /\ Prod(a, b) # Zero
BY DEF Old, Beta, Zero, Prod

\* The operations the kernel appends are operations.
LEMMA OpType ==
  /\ \A x \in Nat : Old(x) \in Op
  /\ \A a, b \in Nat : Prod(a, b) \in Op
  /\ Beta \in Op /\ Zero \in Op
BY DEF Op, Old, Prod

\* The flat index of a cell is a natural number.
LEMMA AtType ==
  ASSUME NEW r \in Nat, NEW ld \in Nat, NEW c \in Nat
  PROVE  At(r, ld, c) \in Nat
BY DEF At

\* The chain a cell should hold: beta*C and k products, none of them the zero
\* an accumulator starts from.
LEMMA ReferenceType ==
  ASSUME NEW s \in Shapes, NEW r \in Rows(s), NEW c \in Nat
  PROVE  /\ Reference(s, r, c) \in Seq(Op) /\ Len(Reference(s, r, c)) = s.k + 2
         /\ \A y \in 1 .. s.k + 2 : Reference(s, r, c)[y] # Zero
         /\ \A y, z \in 1 .. s.k + 2 : Reference(s, r, c)[y] = Reference(s, r, c)[z] => y = z
<1> DEFINE ref == Reference(s, r, c)
<1>1. /\ s.k \in Nat /\ s.lda \in Nat /\ s.ldb \in Nat /\ s.ldc \in Nat /\ r \in Nat
  BY ShapeType DEF Rows
<1>2. DOMAIN ref = 1 .. s.k + 2
  BY DEF Reference
<1>3. ASSUME NEW y \in 1 .. s.k + 2
      PROVE  ref[y] \in Op /\ ref[y] # Zero
  <2>1. CASE y = 1
    <3>1. ref[y] = Old(At(r, s.ldc, c))
      BY <2>1 DEF Reference
    <3> QED BY <1>1, <3>1, AtType, OpType, OpsDiffer
  <2>2. CASE y = 2
    <3>1. ref[y] = Beta
      BY <2>2 DEF Reference
    <3> QED BY <3>1, OpType, OpsDiffer
  <2>3. CASE y > 2
    <3>1. ref[y] = Prod(At(r, s.lda, y - 3), At(y - 3, s.ldb, c)) /\ y - 3 \in Nat
      BY <1>1, <2>3 DEF Reference
    <3>2. At(r, s.lda, y - 3) \in Nat /\ At(y - 3, s.ldb, c) \in Nat
      BY <1>1, <3>1, AtType
    <3> QED BY <3>1, <3>2, OpType, OpsDiffer
  <2> QED BY <1>1, <2>1, <2>2, <2>3
<1>4. ref \in Seq(Op) /\ Len(ref) = s.k + 2
  <2>1. ref = [y \in 1 .. s.k + 2 |-> ref[y]]
    BY DEF Reference
  <2>2. ref \in [1 .. s.k + 2 -> Op]
    BY <1>3, <2>1
  <2> HIDE DEF ref
  <2> QED BY <1>1, <2>2
<1>5. \A y, z \in 1 .. s.k + 2 : ref[y] = ref[z] => y = z
  BY <1>2, ReferenceInjective
<1> QED BY <1>3, <1>4, <1>5

\* The step of the reduction l is the product of A[i, l] and B[l, j].
LEMMA ReferenceProduct ==
  ASSUME NEW s \in Shapes, NEW r, NEW c, NEW p \in Nat, p < s.k
  PROVE  Reference(s, r, c)[p + 3] = Prod(At(r, s.lda, p), At(p, s.ldb, c))
<1>1. s.k \in Nat /\ p + 3 \in 1 .. s.k + 2 /\ p + 3 # 1 /\ p + 3 # 2 /\ (p + 3) - 3 = p
  BY ShapeType
<1>2. Reference(s, r, c)[p + 3] = Prod(At(r, s.lda, (p + 3) - 3), At((p + 3) - 3, s.ldb, c))
  BY <1>1 DEF Reference
<1> QED BY <1>1, <1>2

\* A tile starts with beta*C in the first accumulator, zero in the others.
LEMMA SumsStart ==
  ASSUME NEW s \in Shapes, NEW r \in Rows(s), NEW c \in Nat, NEW N \in Nat, 1 <= N,
         NEW v, DOMAIN v = 0 .. N - 1,
         v[0] = Append(<<Old(At(r, s.ldc, c))>>, Beta),
         \A q \in 1 .. N - 1 : v[q] = <<Zero>>
  PROVE  /\ Len(v[0]) = 2 /\ v[0][1] = Old(At(r, s.ldc, c)) /\ v[0][2] = Beta
         /\ SumsTo(v, SubSeq(Reference(s, r, c), 1, 2))
<1> DEFINE ref == Reference(s, r, c)
           x0  == Old(At(r, s.ldc, c))
<1>1. s.k \in Nat /\ ref \in Seq(Op) /\ Len(ref) = s.k + 2
  BY ShapeType, ReferenceType
<1>2. ref[1] = x0 /\ ref[2] = Beta
  BY <1>1 DEF Reference
<1> HIDE DEF ref, x0
<1>3. /\ v[0] \in Seq({x0, Beta}) /\ Len(v[0]) = 2 /\ DOMAIN v[0] = {1, 2}
      /\ v[0][1] = x0 /\ v[0][2] = Beta
  BY DEF x0
<1>4. \A q \in 1 .. N - 1 : DOMAIN v[q] = {1} /\ v[q][1] = Zero
  OBVIOUS
<1>5. \A q \in DOMAIN v : q = 0 \/ q \in 1 .. N - 1
  OBVIOUS
<1>6. 0 \in DOMAIN v /\ x0 # Beta
  BY OpsDiffer DEF x0
<1>7. AllIn(v, ref, 1 .. 2)
  BY <1>2, <1>3, <1>6 DEF AllIn
<1>8. OnlyFrom(v, ref, 1 .. 2)
  <2>1. 1 \in 1 .. 2 /\ 2 \in 1 .. 2
    OBVIOUS
  <2> QED BY <1>2, <1>3, <1>4, <1>5, <2>1 DEF OnlyFrom
<1>9. NoneTwice(v)
  BY <1>3, <1>4, <1>5, <1>6 DEF NoneTwice
<1>10. SubSeq(v[0], 1, 2) = First(ref)
  <2>1. SubSeq(v[0], 1, 2) = [y \in 1 .. 2 |-> v[0][y]]
    BY <1>3, FirstTwo
  <2>2. \A y \in 1 .. 2 : v[0][y] = ref[y]
    BY <1>2, <1>3
  <2> QED BY <2>1, <2>2 DEF First
<1>11. SumsTo(v, SubSeq(ref, 1, 2)) <=>
         /\ AllIn(v, ref, 1 .. 2) /\ OnlyFrom(v, ref, 1 .. 2) /\ NoneTwice(v)
         /\ \E q \in DOMAIN v : SubSeq(v[q], 1, 2) = First(ref)
  <2>1. 2 \in Nat /\ 2 <= 2 /\ 2 <= Len(ref) /\ ref \in Seq(Op)
    BY <1>1
  <2>2. \A p \in Nat : 2 <= p /\ p <= Len(ref) =>
          (SumsTo(v, SubSeq(ref, 1, p)) <=>
             /\ AllIn(v, ref, 1 .. p) /\ OnlyFrom(v, ref, 1 .. p) /\ NoneTwice(v)
             /\ \E q \in DOMAIN v : SubSeq(v[q], 1, 2) = First(ref))
    BY <2>1, SumsPrefix
  <2> QED BY <2>1, <2>2
<1>12. SumsTo(v, SubSeq(ref, 1, 2))
  BY <1>6, <1>7, <1>8, <1>9, <1>10, <1>11
<1> QED BY <1>3, <1>12 DEF ref, x0

-----------------------------------------------------------------------------
\* The inductive invariant holds at first.
LEMMA InitIndInv == Init => IndInv
<1> SUFFICES ASSUME Init PROVE IndInv
  OBVIOUS
<1>1. /\ call \in Shapes /\ call.m \in Nat /\ call.n \in Nat /\ call.k \in Nat
      /\ VLMAX \in Nat \ {0} /\ pc = "row" /\ i = 0
  BY VectorAssumption, ShapeType DEF Init
<1>2. TypeOK
  BY <1>1 DEF Init, TypeOK
<1>3. LaneInv /\ LoopInv
  BY <1>1 DEF LaneInv, LoopInv
<1>4. CellInv
  <2>1. \A x \in CAddr(call) : Untouched(x)
    BY DEF Init, Untouched
  <2>2. \A r \in Rows(call), c \in Cols(call) : ~ Stored(r, c) /\ At(r, call.ldc, c) \in CAddr(call)
    BY <1>1, BlockCells DEF Stored, Rows
  <2> QED BY <2>1, <2>2 DEF CellInv
<1> QED BY <1>2, <1>3, <1>4 DEF IndInv

\* A step that leaves C and the set of stored cells alone keeps CellInv.
LEMMA CellsKept ==
  ASSUME CellInv, call' = call, C' = C,
         \A r \in Rows(call), c \in Cols(call) : Stored(r, c)' = Stored(r, c)
  PROVE  CellInv'
BY DEF CellInv, Untouched

\* RowEnter, RowExit and TileExit preserve the inductive invariant.
LEMMA LoopsKept ==
  ASSUME IndInv, RowEnter \/ RowExit \/ TileExit \/ UNCHANGED vars
  PROVE  IndInv'
<1>t. TypeOK /\ CellInv /\ LoopInv /\ LaneInv
  BY DEF IndInv
<1>n. /\ call \in Shapes /\ call.m \in Nat /\ call.n \in Nat /\ call.k \in Nat
      /\ i \in Nat /\ j \in Nat /\ l \in Nat /\ vl \in Nat
      /\ i <= call.m /\ j <= call.n
  BY <1>t, CallType
<1>c. \A r \in Rows(call), c \in Cols(call) : r \in Nat /\ r < call.m /\ c \in Nat /\ c < call.n
  BY <1>n DEF Rows, Cols
<1>1. CASE RowEnter
  <2>1. TypeOK' /\ LaneInv' /\ LoopInv'
    BY <1>1, <1>t, <1>n DEF RowEnter, TypeOK, LaneInv, LoopInv, Lanes
  <2>2. \A r \in Rows(call), c \in Cols(call) : Stored(r, c)' = Stored(r, c)
    BY <1>1, <1>n, <1>c DEF RowEnter, Stored
  <2>3. CellInv'
    BY <1>1, <1>t, <2>2, CellsKept DEF RowEnter
  <2> QED BY <2>1, <2>3 DEF IndInv
<1>2. CASE RowExit
  <2>1. TypeOK' /\ LaneInv' /\ LoopInv'
    BY <1>2, <1>t, <1>n DEF RowExit, TypeOK, LaneInv, LoopInv, Lanes
  <2>2. \A r \in Rows(call), c \in Cols(call) : Stored(r, c)' = Stored(r, c)
    BY <1>2, <1>n, <1>c DEF RowExit, Stored
  <2>3. CellInv'
    BY <1>2, <1>t, <2>2, CellsKept DEF RowExit
  <2> QED BY <2>1, <2>3 DEF IndInv
<1>3. CASE TileExit
  <2>0. i < call.m
    BY <1>3, <1>t DEF TileExit, LoopInv
  <2>1. TypeOK' /\ LaneInv' /\ LoopInv'
    BY <1>3, <1>t, <1>n, <2>0 DEF TileExit, TypeOK, LaneInv, LoopInv, Lanes
  <2>2. ASSUME NEW r \in Rows(call), NEW c \in Cols(call)
        PROVE  Stored(r, c)' = Stored(r, c)
    <3>1. pc' = "row" /\ i' = i + 1 /\ pc = "tile" /\ c < j
      BY <1>3, <1>n, <1>c DEF TileExit
    <3>2. r < i + 1 <=> r < i \/ r = i
      BY <1>n, <1>c
    <3> QED BY <3>1, <3>2 DEF Stored
  <2>3. CellInv'
    BY <1>3, <1>t, <2>2, CellsKept DEF TileExit
  <2> QED BY <2>1, <2>3 DEF IndInv
<1>4. CASE UNCHANGED vars
  <2>1. TypeOK' /\ LaneInv' /\ LoopInv'
    BY <1>4, <1>t DEF vars, TypeOK, LaneInv, LoopInv, Lanes, LaneSum
  <2>2. \A r \in Rows(call), c \in Cols(call) : Stored(r, c)' = Stored(r, c)
    BY <1>4 DEF vars, Stored
  <2>3. CellInv'
    BY <1>4, <1>t, <2>2, CellsKept DEF vars
  <2> QED BY <2>1, <2>3 DEF IndInv
<1> QED BY <1>1, <1>2, <1>3, <1>4

\* TileEnter preserves it: vc0 holds beta*C, the other accumulators zero.
LEMMA TileEntered ==
  ASSUME IndInv, TileEnter
  PROVE  IndInv'
<1>t. TypeOK /\ CellInv /\ LoopInv
  BY DEF IndInv
<1>n. /\ call \in Shapes /\ call.m \in Nat /\ call.n \in Nat /\ call.k \in Nat /\ call.ldc \in Nat
      /\ VLMAX \in Nat \ {0} /\ CHAINS \in Nat /\ 1 <= CHAINS
      /\ i \in Nat /\ j \in Nat /\ vl \in Nat
  BY <1>t, CallType
<1>e. /\ pc = "tile" /\ pc' = "reduce" /\ j < call.n /\ i < call.m
      /\ call' = call /\ i' = i /\ j' = j /\ C' = C /\ l' = 0 /\ bLoads' = bLoads
  BY <1>t DEF TileEnter, LoopInv
<1>0. PICK w : w = TileVl(call.n - j)
  OBVIOUS
<1>1. vl' = w /\ w \in 1 .. VLMAX /\ w \in Nat /\ j + w <= call.n
  <2>1. call.n - j \in Nat \ {0}
    BY <1>n, <1>e
  <2>2. w \in 1 .. VLMAX /\ w <= call.n - j
    BY <1>0, <2>1, TileVlBounds
  <2>3. vl' = w
    BY <1>0 DEF TileEnter
  <2> QED BY <1>n, <2>2, <2>3
<1>2. vc' = [q \in Chains |-> [t \in 0 .. w - 1 |->
               IF q = 0 THEN Append(Fetch(At(i, call.ldc, j + t)), Beta) ELSE <<Zero>>]]
  BY <1>1 DEF TileEnter
<1>3. ASSUME NEW t \in 0 .. w - 1
      PROVE  /\ j + t \in Cols(call) /\ j + t \in Nat /\ j + t < call.n
             /\ Fetch(At(i, call.ldc, j + t)) = <<Old(At(i, call.ldc, j + t))>>
  <2>1. j + t \in Cols(call) /\ j + t \in Nat /\ ~ (j + t < j) /\ i \in Rows(call) /\ ~ (i < i)
    BY <1>n, <1>e, <1>1 DEF Cols, Rows
  <2>2. Untouched(At(i, call.ldc, j + t))
    BY <1>t, <2>1 DEF CellInv, Stored
  <2>3. Cardinality({0}) = 1
    BY FS_Singleton
  <2>4. DOMAIN C[At(i, call.ldc, j + t)] = {0}
        /\ C[At(i, call.ldc, j + t)][0] = <<Old(At(i, call.ldc, j + t))>>
    BY <2>2 DEF Untouched
  <2> QED BY <1>n, <2>1, <2>3, <2>4 DEF Fetch, Cols
<1>4. vc' \in [Chains -> [Lanes' -> Seq(Op)]]
  <2>1. ASSUME NEW q \in Chains, NEW t \in 0 .. w - 1
        PROVE  vc'[q][t] \in Seq(Op)
    <3>1. Old(At(i, call.ldc, j + t)) \in Op /\ Beta \in Op /\ Zero \in Op
      BY <1>n, <1>3, AtType, OpType
    <3>2. CASE q = 0
      <4>1. vc'[q][t] = Append(<<Old(At(i, call.ldc, j + t))>>, Beta)
        BY <1>2, <1>3, <3>2
      <4> QED BY <3>1, <4>1
    <3>3. CASE q # 0
      <4>1. vc'[q][t] = <<Zero>>
        BY <1>2, <3>3
      <4> QED BY <3>1, <4>1
    <3> QED BY <3>2, <3>3
  <2> QED BY <1>1, <1>2, <2>1 DEF Lanes
<1>5. TypeOK'
  <2>1. cMoves' \in [CAddr(call) -> Nat]
    BY <1>t, BumpType DEF TileEnter, TypeOK
  <2> QED BY <1>t, <1>n, <1>e, <1>1, <1>4, <2>1 DEF TypeOK
<1>6. LaneInv'
  <2> SUFFICES ASSUME NEW t \in 0 .. w - 1
               PROVE  /\ Len(vc'[0][t]) >= 2 /\ vc'[0][t][1] = Old(At(i, call.ldc, j + t))
                      /\ vc'[0][t][2] = Beta
                      /\ \A q \in Chains \ {0} : Len(vc'[q][t]) >= 1 /\ vc'[q][t][1] = Zero
                      /\ SumsTo([q \in Chains |-> vc'[q][t]],
                                SubSeq(Reference(call, i, j + t), 1, 2))
    <3>1. Lanes' = 0 .. w - 1 /\ \A t : LaneSum(t)' = [q \in Chains |-> vc'[q][t]]
      BY <1>1 DEF Lanes, LaneSum, Chains
    <3>2. l' + 2 = 2
      BY <1>e
    <3>3. Chains' = Chains
      BY DEF Chains
    <3>4. call' = call /\ i' = i /\ j' = j /\ pc' = "reduce" /\ vl' = w /\ 0 < w /\ j + w <= call.n
      BY <1>e, <1>1
    <3> QED BY <3>1, <3>2, <3>3, <3>4 DEF LaneInv
  <2> DEFINE v == [q \in Chains |-> vc'[q][t]]
  <2>1. /\ v[0] = Append(<<Old(At(i, call.ldc, j + t))>>, Beta) /\ vc'[0][t] = v[0]
        /\ \A q \in 1 .. CHAINS - 1 : v[q] = <<Zero>>
        /\ DOMAIN v = 0 .. CHAINS - 1
    <3>1. 0 \in Chains /\ 1 .. CHAINS - 1 \subseteq Chains /\ Chains = 0 .. CHAINS - 1
      BY <1>n DEF Chains
    <3>2. vc'[0][t] = Append(<<Old(At(i, call.ldc, j + t))>>, Beta)
      BY <1>2, <1>3, <3>1
    <3>3. \A q \in 1 .. CHAINS - 1 : vc'[q][t] = <<Zero>>
      BY <1>2, <3>1
    <3> QED BY <3>1, <3>2, <3>3
  <2>2. i \in Rows(call) /\ j + t \in Nat
    BY <1>n, <1>e, <1>3 DEF Rows
  <2> HIDE DEF v
  <2>3. /\ Len(v[0]) = 2 /\ v[0][1] = Old(At(i, call.ldc, j + t)) /\ v[0][2] = Beta
        /\ SumsTo(v, SubSeq(Reference(call, i, j + t), 1, 2))
    BY <1>n, <2>1, <2>2, SumsStart
  <2>4. ASSUME NEW q \in Chains \ {0}
        PROVE  Len(vc'[q][t]) >= 1 /\ vc'[q][t][1] = Zero
    <3>1. vc'[q][t] = <<Zero>>
      BY <1>2
    <3> QED BY <3>1
  <2> QED BY <2>1, <2>3, <2>4 DEF v
<1>7. CellInv'
  <2>1. \A r \in Rows(call), c \in Cols(call) : Stored(r, c)' = Stored(r, c)
    BY <1>e DEF Stored
  <2> QED BY <1>t, <1>e, <2>1, CellsKept
<1> QED BY <1>e, <1>5, <1>6, <1>7 DEF IndInv, LoopInv

\* What MainLoop (w = CHAINS) and TailLoop (w = 1) have in common: the next
\* w products go to one accumulator each.
LEMMA Multiplied ==
  ASSUME IndInv, NEW w \in Nat, 1 <= w, w <= CHAINS, l + w <= call.k, pc = "reduce",
         vc' = [q \in Chains |-> IF q < w THEN Fmacc(q, l + q) ELSE vc[q]],
         l' = l + w, UNCHANGED <<call, pc, i, j, vl, C, cMoves>>,
         bLoads' \in [BAddr(call) -> Nat]
  PROVE  IndInv'
<1>t. TypeOK /\ CellInv /\ LoopInv /\ LaneInv
  BY DEF IndInv
<1>n. /\ call \in Shapes /\ call.m \in Nat /\ call.n \in Nat /\ call.k \in Nat
      /\ call.lda \in Nat /\ call.ldb \in Nat /\ call.ldc \in Nat
      /\ CHAINS \in Nat /\ 1 <= CHAINS
      /\ i \in Nat /\ j \in Nat /\ vl \in Nat /\ l \in Nat /\ l + w \in 0 .. call.k
      /\ i \in Rows(call)
  BY <1>t, CallType DEF LoopInv, Rows
<1>c. /\ 0 \in Chains /\ Chains = 0 .. CHAINS - 1 /\ Lanes' = Lanes
      /\ vc \in [Chains -> [Lanes -> Seq(Op)]]
  BY <1>t, <1>n DEF Chains, Lanes, TypeOK
<1>1. ASSUME NEW q \in Chains, NEW t \in Lanes
      PROVE  vc'[q][t] = IF q < w
                         THEN Append(vc[q][t], Reference(call, i, j + t)[(l + 2) + 1 + q])
                         ELSE vc[q][t]
  <2>1. CASE q < w
    <3>1. q \in Nat /\ l + q \in Nat /\ l + q < call.k /\ (l + 2) + 1 + q = (l + q) + 3
      BY <1>n, <1>c, <2>1
    <3>2. Reference(call, i, j + t)[(l + q) + 3]
            = Prod(At(i, call.lda, l + q), At(l + q, call.ldb, j + t))
      BY <1>n, <3>1, ReferenceProduct
    <3>3. vc'[q][t] = Append(vc[q][t], Prod(At(i, call.lda, l + q), At(l + q, call.ldb, j + t)))
      BY <2>1 DEF Fmacc
    <3> QED BY <2>1, <3>1, <3>2, <3>3
  <2>2. CASE ~ (q < w)
    BY <2>2
  <2> QED BY <2>1, <2>2
<1>2. ASSUME NEW t \in Lanes
      PROVE  /\ j + t \in Nat /\ j + t < call.n
             /\ Reference(call, i, j + t) \in Seq(Op)
             /\ Len(Reference(call, i, j + t)) = call.k + 2
             /\ \A y \in 1 .. call.k + 2 : Reference(call, i, j + t)[y] # Zero
             /\ \A y, z \in 1 .. call.k + 2 :
                  Reference(call, i, j + t)[y] = Reference(call, i, j + t)[z] => y = z
  <2>1. j + t \in Nat /\ j + t < call.n
    <3>1. j + vl <= call.n
      BY <1>t DEF LaneInv
    <3> QED BY <1>n, <3>1 DEF Lanes
  <2> QED BY <1>n, <2>1, ReferenceType
<1>3. vc' \in [Chains -> [Lanes -> Seq(Op)]]
  <2>1. ASSUME NEW q \in Chains, NEW t \in Lanes
        PROVE  vc'[q][t] \in Seq(Op)
    <3>1. vc[q][t] \in Seq(Op)
      BY <1>c
    <3>2. CASE q < w
      <4>1. (l + 2) + 1 + q \in 1 .. call.k + 2
        BY <1>n, <1>c, <3>2
      <4>2. Reference(call, i, j + t)[(l + 2) + 1 + q] \in Op
        BY <1>2, <4>1
      <4>3. vc'[q][t] = Append(vc[q][t], Reference(call, i, j + t)[(l + 2) + 1 + q])
        BY <1>1, <3>2
      <4> QED BY <3>1, <4>2, <4>3, AppendKeeps
    <3> QED BY <1>1, <3>1, <3>2
  <2>2. \A q \in Chains : DOMAIN vc'[q] = Lanes
    BY <1>c DEF Fmacc
  <2>3. \A q \in Chains : vc'[q] = [t \in Lanes |-> vc'[q][t]]
    BY <1>c DEF Fmacc
  <2>4. vc' = [q \in Chains |-> vc'[q]]
    OBVIOUS
  <2> QED BY <2>1, <2>3, <2>4
<1>4. TypeOK'
  BY <1>t, <1>n, <1>c, <1>3 DEF TypeOK
<1>5. LaneInv'
  <2> SUFFICES ASSUME NEW t \in Lanes
               PROVE  /\ Len(vc'[0][t]) >= 2
                      /\ vc'[0][t][1] = Old(At(i, call.ldc, j + t)) /\ vc'[0][t][2] = Beta
                      /\ \A q \in Chains \ {0} : Len(vc'[q][t]) >= 1 /\ vc'[q][t][1] = Zero
                      /\ SumsTo([q \in Chains |-> vc'[q][t]],
                                SubSeq(Reference(call, i, j + t), 1, (l + 2) + w))
    <3>1. \A t : LaneSum(t)' = [q \in Chains |-> vc'[q][t]]
      BY DEF LaneSum, Chains
    <3>2. l' + 2 = (l + 2) + w
      BY <1>n
    <3>3. Chains' = Chains
      BY DEF Chains
    <3> QED BY <1>t, <1>n, <1>c, <3>1, <3>2, <3>3 DEF LaneInv
  <2> DEFINE ref == Reference(call, i, j + t)
             v   == [q \in Chains |-> vc[q][t]]
             v2  == [q \in Chains |-> vc'[q][t]]
  <2>1. /\ Len(vc[0][t]) >= 2 /\ vc[0][t][1] = Old(At(i, call.ldc, j + t)) /\ vc[0][t][2] = Beta
        /\ SumsTo(v, SubSeq(ref, 1, l + 2)) /\ vc[0][t] \in Seq(Op)
    BY <1>t, <1>c DEF LaneInv, LaneSum
  <2>2. vc'[0][t] = Append(vc[0][t], ref[(l + 2) + 1]) /\ ref[(l + 2) + 1] \in Op
    <3>1. 0 < w /\ (l + 2) + 1 + 0 = (l + 2) + 1 /\ (l + 2) + 1 \in 1 .. call.k + 2
      BY <1>n
    <3>2. ref[(l + 2) + 1] \in Op
      BY <1>2, <3>1
    <3> QED BY <1>1, <1>c, <3>1, <3>2
  <2>3. /\ Len(vc'[0][t]) >= 2
        /\ vc'[0][t][1] = Old(At(i, call.ldc, j + t)) /\ vc'[0][t][2] = Beta
    <3> DEFINE e == ref[(l + 2) + 1]
    <3>1. /\ Len(Append(vc[0][t], e)) >= 2 /\ Append(vc[0][t], e)[1] = vc[0][t][1]
          /\ Append(vc[0][t], e)[2] = vc[0][t][2]
      <4> HIDE DEF ref
      <4>1. \A s \in Seq(Op), a \in Op :
              Len(s) >= 2 => /\ Len(Append(s, a)) >= 2
                             /\ Append(s, a)[1] = s[1] /\ Append(s, a)[2] = s[2]
        BY AppendKeeps
      <4> QED BY <2>1, <2>2, <4>1, Zenon
    <3> QED BY <2>1, <2>2, <3>1
  <2>4. Extends(v, v2, ref, l + 2, CHAINS, w)
    <3>1. DOMAIN v = 0 .. CHAINS - 1 /\ DOMAIN v2 = 0 .. CHAINS - 1
      BY <1>c
    <3>2. ASSUME NEW q \in 0 .. w - 1
          PROVE  v2[q] = Append(v[q], ref[(l + 2) + 1 + q])
      <4>1. q \in Chains /\ q < w
        BY <1>n, <1>c
      <4> QED BY <1>1, <4>1
    <3>3. ASSUME NEW q \in w .. CHAINS - 1
          PROVE  v2[q] = v[q]
      <4>1. q \in Chains /\ ~ (q < w)
        BY <1>n, <1>c
      <4> QED BY <1>1, <4>1
    <3>4. /\ \A y \in 1 .. Len(ref) : ref[y] # Zero
          /\ \A y, z \in 1 .. Len(ref) : ref[y] = ref[z] => y = z
      BY <1>2
    <3> HIDE DEF v, v2, ref
    <3> QED BY <3>1, <3>2, <3>3, <3>4 DEF Extends
  <2>5. /\ v \in [0 .. CHAINS - 1 -> Seq(Op)] /\ v[0] = vc[0][t]
        /\ ref[1] = Old(At(i, call.ldc, j + t)) /\ ref[2] = Beta
    BY <1>n, <1>c DEF Reference
  <2>6. ref \in Seq(Op) /\ l + 2 \in Nat /\ 2 <= l + 2 /\ (l + 2) + w <= Len(ref)
    BY <1>n, <1>2
  <2> HIDE DEF v, v2, ref
  <2>7. SumsTo(v2, SubSeq(ref, 1, (l + 2) + w))
    BY <1>n, <2>1, <2>4, <2>5, <2>6, SumsGrow
  <2>8. ASSUME NEW q \in Chains \ {0}
        PROVE  Len(vc'[q][t]) >= 1 /\ vc'[q][t][1] = Zero
    <3>1. Len(vc[q][t]) >= 1 /\ vc[q][t][1] = Zero /\ vc[q][t] \in Seq(Op)
      BY <1>t, <1>c DEF LaneInv
    <3>2. CASE q < w
      <4>1. PICK e \in Op : vc'[q][t] = Append(vc[q][t], e)
        <5>1. (l + 2) + 1 + q \in 1 .. call.k + 2
          BY <1>n, <1>c, <3>2
        <5>2. Reference(call, i, j + t)[(l + 2) + 1 + q] \in Op
          BY <1>2, <5>1
        <5> QED BY <1>1, <3>2, <5>2
      <4>2. PICK s \in Seq(Op) : s = vc[q][t] /\ Len(s) >= 1 /\ s[1] = Zero
        BY <3>1
      <4>3. Len(Append(s, e)) >= 1 /\ Append(s, e)[1] = s[1]
        BY <4>2, AppendKeeps
      <4> QED BY <4>1, <4>2, <4>3
    <3> QED BY <1>1, <3>1, <3>2
  <2> QED BY <2>3, <2>7, <2>8 DEF v2, ref
<1>6. CellInv'
  <2>1. \A r \in Rows(call), c \in Cols(call) : Stored(r, c)' = Stored(r, c)
    BY DEF Stored
  <2> QED BY <1>t, <2>1, CellsKept
<1> QED BY <1>t, <1>4, <1>5, <1>6 DEF IndInv, LoopInv

\* MainLoop preserves it: each accumulator takes the product of its
\* own row of B.
LEMMA MainLooped ==
  ASSUME IndInv, MainLoop
  PROVE  IndInv'
<1>1. /\ CHAINS \in Nat /\ 1 <= CHAINS /\ UNROLL = CHAINS /\ CHAINS <= CHAINS
      /\ bLoads \in [BAddr(call) -> Nat]
  BY CallType DEF IndInv, TypeOK
<1>2. vc' = [q \in Chains |-> IF q < CHAINS THEN Fmacc(q, l + q) ELSE vc[q]]
  <2>1. \A q \in Chains : q < CHAINS
    BY <1>1 DEF Chains
  <2> QED BY <2>1 DEF MainLoop
<1>3. /\ l + CHAINS <= call.k /\ pc = "reduce" /\ l' = l + CHAINS
      /\ UNCHANGED <<call, pc, i, j, vl, C, cMoves>>
  BY <1>1 DEF MainLoop
<1>4. bLoads' \in [BAddr(call) -> Nat]
  BY <1>1, BumpType DEF MainLoop
<1> QED BY <1>1, <1>2, <1>3, <1>4, Multiplied

\* TailLoop preserves it: vc0 takes one product more.
LEMMA TailLooped ==
  ASSUME IndInv, TailLoop
  PROVE  IndInv'
<1>1. /\ CHAINS \in Nat /\ 1 <= CHAINS /\ l \in Nat /\ call.k \in Nat /\ 1 \in Nat /\ 1 <= 1
      /\ bLoads \in [BAddr(call) -> Nat] /\ DOMAIN vc = Chains
  BY CallType DEF IndInv, TypeOK
<1>2. vc' = [q \in Chains |-> IF q < 1 THEN Fmacc(q, l + q) ELSE vc[q]]
  <2>1. \A q \in Chains : q < 1 <=> q = 0
    BY <1>1 DEF Chains
  <2>2. l + 0 = l /\ 0 \in Chains
    BY <1>1 DEF Chains
  <2>3. vc' = [q \in Chains |-> IF q = 0 THEN Fmacc(0, l) ELSE vc[q]]
    BY <1>1, <2>2 DEF TailLoop
  <2> QED BY <2>1, <2>2, <2>3
<1>3. /\ l + 1 <= call.k /\ pc = "reduce" /\ l' = l + 1
      /\ UNCHANGED <<call, pc, i, j, vl, C, cMoves>>
  BY <1>1 DEF TailLoop
<1>4. bLoads' \in [BAddr(call) -> Nat]
  BY <1>1, BumpType DEF TailLoop
<1> QED BY <1>1, <1>2, <1>3, <1>4, Multiplied

\* TileStore preserves it: the sums of the lanes are those of the cells.
LEMMA TileStored ==
  ASSUME IndInv, TileStore
  PROVE  IndInv'
<1>t. TypeOK /\ CellInv /\ LoopInv /\ LaneInv
  BY DEF IndInv
<1>n. /\ call \in Shapes /\ call.m \in Nat /\ call.n \in Nat /\ call.k \in Nat /\ call.ldc \in Nat
      /\ i \in Nat /\ j \in Nat /\ vl \in Nat /\ l = call.k /\ i \in Rows(call)
  BY <1>t, CallType DEF TileStore, LoopInv, Rows
<1>e. /\ pc = "reduce" /\ pc' = "tile" /\ j' = j + vl
      /\ UNCHANGED <<call, i, l, vl, vc, bLoads>>
      /\ j + vl <= call.n
      /\ C' = [x \in CAddr(call) |->
                 IF x \in Tile(call.ldc, i) THEN LaneSum(x - At(i, call.ldc, j)) ELSE C[x]]
  BY <1>t DEF TileStore, LaneInv
<1>1. ASSUME NEW r \in Rows(call), NEW c \in Cols(call)
      PROVE  At(r, call.ldc, c) \in Tile(call.ldc, i) <=> r = i /\ j <= c /\ c < j + vl
  <2>1. ASSUME NEW t \in Lanes, At(r, call.ldc, c) = At(i, call.ldc, j + t)
        PROVE  r = i /\ c = j + t
    <3>1. j + t \in Cols(call)
      BY <1>n, <1>e DEF Lanes, Cols
    <3> QED BY <1>n, <2>1, <3>1, BlockCells
  <2>2. ASSUME r = i, j <= c, c < j + vl
        PROVE  c - j \in Lanes /\ j + (c - j) = c
    BY <1>n, <2>2 DEF Lanes, Cols
  <2>3. \A t \in Lanes : j <= j + t /\ j + t < j + vl
    BY <1>n DEF Lanes
  <2> QED BY <2>1, <2>2, <2>3 DEF Tile
<1>2. TypeOK'
  <2>1. cMoves' \in [CAddr(call) -> Nat]
    BY <1>t, BumpType DEF TileStore, TypeOK
  <2>2. pc' # "reduce" /\ DOMAIN C' = CAddr(call) /\ j + vl \in 0 .. call.n
    BY <1>n, <1>e
  <2> QED BY <1>t, <1>e, <2>1, <2>2 DEF TypeOK
<1>3. ASSUME NEW r \in Rows(call), NEW c \in Cols(call)
      PROVE  IF Stored(r, c)' THEN SumsTo(C'[At(r, call.ldc, c)], Reference(call, r, c))
                              ELSE Untouched(At(r, call.ldc, c))'
  <2> DEFINE x == At(r, call.ldc, c)
  <2>1. x \in CAddr(call) /\ c \in Nat /\ r \in Nat
    BY <1>n, BlockCells DEF Cols, Rows
  <2>2. CASE r = i /\ j <= c /\ c < j + vl
    <3>1. Stored(r, c)'
      BY <1>e, <2>2 DEF Stored
    <3>2. x - At(i, call.ldc, j) = c - j /\ c - j \in Lanes /\ j + (c - j) = c
      <4>1. i * call.ldc \in Int
        BY <1>n
      <4> QED BY <1>n, <2>1, <2>2, <4>1 DEF At, Lanes
    <3>3. C'[x] = LaneSum(c - j)
      BY <1>1, <1>e, <2>1, <2>2, <3>2
    <3>4. SumsTo(LaneSum(c - j), SubSeq(Reference(call, i, c), 1, call.k + 2))
      BY <1>t, <1>n, <1>e, <3>2 DEF LaneInv
    <3>5. SubSeq(Reference(call, i, c), 1, call.k + 2) = Reference(call, i, c)
      BY <1>n, WholePrefix
    <3> QED BY <2>2, <3>1, <3>3, <3>4, <3>5
  <2>3. CASE ~ (r = i /\ j <= c /\ c < j + vl)
    <3>1. C'[x] = C[x]
      BY <1>1, <1>e, <2>1, <2>3
    <3>2. Stored(r, c)' <=> Stored(r, c)
      BY <1>n, <1>e, <2>1, <2>3 DEF Stored
    <3>3. IF Stored(r, c) THEN SumsTo(C[x], Reference(call, r, c)) ELSE Untouched(x)
      BY <1>t DEF CellInv
    <3>4. Untouched(x)' <=> Untouched(x)
      BY <1>e, <3>1 DEF Untouched
    <3> QED BY <3>1, <3>2, <3>3, <3>4
  <2> QED BY <2>2, <2>3
<1>4. ASSUME NEW x \in CAddr(call) \ Block(call)
      PROVE  Untouched(x)'
  <2>1. ASSUME NEW t \in Lanes, x = At(i, call.ldc, j + t)
        PROVE  FALSE
    <3>1. j + t \in Cols(call)
      BY <1>n, <1>e DEF Lanes, Cols
    <3> QED BY <1>n, <2>1, <3>1, BlockCells
  <2>2. C'[x] = C[x]
    BY <1>e, <2>1 DEF Tile
  <2> QED BY <1>t, <2>2 DEF CellInv, Untouched
<1>5. CellInv'
  BY <1>e, <1>3, <1>4 DEF CellInv
<1> QED BY <1>t, <1>e, <1>2, <1>5 DEF IndInv, LaneInv, LoopInv

\* Every step preserves the inductive invariant.
LEMMA NextIndInv == IndInv /\ [Next]_vars => IndInv'
BY LoopsKept, TileEntered, MainLooped, TailLooped, TileStored DEF Next

\* opt_gemm keeps its inductive invariant for every set of shapes, vector
\* length and number of accumulators: during a tile each lane's accumulators
\* hold each product done so far exactly once (gemm.c:140-173).
THEOREM Invariance == Spec => []IndInv
<1>1. Init => IndInv
  BY InitIndInv
<1>2. IndInv /\ [Next]_vars => IndInv'
  BY NextIndInv
<1> QED BY <1>1, <1>2, PTL DEF Spec

-----------------------------------------------------------------------------
\* Nothing has been loaded or stored at first.
LEMMA InitTrafficInv == Init => TrafficInv
<1> SUFFICES ASSUME Init PROVE TrafficInv
  OBVIOUS
<1>1. /\ call \in Shapes /\ call.m \in Nat /\ call.n \in Nat /\ call.k \in Nat
      /\ call.ldb \in Nat /\ pc = "row" /\ i = 0
  BY ShapeType DEF Init
<1>2. ASSUME NEW r \in Rows(call), NEW c \in Cols(call)
      PROVE  At(r, call.ldc, c) \in CAddr(call) /\ ~ Stored(r, c)
  BY <1>1, BlockCells DEF Stored, Rows
<1>3. ASSUME NEW p \in 0 .. call.k - 1, NEW c \in 0 .. call.ldb - 1
      PROVE  At(p, call.ldb, c) \in BAddr(call)
  BY <1>1, AtInRange DEF BAddr
<1>4. /\ \A x \in CAddr(call) : cMoves[x] = 0
      /\ \A y \in BAddr(call) : bLoads[y] = 0
  BY DEF Init
<1> QED BY <1>1, <1>2, <1>3, <1>4 DEF TrafficInv

\* The cells of B in the tile, for one step of the reduction.
LEMMA TileOfB ==
  ASSUME IndInv, pc = "reduce", NEW p \in 0 .. call.k - 1, NEW p2 \in 0 .. call.k - 1,
         NEW c \in 0 .. call.ldb - 1
  PROVE  At(p, call.ldb, c) \in Tile(call.ldb, p2) <=> p = p2 /\ j <= c /\ c < j + vl
<1>1. /\ call.ldb \in Nat /\ call.n <= call.ldb /\ call.n \in Nat /\ call.k \in Nat
      /\ j \in Nat /\ vl \in Nat /\ p \in Nat /\ p2 \in Nat /\ c \in Nat /\ c < call.ldb
  BY CallType DEF IndInv
<1>2. j + vl <= call.n
  BY DEF IndInv, LaneInv
<1>3. ASSUME NEW t \in Lanes, At(p, call.ldb, c) = At(p2, call.ldb, j + t)
      PROVE  p = p2 /\ c = j + t /\ j <= c /\ c < j + vl
  <2>1. j + t \in Nat /\ j + t < call.ldb /\ j <= j + t /\ j + t < j + vl
    BY <1>1, <1>2 DEF Lanes
  <2>2. p = p2 /\ c = j + t
    BY <1>1, <1>3, <2>1, AtInjective
  <2> QED BY <2>1, <2>2
<1>4. ASSUME p = p2, j <= c, c < j + vl
      PROVE  c - j \in Lanes /\ j + (c - j) = c
  BY <1>1, <1>4 DEF Lanes
<1> QED BY <1>3, <1>4 DEF Tile

\* The cells of C in columns j .. j + w - 1 of row i.
LEMMA TileOfC ==
  ASSUME IndInv, i < call.m, NEW w \in Nat, j + w <= call.n
  PROVE  /\ \A r \in Rows(call), c \in Cols(call) :
              At(r, call.ldc, c) \in {At(i, call.ldc, j + t) : t \in 0 .. w - 1}
                <=> r = i /\ j <= c /\ c < j + w
         /\ \A x \in CAddr(call) \ Block(call) :
              x \notin {At(i, call.ldc, j + t) : t \in 0 .. w - 1}
<1>1. /\ call \in Shapes /\ call.m \in Nat /\ call.n \in Nat /\ i \in Rows(call) /\ j \in Nat
  BY CallType DEF IndInv, Rows
<1>2. ASSUME NEW t \in 0 .. w - 1
      PROVE  j + t \in Cols(call) /\ j <= j + t /\ j + t < j + w
  BY <1>1 DEF Cols
<1>3. ASSUME NEW r \in Rows(call), NEW c \in Cols(call)
      PROVE  At(r, call.ldc, c) \in {At(i, call.ldc, j + t) : t \in 0 .. w - 1}
               <=> r = i /\ j <= c /\ c < j + w
  <2>1. ASSUME NEW t \in 0 .. w - 1, At(r, call.ldc, c) = At(i, call.ldc, j + t)
        PROVE  r = i /\ j <= c /\ c < j + w
    <3>1. r = i /\ c = j + t
      BY <1>1, <1>2, <2>1, BlockCells
    <3> QED BY <1>2, <3>1
  <2>2. ASSUME r = i, j <= c, c < j + w
        PROVE  c - j \in 0 .. w - 1 /\ j + (c - j) = c
    BY <1>1, <2>2 DEF Cols
  <2> QED BY <2>1, <2>2
<1>4. ASSUME NEW x \in CAddr(call) \ Block(call)
      PROVE  x \notin {At(i, call.ldc, j + t) : t \in 0 .. w - 1}
  BY <1>1, <1>2, BlockCells
<1> QED BY <1>3, <1>4

\* Every step preserves the account of loads and stores.
LEMMA NextTrafficInv == IndInv /\ IndInv' /\ TrafficInv /\ [Next]_vars => TrafficInv'
<1> SUFFICES ASSUME IndInv, IndInv', TrafficInv, [Next]_vars PROVE TrafficInv'
  OBVIOUS
<1>t. TypeOK /\ LoopInv /\ LaneInv /\ LoopInv'
  BY DEF IndInv
<1>n. /\ call \in Shapes /\ call.m \in Nat /\ call.n \in Nat /\ call.k \in Nat
      /\ call.ldb \in Nat /\ call.ldc \in Nat /\ call.n <= call.ldb
      /\ CHAINS \in Nat /\ 1 <= CHAINS /\ UNROLL = CHAINS /\ VLMAX \in Nat \ {0}
      /\ i \in Nat /\ j \in Nat /\ vl \in Nat /\ l \in Nat /\ j <= call.n /\ l <= call.k
  BY <1>t, CallType
<1>c. \A r \in Rows(call), c \in Cols(call) : r \in Nat /\ r < call.m /\ c \in Nat /\ c < call.n
  BY <1>n DEF Rows, Cols
<1>k. \A p \in 0 .. call.k - 1, c \in 0 .. call.ldb - 1 : p \in Nat /\ c \in Nat
  BY <1>n
<1>a. /\ \A r \in Rows(call), c \in Cols(call) : At(r, call.ldc, c) \in CAddr(call)
      /\ \A p \in 0 .. call.k - 1, c \in 0 .. call.ldb - 1 : At(p, call.ldb, c) \in BAddr(call)
      /\ DOMAIN cMoves = CAddr(call) /\ DOMAIN bLoads = BAddr(call)
  <2>1. \A r \in Rows(call), c \in Cols(call) : At(r, call.ldc, c) \in CAddr(call)
    BY <1>n, BlockCells
  <2>2. \A p \in 0 .. call.k - 1, c \in 0 .. call.ldb - 1 : At(p, call.ldb, c) \in BAddr(call)
    BY <1>n, AtInRange DEF BAddr
  <2> QED BY <1>t, <2>1, <2>2 DEF TypeOK
<1>1. CASE RowEnter
  BY <1>1, <1>n, <1>c, <1>k DEF RowEnter, TrafficInv, Stored
<1>2. CASE RowExit
  BY <1>2, <1>n, <1>c, <1>k DEF RowExit, TrafficInv, Stored
<1>3. CASE TileEnter
  <2>1. /\ pc = "tile" /\ pc' = "reduce" /\ call' = call /\ i' = i /\ j' = j /\ l' = 0
        /\ bLoads' = bLoads /\ i < call.m /\ vl' = TileVl(call.n - j)
    BY <1>3, <1>t DEF TileEnter, LoopInv
  <2>2. vl' \in Nat /\ j + vl' <= call.n
    BY <2>1, <1>n DEF IndInv, TypeOK, LaneInv
  <2>3. cMoves' = Bump(cMoves, {At(i, call.ldc, j + t) : t \in 0 .. vl' - 1})
    BY <1>3 DEF TileEnter
  <2>4. /\ \A r \in Rows(call), c \in Cols(call) :
             At(r, call.ldc, c) \in {At(i, call.ldc, j + t) : t \in 0 .. vl' - 1}
               <=> r = i /\ j <= c /\ c < j + vl'
        /\ \A x \in CAddr(call) \ Block(call) :
             x \notin {At(i, call.ldc, j + t) : t \in 0 .. vl' - 1}
    BY <2>1, <2>2, TileOfC
  <2>5. ASSUME NEW r \in Rows(call), NEW c \in Cols(call)
        PROVE  cMoves'[At(r, call.ldc, c)] =
                 IF Stored(r, c)' THEN 2 ELSE IF r = i /\ c < j + vl' THEN 1 ELSE 0
    <3>1. cMoves'[At(r, call.ldc, c)] =
            IF r = i /\ j <= c /\ c < j + vl' THEN cMoves[At(r, call.ldc, c)] + 1
            ELSE cMoves[At(r, call.ldc, c)]
      BY <1>a, <2>3, <2>4 DEF Bump
    <3>2. cMoves[At(r, call.ldc, c)] = IF Stored(r, c) THEN 2 ELSE 0
      BY <2>1 DEF TrafficInv
    <3>3. Stored(r, c)' <=> Stored(r, c)
      BY <2>1 DEF Stored
    <3>4. r = i /\ j <= c => ~ Stored(r, c)
      BY <1>n, <1>c DEF Stored
    <3>5. r = i /\ c < j => Stored(r, c)
      BY <2>1 DEF Stored
    <3> QED BY <1>n, <1>c, <3>1, <3>2, <3>3, <3>4, <3>5
  <2>6. \A x \in CAddr(call) \ Block(call) : cMoves'[x] = 0
    BY <1>a, <2>3, <2>4 DEF Bump, TrafficInv
  <2>7. ASSUME NEW p \in 0 .. call.k - 1, NEW c \in 0 .. call.ldb - 1
        PROVE  bLoads'[At(p, call.ldb, c)] =
                 IF c >= call.n THEN 0 ELSE IF c < j THEN i + 1 ELSE i
    BY <2>1, <1>k DEF TrafficInv
  <2>8. \A p \in 0 .. call.k - 1 : ~ (p < 0)
    BY <1>n
  <2> QED BY <2>1, <2>5, <2>6, <2>7, <2>8 DEF TrafficInv
<1>4. CASE TileExit
  <2>1. /\ pc = "tile" /\ pc' = "row" /\ call' = call /\ i' = i + 1 /\ j' = j
        /\ bLoads' = bLoads /\ cMoves' = cMoves /\ j = call.n
    BY <1>4, <1>n DEF TileExit
  <2>2. \A r \in Rows(call), c \in Cols(call) : Stored(r, c)' <=> Stored(r, c)
    BY <2>1, <1>n, <1>c DEF Stored
  <2>3. \A p \in 0 .. call.k - 1, c \in 0 .. call.ldb - 1 : c >= call.n \/ c < j
    BY <2>1, <1>n, <1>k
  <2> QED BY <2>1, <2>2, <2>3 DEF TrafficInv
<1>5. ASSUME NEW w \in Nat, l + w <= call.k, 1 <= w, pc = "reduce", l' = l + w,
             bLoads' = Bump(bLoads, UNION {Tile(call.ldb, l + q) : q \in 0 .. w - 1}),
             UNCHANGED <<call, pc, i, j, vl, C, cMoves>>
      PROVE  TrafficInv'
  <2>1. ASSUME NEW p \in 0 .. call.k - 1, NEW c \in 0 .. call.ldb - 1
        PROVE  At(p, call.ldb, c) \in UNION {Tile(call.ldb, l + q) : q \in 0 .. w - 1}
                 <=> l <= p /\ p < l + w /\ j <= c /\ c < j + vl
    <3>1. ASSUME NEW q \in 0 .. w - 1
          PROVE  /\ l + q \in 0 .. call.k - 1 /\ l <= l + q /\ l + q < l + w
                 /\ At(p, call.ldb, c) \in Tile(call.ldb, l + q)
                      <=> p = l + q /\ j <= c /\ c < j + vl
      <4>1. l + q \in 0 .. call.k - 1 /\ l <= l + q /\ l + q < l + w
        BY <1>n, <1>5
      <4> QED BY <1>5, <4>1, TileOfB
    <3>2. ASSUME l <= p, p < l + w
          PROVE  p - l \in 0 .. w - 1 /\ p = l + (p - l)
      BY <1>n, <3>2
    <3> QED BY <3>1, <3>2
  <2>2. ASSUME NEW p \in 0 .. call.k - 1, NEW c \in 0 .. call.ldb - 1
        PROVE  bLoads'[At(p, call.ldb, c)] =
                 IF c >= call.n THEN 0
                 ELSE IF c < j \/ (c < j + vl /\ p < l + w) THEN i + 1 ELSE i
    <3>1. bLoads'[At(p, call.ldb, c)] =
            IF l <= p /\ p < l + w /\ j <= c /\ c < j + vl
            THEN bLoads[At(p, call.ldb, c)] + 1 ELSE bLoads[At(p, call.ldb, c)]
      BY <1>5, <1>a, <2>1 DEF Bump
    <3>2. bLoads[At(p, call.ldb, c)] =
            IF c >= call.n THEN 0
            ELSE IF c < j \/ (c < j + vl /\ p < l) THEN i + 1 ELSE i
      BY <1>5 DEF TrafficInv
    <3>3. j + vl <= call.n
      BY <1>5, <1>t DEF LaneInv
    <3> QED BY <1>n, <1>k, <1>5, <3>1, <3>2, <3>3
  <2>3. \A r \in Rows(call), c \in Cols(call) : Stored(r, c)' = Stored(r, c)
    BY <1>5 DEF Stored
  <2> QED BY <1>5, <2>2, <2>3 DEF TrafficInv
<1>6. CASE MainLoop
  BY <1>6, <1>n, <1>5 DEF MainLoop, Chains
<1>7. CASE TailLoop
  <2>1. UNION {Tile(call.ldb, l + q) : q \in 0 .. 1 - 1} = Tile(call.ldb, l)
    BY <1>n
  <2>2. l + 1 <= call.k /\ 1 \in Nat /\ 1 <= 1
    BY <1>7, <1>n DEF TailLoop
  <2> QED BY <1>7, <1>5, <2>1, <2>2 DEF TailLoop
<1>8. CASE TileStore
  <2>1. /\ pc = "reduce" /\ pc' = "tile" /\ call' = call /\ i' = i /\ j' = j + vl /\ l = call.k
        /\ bLoads' = bLoads /\ i < call.m /\ j + vl <= call.n
        /\ cMoves' = Bump(cMoves, {At(i, call.ldc, j + t) : t \in 0 .. vl - 1})
    BY <1>8, <1>t, <1>n DEF TileStore, LoopInv, LaneInv, Tile, Lanes
  <2>2. /\ \A r \in Rows(call), c \in Cols(call) :
             At(r, call.ldc, c) \in {At(i, call.ldc, j + t) : t \in 0 .. vl - 1}
               <=> r = i /\ j <= c /\ c < j + vl
        /\ \A x \in CAddr(call) \ Block(call) :
             x \notin {At(i, call.ldc, j + t) : t \in 0 .. vl - 1}
    BY <1>n, <2>1, TileOfC
  <2>3. ASSUME NEW r \in Rows(call), NEW c \in Cols(call)
        PROVE  cMoves'[At(r, call.ldc, c)] = IF Stored(r, c)' THEN 2 ELSE 0
    <3>1. cMoves'[At(r, call.ldc, c)] =
            IF r = i /\ j <= c /\ c < j + vl THEN cMoves[At(r, call.ldc, c)] + 1
            ELSE cMoves[At(r, call.ldc, c)]
      BY <1>a, <2>1, <2>2 DEF Bump
    <3>2. cMoves[At(r, call.ldc, c)] =
            IF Stored(r, c) THEN 2 ELSE IF r = i /\ c < j + vl THEN 1 ELSE 0
      BY <2>1 DEF TrafficInv
    <3>3. Stored(r, c) <=> r < i \/ (r = i /\ c < j)
      BY <2>1 DEF Stored
    <3>4. Stored(r, c)' <=> r < i \/ (r = i /\ c < j + vl)
      BY <2>1 DEF Stored
    <3> QED BY <1>n, <1>c, <3>1, <3>2, <3>3, <3>4
  <2>4. \A x \in CAddr(call) \ Block(call) : cMoves'[x] = 0
    BY <1>a, <2>1, <2>2 DEF Bump, TrafficInv
  <2>5. ASSUME NEW p \in 0 .. call.k - 1, NEW c \in 0 .. call.ldb - 1
        PROVE  bLoads'[At(p, call.ldb, c)] =
                 IF c >= call.n THEN 0 ELSE IF c < j + vl THEN i + 1 ELSE i
    <3>1. p < l /\ (c < j => c < j + vl)
      BY <1>n, <1>k, <2>1
    <3> QED BY <2>1, <3>1 DEF TrafficInv
  <2> QED BY <2>1, <2>3, <2>4, <2>5 DEF TrafficInv
<1>9. CASE UNCHANGED vars
  BY <1>9 DEF vars, TrafficInv, Stored
<1> QED BY <1>1, <1>2, <1>3, <1>4, <1>6, <1>7, <1>8, <1>9 DEF Next

\* What the account says of a call that has returned.
LEMMA TrafficInvTraffic == IndInv /\ TrafficInv => Traffic
<1> SUFFICES ASSUME IndInv, TrafficInv, pc = "done" PROVE Traffic
  BY DEF Traffic
<1>1. call \in Shapes /\ call.m \in Nat /\ call.n \in Nat /\ call.k \in Nat /\ i = call.m
      /\ call.ldb \in Nat
  BY CallType DEF IndInv, LoopInv
<1>2. ASSUME NEW r \in Rows(call), NEW c \in Cols(call)
      PROVE  cMoves[At(r, call.ldc, c)] = 2
  <2>1. Stored(r, c)
    BY <1>1 DEF Stored, Rows
  <2> QED BY <2>1 DEF TrafficInv
<1>3. \A x \in CAddr(call) : cMoves[x] = IF x \in Block(call) THEN 2 ELSE 0
  BY <1>2 DEF TrafficInv, Block
<1>4. ASSUME NEW p \in 0 .. call.k - 1, NEW c \in 0 .. call.ldb - 1
      PROVE  bLoads[At(p, call.ldb, c)] = IF c < call.n THEN call.m ELSE 0
  <2>1. c < call.n <=> ~ (c >= call.n)
    BY <1>1
  <2> QED BY <1>1, <2>1 DEF TrafficInv
<1> QED BY <1>3, <1>4 DEF Traffic

\* "C is touched only twice per row" (gemm.c:100), for every set of shapes: a
\* call of opt_gemm loads and stores each cell of its block once, no other
\* cell of C, and loads each element of B in use m times.
THEOREM TrafficBound == Spec => []Traffic
<1>1. Init => TrafficInv
  BY InitTrafficInv
<1>2. IndInv /\ IndInv' /\ TrafficInv /\ [Next]_vars => TrafficInv'
  BY NextTrafficInv
<1>3. IndInv /\ TrafficInv => Traffic
  BY TrafficInvTraffic
<1> QED BY <1>1, <1>2, <1>3, Invariance, PTL DEF Spec

-----------------------------------------------------------------------------
\* The contract's copy of the operators of GemmValues.
LEMMA SameSums ==
  ASSUME NEW v, NEW ref
  PROVE  Contract!SumsTo(v, ref) = SumsTo(v, ref)
BY DEF Contract!SumsTo, SumsTo, Contract!Places, Places, Contract!Zero, Zero

\* The model and its contract mean the same chain by the reference.
LEMMA SameReference ==
  ASSUME NEW s, NEW r, NEW c
  PROVE  Contract!Reference(s, r, c) = Reference(s, r, c)
BY DEF Contract!Reference, Reference, Contract!At, At, Contract!Old, Old,
       Contract!Beta, Beta, Contract!Prod, Prod

\* The model and its contract mean the same cells by the block.
LEMMA SameBlock ==
  ASSUME NEW s
  PROVE  /\ Contract!Block(s) = Block(s) /\ Contract!CAddr(s) = CAddr(s)
         /\ Contract!Rows(s) = Rows(s) /\ Contract!Cols(s) = Cols(s)
BY DEF Contract!Block, Block, Contract!CAddr, CAddr, Contract!Rows, Rows,
       Contract!Cols, Cols, Contract!At, At

\* The initial states are initial states of the contract.
LEMMA ContractInit == Init => Contract!Init
BY SameBlock DEF Init, Contract!Init, Contract!Old, Old

\* A step that is not the return leaves the padding alone: it is Work.
LEMMA ContractWork ==
  ASSUME IndInv, IndInv', UNCHANGED call, pc # "done", pc' # "done"
  PROVE  Contract!Work
<1>1. /\ \A x \in CAddr(call) \ Block(call) : C'[x] = C[x]
      /\ DOMAIN C' = CAddr(call)
  BY DEF IndInv, CellInv, Untouched, TypeOK
<1> QED BY <1>1, SameBlock DEF Contract!Work

\* The exit of the row loop returns with the result in place.
LEMMA ContractReturn ==
  ASSUME IndInv, RowExit
  PROVE  Contract!Return
<1>1. call' = call /\ C' = C /\ pc # "done" /\ pc' = "done" /\ i = call.m /\ call.m \in Nat
  BY CallType DEF RowExit, IndInv
<1>2. ASSUME NEW r \in Rows(call), NEW c \in Cols(call)
      PROVE  SumsTo(C[At(r, call.ldc, c)], Reference(call, r, c))
  <2>1. Stored(r, c)
    BY <1>1 DEF Stored, Rows
  <2> QED BY <2>1 DEF IndInv, CellInv
<1>3. \A r \in Rows(call), c \in Cols(call) :
        Contract!SumsTo(C[At(r, call.ldc, c)], Contract!Reference(call, r, c))
  BY <1>2, SameSums, SameReference
<1> QED BY <1>1, <1>3, SameBlock DEF Contract!Return, Contract!At, At

\* A step is a step of the contract or none.
LEMMA ContractStep == IndInv /\ IndInv' /\ [Next]_vars => [Contract!Next]_(Contract!vars)
<1> SUFFICES ASSUME IndInv, IndInv', [Next]_vars
             PROVE  Contract!Next \/ UNCHANGED Contract!vars
  OBVIOUS
<1>1. CASE RowExit
  BY <1>1, ContractReturn DEF Contract!Next
<1>2. CASE Next /\ ~ RowExit
  <2>1. UNCHANGED call /\ pc # "done" /\ pc' # "done"
    BY <1>2 DEF Next, RowEnter, TileEnter, TileExit, MainLoop, TailLoop, TileStore
  <2> QED BY <2>1, ContractWork DEF Contract!Next
<1>3. CASE UNCHANGED vars
  BY <1>3 DEF vars, Contract!vars
<1> QED BY <1>1, <1>2, <1>3

\* opt_gemm implements the contract of a GEMM kernel for every set of shapes,
\* vector length and number of accumulators: each result cell sums the right
\* operations exactly once, and no cell outside the block ever changes.
THEOREM Refinement == Spec => ImplementsContract
<1>1. Init => Contract!Init
  BY ContractInit
<1>2. IndInv /\ IndInv' /\ [Next]_vars => [Contract!Next]_(Contract!vars)
  BY ContractStep
<1> QED BY <1>1, <1>2, Invariance, PTL DEF Spec, ImplementsContract, Contract!Spec

-----------------------------------------------------------------------------
(* The array picture (gen_opt_gemm_arrays_svg.py).                         *)

\* Where the arrows begin and end.
LEMMA FanEnds ==
  ASSUME NEW d, NEW q \in 0 .. d.L_SPAN - 1
  PROVE  /\ ScalarFan(d)[q].x1 = A_X + (d.L0 + q) * CELL + CELL \div 2
         /\ ScalarFan(d)[q].y1 = A_Y + d.ROW_I * CELL - 4 * PX
         /\ ScalarFan(d)[q].x2 = B_X(d) - 14 * PX
         /\ ScalarFan(d)[q].y2 = B_Y + (d.L0 + q) * CELL + CELL \div 2
         /\ VectorFan(d)[q].x1 = B_X(d) + d.N * CELL
         /\ VectorFan(d)[q].y1 = B_Y + (d.L0 + q) * CELL + CELL \div 2
         /\ VectorFan(d)[q].x2 = C_X(d) - 14 * PX
         /\ VectorFan(d)[q].y2 = C_Y + d.ROW_I * CELL + ((2 * q + 1) * CELL) \div (2 * d.L_SPAN)
BY DEF ScalarFan, VectorFan, Arrow

\* The arrows of the picture in doc/, in units of 1/80 pixel.
LEMMA IllustratedFans ==
  /\ DOMAIN ScalarFan(Illustration) = 0 .. 7 /\ DOMAIN VectorFan(Illustration) = 0 .. 7
  /\ \A n \in 0 .. 7 :
       /\ ScalarFan(Illustration)[n].x1 = 9600 + 1920 * n /\ ScalarFan(Illustration)[n].y1 = 31360
       /\ ScalarFan(Illustration)[n].x2 = 38720 /\ ScalarFan(Illustration)[n].y2 = 20000 + 1920 * n
       /\ FanStep(ScalarFan(Illustration)[n]) = 3200
       /\ VectorFan(Illustration)[n].x1 = 70560 /\ VectorFan(Illustration)[n].y1 = 20000 + 1920 * n
       /\ VectorFan(Illustration)[n].x2 = 81440 /\ VectorFan(Illustration)[n].y2 = 31800 + 240 * n
       /\ FanStep(VectorFan(Illustration)[n]) = 3200
<1> DEFINE d == Illustration
<1>1. d.M = 10 /\ d.K = 12 /\ d.N = 16 /\ d.ROW_I = 4 /\ d.L0 = 2 /\ d.L_SPAN = 8 /\ d.J0 = 6 /\ d.J_SPAN = 4
  BY DEF Illustration
<1> HIDE DEF d
<1>2. /\ PX = 80 /\ CELL = 1920 /\ A_X = 4800 /\ A_Y = 24000 /\ B_Y = 15200 /\ C_Y = 24000
      /\ CELL \div 2 = 960
  BY DEF PX, CELL, A_X, A_Y, B_Y, C_Y
<1>3. B_X(d) = 39840 /\ C_X(d) = 82560
  BY <1>1, <1>2 DEF B_X, C_X
<1>4. DOMAIN ScalarFan(d) = 0 .. 7 /\ DOMAIN VectorFan(d) = 0 .. 7
  BY <1>1 DEF ScalarFan, VectorFan
<1>5. ASSUME NEW n \in 0 .. 7
      PROVE  /\ ScalarFan(d)[n].x1 = 9600 + 1920 * n /\ ScalarFan(d)[n].y1 = 31360
             /\ ScalarFan(d)[n].x2 = 38720 /\ ScalarFan(d)[n].y2 = 20000 + 1920 * n
             /\ FanStep(ScalarFan(d)[n]) = 3200
             /\ VectorFan(d)[n].x1 = 70560 /\ VectorFan(d)[n].y1 = 20000 + 1920 * n
             /\ VectorFan(d)[n].x2 = 81440 /\ VectorFan(d)[n].y2 = 31800 + 240 * n
             /\ FanStep(VectorFan(d)[n]) = 3200
  <2>1. n \in 0 .. d.L_SPAN - 1
    BY <1>1
  <2>2. /\ ScalarFan(d)[n].x1 = 9600 + 1920 * n /\ ScalarFan(d)[n].y1 = 31360
        /\ ScalarFan(d)[n].x2 = 38720 /\ ScalarFan(d)[n].y2 = 20000 + 1920 * n
    BY <1>1, <1>2, <1>3, <2>1, FanEnds
  <2>3. /\ VectorFan(d)[n].x1 = 70560 /\ VectorFan(d)[n].y1 = 20000 + 1920 * n
        /\ VectorFan(d)[n].x2 = 81440
        /\ VectorFan(d)[n].y2 = 31680 + ((2 * n + 1) * 1920) \div (2 * 8)
    BY <1>1, <1>2, <1>3, <2>1, FanEnds
  <2>4. ((2 * n + 1) * 1920) \div (2 * 8) = 240 * n + 120
    OBVIOUS
  <2>5. Smaller(40 * PX, ((38720 - (9600 + 1920 * n)) * 7) \div 20) = 3200
    BY <1>2 DEF Smaller
  <2>6. Smaller(40 * PX, ((81440 - 70560) * 7) \div 20) = 3200
    BY <1>2 DEF Smaller
  <2>7. FanStep(ScalarFan(d)[n]) = 3200 /\ FanStep(VectorFan(d)[n]) = 3200
    BY <2>2, <2>3, <2>5, <2>6 DEF FanStep
  <2> QED BY <2>2, <2>3, <2>4, <2>7
<1> QED BY <1>4, <1>5 DEF d

\* No arrow of A runs through an index label: all but the last stay above the
\* labels, and the last is right of them after its first sample.
LEMMA LabelsClear ==
  ASSUME NEW n \in 0 .. 7, NEW m \in 0 .. 7, NEW s \in 0 .. SAMPLES
  PROVE  Apart(IndexLabel(Illustration, m), Point(Curve(ScalarFan(Illustration)[n])[s]))
<1>1. PICK label : label = IndexLabel(Illustration, m)
  OBVIOUS
<1>2. label.x = 9360 + 1920 * m /\ label.top = 32320 /\ label.w = 480 /\ label.h = 640
  BY <1>1 DEF IndexLabel, Illustration, A_X, A_Y, CELL, PX
<1>3. PICK a : a = ScalarFan(Illustration)[n]
  OBVIOUS
<1>4. PICK x1 \in Int, y2 \in Int, c \in Int :
        /\ x1 = 9600 + 1920 * n /\ y2 = 20000 + 1920 * n /\ c = 31360 + ((y2 - 31360) * 3) \div 4
  OBVIOUS
<1>5. /\ FanControls(a) = <<x1, x1 + 3200, 35520, 38720>>
      /\ FanClimb(a) = <<31360, c, y2, y2>>
  <2>1. a.x1 = x1 /\ a.x2 = 38720 /\ a.y1 = 31360 /\ a.y2 = y2 /\ FanStep(a) = 3200
    BY <1>3, <1>4, IllustratedFans
  <2>2. 38720 - 3200 = 35520
    OBVIOUS
  <2> QED BY <1>4, <2>1, <2>2 DEF FanControls, FanClimb
<1>6. PICK X, Y : /\ X = Cubic(FanControls(a), s) /\ Y = Cubic(FanClimb(a), s)
                  /\ Point(Curve(a)[s]) = [x |-> X, top |-> Y, w |-> 0, h |-> 0]
  BY DEF Point, Curve
<1>7. X \in Int /\ Y \in Int
  <2>1. PICK g \in Int : g = x1 + 3200
    OBVIOUS
  <2>2. Cubic(<<x1, g, 35520, 38720>>, s) \in Int
    <3>1. x1 <= x1 /\ g <= g /\ 35520 <= 35520 /\ 38720 <= 38720 /\ 35520 \in Int /\ 38720 \in Int
      OBVIOUS
    <3> QED BY <3>1, CubicGrows
  <2>3. Cubic(<<31360, c, y2, y2>>, s) \in Int
    <3>1. 31360 <= 31360 /\ c <= c /\ y2 <= y2 /\ 31360 \in Int
      OBVIOUS
    <3> QED BY <3>1, CubicGrows
  <2> QED BY <1>5, <1>6, <2>1, <2>2, <2>3
<1>8. CASE n <= 6
  <2>1. 31360 <= 31520 /\ c <= 31520 /\ y2 <= 31520 /\ 31520 \in Int /\ 31360 \in Int
    BY <1>4, <1>8
  <2>2. Cubic(<<31360, c, y2, y2>>, s) <= 31520
    BY <2>1, CubicAbove
  <2> QED BY <1>1, <1>2, <1>3, <1>5, <1>6, <1>7, <2>2 DEF Apart
<1>9. CASE n = 7 /\ s = 0
  <2>1. Cubic(<<31360, c, y2, y2>>, s) = 31360
    <3>1. SAMPLES = 12
      BY DEF SAMPLES
    <3>2. (12 * 12 * 12 * 31360 + 3 * 12 * 12 * 0 * c + 3 * 12 * 0 * 0 * y2 + 0 * 0 * 0 * y2) \div (12 * 12 * 12) = 31360
      OBVIOUS
    <3> QED BY <1>9, <3>1, <3>2 DEF Cubic
  <2> QED BY <1>1, <1>2, <1>3, <1>5, <1>6, <2>1 DEF Apart
<1>10. CASE n = 7 /\ s # 0
  <2>1. x1 = 23040 /\ x1 + 3200 = 26240
    BY <1>4, <1>10
  <2>2. Cubic(<<23040, 26240, 35520, 38720>>, 1) = 23959
    BY DEF Cubic, SAMPLES
  <2>3. Cubic(<<23040, 26240, 35520, 38720>>, 1) <= Cubic(<<23040, 26240, 35520, 38720>>, s)
    <3>1. 1 \in 0 .. SAMPLES /\ 1 <= s
      BY <1>10 DEF SAMPLES
    <3>2. 23040 <= 26240 /\ 26240 <= 35520 /\ 35520 <= 38720
      OBVIOUS
    <3> QED BY <3>1, <3>2, CubicAdvances
  <2>4. 23959 <= X
    BY <1>5, <1>6, <2>1, <2>2, <2>3
  <2> QED BY <1>1, <1>2, <1>3, <1>6, <1>7, <2>4 DEF Apart
<1> QED BY <1>8, <1>9, <1>10

\* The fans of the picture in doc/ can be read.
LEMMA PictureFans == FansLegible
<1> DEFINE fan == ScalarFan(Illustration)
           climbing == {n \in DOMAIN fan : fan[n].y2 < fan[n].y1}
<1>1. Uncrossed([n \in climbing |-> fan[n]])
  <2>0. PICK f \in Nat : f = 3200
    OBVIOUS
  <2>1. PICK arrows : arrows = [n \in climbing |-> fan[n]]
    OBVIOUS
  <2>2. /\ DOMAIN arrows = climbing /\ climbing \subseteq 0 .. 7
        /\ \A n \in climbing : arrows[n] = fan[n] /\ fan[n].y2 < fan[n].y1
    BY <2>1, IllustratedFans
  <2>3. \A n \in 0 .. 7 : /\ fan[n].x1 = 9600 + 1920 * n /\ fan[n].y1 = 31360
                          /\ fan[n].x2 = 38720 /\ fan[n].y2 = 20000 + 1920 * n
                          /\ FanStep(fan[n]) = f
    BY <2>0, IllustratedFans
  <2> HIDE DEF fan, climbing
  <2>4. ASSUME NEW n \in DOMAIN arrows
        PROVE  /\ n \in 0 .. 7 /\ arrows[n].x1 = 9600 + 1920 * n /\ arrows[n].y1 = 31360
               /\ arrows[n].x2 = 38720 /\ arrows[n].y2 = 20000 + 1920 * n
               /\ FanStep(arrows[n]) = f /\ arrows[n].y2 < arrows[n].y1
    <3>1. n \in 0 .. 7 /\ arrows[n] = fan[n] /\ fan[n].y2 < fan[n].y1
      BY <2>2
    <3>2. PICK a : a = fan[n] /\ a = arrows[n]
      BY <3>1
    <3>3. a.x1 = 9600 + 1920 * n /\ a.y1 = 31360 /\ a.x2 = 38720 /\ a.y2 = 20000 + 1920 * n
      BY <2>3, <3>1, <3>2
    <3>4. FanStep(a) = f /\ a.y2 < a.y1
      BY <2>3, <3>1, <3>2
    <3> QED BY <3>1, <3>2, <3>3, <3>4
  <2>5. \A n \in DOMAIN arrows :
          /\ arrows[n].x1 \in Int /\ arrows[n].x2 \in Int /\ arrows[n].y1 \in Int /\ arrows[n].y2 \in Int
          /\ FanStep(arrows[n]) = f /\ arrows[n].x1 + f <= arrows[n].x2 - f
          /\ arrows[n].y2 <= arrows[n].y1
    BY <2>0, <2>4
  <2>8. \A n, m \in DOMAIN arrows : n < m =>
          /\ arrows[n].x1 <= arrows[m].x1 /\ arrows[n].x2 <= arrows[m].x2
          /\ arrows[n].y1 <= arrows[m].y1 /\ arrows[n].y2 <= arrows[m].y2
    BY <2>4
  <2>6. DOMAIN arrows \subseteq Int
    BY <2>2
  <2>7. ClimbingFan(arrows, f)
    BY <2>5, <2>6, <2>8, Zenon DEF ClimbingFan
  <2> QED BY <2>1, <2>7, ClimbingUncrossed
<1>2. Uncrossed(VectorFan(Illustration))
  <2>0. PICK X1 \in Int, X2 \in Int, f \in Nat : X1 = 70560 /\ X2 = 81440 /\ f = 3200
    OBVIOUS
  <2>1. PICK arrows : arrows = VectorFan(Illustration)
    OBVIOUS
  <2>2. /\ DOMAIN arrows = 0 .. 7
        /\ \A n \in 0 .. 7 : /\ arrows[n].x1 = X1 /\ arrows[n].x2 = X2 /\ FanStep(arrows[n]) = f
                             /\ arrows[n].y1 = 20000 + 1920 * n /\ arrows[n].y2 = 31800 + 240 * n
    BY <2>0, <2>1, IllustratedFans
  <2>3. /\ DOMAIN arrows \subseteq Int /\ X1 + f <= X2 - f
        /\ \A n \in DOMAIN arrows : /\ arrows[n].x1 = X1 /\ arrows[n].x2 = X2 /\ FanStep(arrows[n]) = f
                                    /\ arrows[n].y1 \in Int /\ arrows[n].y2 \in Int
        /\ \A n, m \in DOMAIN arrows : n < m =>
             arrows[n].y1 <= arrows[m].y1 /\ arrows[n].y2 <= arrows[m].y2
    BY <2>0, <2>2
  <2>4. FanBetween(arrows, X1, X2, f)
    BY <2>3, Zenon DEF FanBetween
  <2> QED BY <2>1, <2>4, FanDrawn
<1>3. \A n, m \in DOMAIN fan : \A s \in 0 .. SAMPLES :
        Apart(IndexLabel(Illustration, m), Point(Curve(fan[n])[s]))
  BY IllustratedFans, LabelsClear
<1> QED BY <1>1, <1>2, <1>3 DEF FansLegible

\* What an iteration at work relies on.
LEMMA AtWork ==
  ASSUME IndInv, pc = "reduce", l + UNROLL <= call.k
  PROVE  /\ call.m \in Nat /\ call.n \in Nat /\ call.k \in Nat
         /\ call.lda \in Nat /\ call.ldb \in Nat /\ call.ldc \in Nat /\ call.n <= call.ldb
         /\ i \in Nat /\ j \in Nat /\ l \in Nat /\ vl \in Nat /\ i < call.m
         /\ 0 < vl /\ j + vl <= call.n
         /\ UNROLL = CHAINS /\ CHAINS \in Nat \ {0} /\ Chains = 0 .. UNROLL - 1 /\ 0 \in Chains
         /\ 0 \in Lanes
BY CallType DEF IndInv, LaneInv, LoopInv, Chains, Lanes

\* The factors of accumulator q's product in lane t.
LEMMA FactorAt ==
  ASSUME IndInv, pc = "reduce", l + UNROLL <= call.k, NEW q \in Chains, NEW t \in Lanes
  PROVE  Factor(q, t)[2] = At(i, call.lda, l + q) /\ Factor(q, t)[3] = At(l + q, call.ldb, j + t)
<1>1. PICK s \in Seq(Op), e \in Op :
        /\ s = vc[q][t] /\ e = Prod(At(i, call.lda, l + q), At(l + q, call.ldb, j + t))
  <2>1. vc[q][t] \in Seq(Op)
    <3>1. vc \in [Chains -> [Lanes -> Seq(Op)]]
      BY DEF IndInv, TypeOK
    <3> QED BY <3>1
  <2>0. /\ i \in Nat /\ j \in Nat /\ l \in Nat /\ vl \in Nat /\ UNROLL \in Nat
        /\ call.lda \in Nat /\ call.ldb \in Nat /\ Chains = 0 .. UNROLL - 1
    BY AtWork
  <2>2. l + q \in Nat /\ j + t \in Nat
    BY <2>0 DEF Lanes
  <2>3. At(i, call.lda, l + q) \in Nat /\ At(l + q, call.ldb, j + t) \in Nat
    BY <2>0, AtType, <2>2
  <2> QED BY <2>1, <2>3, OpType
<1>2. Fmacc(q, l + q)[t] = Append(s, e)
  BY <1>1 DEF Fmacc
<1>3. Append(s, e)[Len(Append(s, e))] = e
  OBVIOUS
<1>4. Factor(q, t) = e
  BY <1>2, <1>3 DEF Factor
<1> QED BY <1>1, <1>4 DEF Prod

\* What is shaded for the tile at work: l .. l + 7 of row i of A, the tile's
\* columns of rows l .. l + 7 of B and of row i of C.
LEMMA TileCells ==
  ASSUME IndInv, pc = "reduce", l + UNROLL <= call.k
  PROVE  /\ ScalarA(Shown) = {i} \X L_Rows(Shown)
         /\ VectorB(Shown) = L_Rows(Shown) \X J_Cols(Shown)
         /\ VectorC(Shown) = {i} \X J_Cols(Shown)
         /\ Shaded(A_grid(Shown), "row-i") \cup ScalarA(Shown) = {i} \X (0 .. call.k - 1)
         /\ L_Rows(Shown) = l .. l + UNROLL - 1 /\ J_Cols(Shown) = j .. j + vl - 1
<1> DEFINE d == Shown
<1>1. d.M = call.m /\ d.K = call.k /\ d.N = call.n /\ d.ROW_I = i /\ d.L0 = l /\ d.L_SPAN = UNROLL
      /\ d.J0 = j /\ d.J_SPAN = vl
  BY DEF Shown
<1>2. L_Rows(d) = l .. l + UNROLL - 1 /\ J_Cols(d) = j .. j + vl - 1
  BY <1>1 DEF L_Rows, J_Cols
<1> HIDE DEF d
<1>3. /\ call.m \in Nat /\ call.n \in Nat /\ call.k \in Nat
      /\ i \in Nat /\ j \in Nat /\ l \in Nat /\ vl \in Nat /\ i < call.m
      /\ j + vl <= call.n /\ UNROLL \in Nat
  BY AtWork
<1>4. \A x \in Int : ~ Within(x, NoBand)
  BY DEF Within, NoBand
<1>5. \A x \in Int : Within(x, <<l, UNROLL>>) <=> x \in l .. l + UNROLL - 1
  BY <1>3 DEF Within
<1>6. ASSUME NEW rc
      PROVE  /\ rc \in ScalarA(d) <=> rc \in (0 .. call.m - 1) \X (0 .. call.k - 1)
                                      /\ rc[1] = i /\ rc[2] \in l .. l + UNROLL - 1
             /\ rc \in Shaded(A_grid(d), "row-i") <=>
                  rc \in (0 .. call.m - 1) \X (0 .. call.k - 1)
                  /\ rc[1] = i /\ rc[2] \notin l .. l + UNROLL - 1
  <2>1. A_grid(d) = matrix_grid(call.m, call.k, i, <<l, UNROLL>>, NoBand, {})
    BY <1>1 DEF A_grid
  <2>2. rc \in (0 .. call.m - 1) \X (0 .. call.k - 1) => rc[1] \in Int /\ rc[2] \in Int
    OBVIOUS
  <2>3. DOMAIN A_grid(d) = (0 .. call.m - 1) \X (0 .. call.k - 1)
    BY <2>1 DEF matrix_grid
  <2>4. rc \in (0 .. call.m - 1) \X (0 .. call.k - 1) =>
          A_grid(d)[rc] = IF rc[1] # i THEN "plain"
                          ELSE IF rc[2] \in l .. l + UNROLL - 1 THEN "scalar" ELSE "row-i"
    BY <1>4, <1>5, <2>1, <2>2 DEF matrix_grid
  <2> QED BY <2>3, <2>4 DEF ScalarA, Shaded
<1>7. \A rows, cols, row_hi, lohi, band, vector, rc :
        rc \in Shaded(matrix_grid(rows, cols, row_hi, lohi, band, vector), "vector")
          <=> rc \in (0 .. rows - 1) \X (0 .. cols - 1) /\ rc \in vector
  BY DEF Shaded, matrix_grid
<1>8. ScalarA(d) = {i} \X L_Rows(d)
  <2>1. \A rc : rc \in {i} \X (l .. l + UNROLL - 1) =>
                  rc \in (0 .. call.m - 1) \X (0 .. call.k - 1)
    BY <1>3
  <2>2. \A rc : rc \in ScalarA(d) <=> rc \in {i} \X (l .. l + UNROLL - 1)
    BY <1>6, <2>1
  <2> QED BY <1>2, <2>2
<1>9. Shaded(A_grid(d), "row-i") \cup ScalarA(d) = {i} \X (0 .. call.k - 1)
  <2>1. \A rc : rc \in {i} \X (0 .. call.k - 1) => rc \in (0 .. call.m - 1) \X (0 .. call.k - 1)
    BY <1>3
  <2>2. \A rc : rc \in Shaded(A_grid(d), "row-i") \cup ScalarA(d) <=> rc \in {i} \X (0 .. call.k - 1)
    BY <1>6, <2>1
  <2> QED BY <2>2
<1>10. VectorB(d) = L_Rows(d) \X J_Cols(d)
  <2>1. (l .. l + UNROLL - 1) \X (j .. j + vl - 1) \subseteq (0 .. call.k - 1) \X (0 .. call.n - 1)
    BY <1>3
  <2> QED BY <1>1, <1>2, <1>7, <2>1 DEF VectorB, B_grid
<1>11. VectorC(d) = {i} \X J_Cols(d)
  <2>1. {i} \X (j .. j + vl - 1) \subseteq (0 .. call.m - 1) \X (0 .. call.n - 1)
    BY <1>3
  <2> QED BY <1>1, <1>2, <1>7, <2>1 DEF VectorC, C_grid
<1> QED BY <1>2, <1>8, <1>9, <1>10, <1>11 DEF d

\* The rows and the columns of the iteration are those its lanes run over.
LEMMA TileRange ==
  ASSUME IndInv, pc = "reduce", l + UNROLL <= call.k,
         NEW L, L = l .. l + UNROLL - 1, NEW J, J = j .. j + vl - 1
  PROVE  /\ \A q \in Chains : l + q \in L
         /\ \A x \in L : \E q \in Chains : x = l + q
         /\ \A t \in Lanes : j + t \in J
         /\ \A c \in J : \E t \in Lanes : c = j + t
<1>1. /\ UNROLL \in Nat /\ l \in Nat /\ j \in Nat /\ vl \in Nat /\ Chains = 0 .. UNROLL - 1
  BY AtWork
<1>2. \A x \in L : x - l \in Chains /\ x = l + (x - l)
  BY <1>1
<1>3. \A c \in J : c - j \in Lanes /\ c = j + (c - j)
  BY <1>1 DEF Lanes
<1> QED BY <1>1, <1>2, <1>3 DEF Lanes

\* These are the elements in use.
LEMMA TileUse ==
  ASSUME IndInv, pc = "reduce", l + UNROLL <= call.k,
         NEW L, \A q \in Chains : l + q \in L, \A x \in L : \E q \in Chains : x = l + q,
         NEW J, \A t \in Lanes : j + t \in J, \A c \in J : \E t \in Lanes : c = j + t
  PROVE  /\ Addresses(call.lda, {i} \X L) = FactorsOfA
         /\ Addresses(call.ldb, L \X J) = FactorsOfB
         /\ Addresses(call.ldc, {i} \X J) = Tile(call.ldc, i)
<1>1. /\ \A q \in Chains : l + q \in L
      /\ \A x \in L : \E q \in Chains : x = l + q
      /\ \A t \in Lanes : j + t \in J
      /\ \A c \in J : \E t \in Lanes : c = j + t
  OBVIOUS
<1>2. 0 \in Lanes
  BY AtWork
<1>3. \A q \in Chains, t \in Lanes :
        Factor(q, t)[2] = At(i, call.lda, l + q) /\ Factor(q, t)[3] = At(l + q, call.ldb, j + t)
  BY FactorAt
<1>4. Addresses(call.lda, {i} \X L) = FactorsOfA
  <2>1. PICK ld, I, Q, G, H :
          ld = call.lda /\ I = i /\ Q = {I} /\ G = Addresses(ld, Q \X L) /\ H = FactorsOfA
    OBVIOUS
  <2>2. /\ \A r \in Q, c \in L : At(r, ld, c) \in G
        /\ \A x \in G : \E r \in Q, c \in L : x = At(r, ld, c)
    <3>1. PICK P : P = Q \X L /\ G = Addresses(ld, P)
      BY <2>1
    <3>2. \A r \in Q, c \in L : <<r, c>> \in P /\ <<r, c>>[1] = r /\ <<r, c>>[2] = c
      BY <3>1
    <3>3. \A rc \in P : At(rc[1], ld, rc[2]) \in G
      BY <3>1 DEF Addresses
    <3>4. \A rc \in P : rc[1] \in Q /\ rc[2] \in L
      BY <3>1
    <3>5. \A x \in G : \E rc \in P : x = At(rc[1], ld, rc[2])
      BY <3>1 DEF Addresses
    <3>6. \A r \in Q, c \in L : At(r, ld, c) \in G
      BY <3>2, <3>3
    <3> QED BY <3>4, <3>5, <3>6
  <2>3. /\ \A q \in Chains, t \in Lanes : Factor(q, t)[2] \in H
        /\ \A x \in H : \E q \in Chains, t \in Lanes : x = Factor(q, t)[2]
    BY <2>1 DEF FactorsOfA
  <2>4. ASSUME NEW x \in G PROVE x \in H
    <3>0. PICK r \in Q, c \in L : x = At(r, ld, c)
      BY <2>2
    <3>1. r = i
      BY <2>1
    <3>2. PICK q \in Chains : c = l + q
      BY <1>1
    <3>3. x = Factor(q, 0)[2]
      BY <1>2, <1>3, <2>1, <3>0, <3>1, <3>2
    <3> QED BY <1>2, <2>3, <3>3
  <2>5. ASSUME NEW x \in H PROVE x \in G
    <3>1. PICK q \in Chains, t \in Lanes : x = Factor(q, t)[2]
      BY <2>3
    <3>2. x = At(i, ld, l + q) /\ l + q \in L /\ i \in Q
      BY <1>1, <1>3, <2>1, <3>1, Zenon
    <3> QED BY <2>2, <3>2
  <2>6. G = H
    BY <2>4, <2>5
  <2> QED BY <2>1, <2>6
<1>5. Addresses(call.ldb, L \X J) = FactorsOfB
  <2>1. PICK ld, G, H : ld = call.ldb /\ G = Addresses(ld, L \X J) /\ H = FactorsOfB
    OBVIOUS
  <2>2. /\ \A r \in L, c \in J : At(r, ld, c) \in G
        /\ \A x \in G : \E r \in L, c \in J : x = At(r, ld, c)
    <3>1. PICK P : P = L \X J /\ G = Addresses(ld, P)
      BY <2>1
    <3>2. \A r \in L, c \in J : <<r, c>> \in P /\ <<r, c>>[1] = r /\ <<r, c>>[2] = c
      BY <3>1
    <3>3. \A rc \in P : At(rc[1], ld, rc[2]) \in G
      BY <3>1 DEF Addresses
    <3>4. \A rc \in P : rc[1] \in L /\ rc[2] \in J
      BY <3>1
    <3>5. \A x \in G : \E rc \in P : x = At(rc[1], ld, rc[2])
      BY <3>1 DEF Addresses
    <3>6. \A r \in L, c \in J : At(r, ld, c) \in G
      BY <3>2, <3>3
    <3> QED BY <3>4, <3>5, <3>6
  <2>3. /\ \A q \in Chains, t \in Lanes : Factor(q, t)[3] \in H
        /\ \A x \in H : \E q \in Chains, t \in Lanes : x = Factor(q, t)[3]
    BY <2>1 DEF FactorsOfB
  <2>4. ASSUME NEW x \in G PROVE x \in H
    <3>1. PICK r \in L, c \in J : x = At(r, ld, c)
      BY <2>2
    <3>2. PICK q \in Chains, t \in Lanes : r = l + q /\ c = j + t
      BY <1>1
    <3>3. x = Factor(q, t)[3]
      BY <1>3, <2>1, <3>1, <3>2
    <3> QED BY <2>3, <3>3
  <2>5. ASSUME NEW x \in H PROVE x \in G
    <3>1. PICK q \in Chains, t \in Lanes : x = Factor(q, t)[3]
      BY <2>3
    <3>2. x = At(l + q, ld, j + t) /\ l + q \in L /\ j + t \in J
      BY <1>1, <1>3, <2>1, <3>1
    <3> QED BY <2>2, <3>2
  <2>6. G = H
    BY <2>4, <2>5
  <2> QED BY <2>1, <2>6
<1>6. Addresses(call.ldc, {i} \X J) = Tile(call.ldc, i)
  <2>1. PICK ld, I, Q, G, H :
          ld = call.ldc /\ I = i /\ Q = {I} /\ G = Addresses(ld, Q \X J) /\ H = Tile(ld, I)
    OBVIOUS
  <2>2. /\ \A r \in Q, c \in J : At(r, ld, c) \in G
        /\ \A x \in G : \E r \in Q, c \in J : x = At(r, ld, c)
    <3>1. PICK P : P = Q \X J /\ G = Addresses(ld, P)
      BY <2>1
    <3>2. \A r \in Q, c \in J : <<r, c>> \in P /\ <<r, c>>[1] = r /\ <<r, c>>[2] = c
      BY <3>1
    <3>3. \A rc \in P : At(rc[1], ld, rc[2]) \in G
      BY <3>1 DEF Addresses
    <3>4. \A rc \in P : rc[1] \in Q /\ rc[2] \in J
      BY <3>1
    <3>5. \A x \in G : \E rc \in P : x = At(rc[1], ld, rc[2])
      BY <3>1 DEF Addresses
    <3>6. \A r \in Q, c \in J : At(r, ld, c) \in G
      BY <3>2, <3>3
    <3> QED BY <3>4, <3>5, <3>6
  <2>3. /\ \A t \in Lanes : At(I, ld, j + t) \in H
        /\ \A x \in H : \E t \in Lanes : x = At(I, ld, j + t)
    BY <2>1 DEF Tile
  <2>4. ASSUME NEW x \in G PROVE x \in H
    <3>1. PICK r \in Q, c \in J : x = At(r, ld, c)
      BY <2>2
    <3>2. r = I
      BY <2>1
    <3>3. PICK t \in Lanes : c = j + t
      BY <1>1
    <3> QED BY <2>3, <3>1, <3>2, <3>3
  <2>5. ASSUME NEW x \in H PROVE x \in G
    <3>1. PICK t \in Lanes : x = At(I, ld, j + t)
      BY <2>3
    <3>2. I \in Q /\ j + t \in J
      BY <1>1, <2>1
    <3> QED BY <2>2, <3>1, <3>2
  <2>6. G = H
    BY <2>4, <2>5
  <2> QED BY <2>1, <2>6
<1> QED BY <1>4, <1>5, <1>6

\* AccessDrawn, part by part: the arrows by the cells they begin and end in,
\* the cells by the elements in use, the brackets by the tile's columns.
LEMMA AccessShown == IndInv => AccessDrawn
<1> SUFFICES ASSUME IndInv, pc = "reduce", l + UNROLL <= call.k
             PROVE  /\ CellsShown(Shown) /\ BracketsShown(Shown)
                    /\ \A q \in Chains : ArrowsShown(Shown, q)
  BY PictureFans DEF AccessDrawn
<1> DEFINE d == Shown
<1>1. d.M = call.m /\ d.K = call.k /\ d.N = call.n /\ d.ROW_I = i /\ d.L0 = l /\ d.L_SPAN = UNROLL
      /\ d.J0 = j /\ d.J_SPAN = vl
  BY DEF Shown
<1>2. PICK L, J : L = L_Rows(Shown) /\ J = J_Cols(Shown)
  OBVIOUS
<1>3. /\ ScalarA(d) = {i} \X L /\ VectorB(d) = L \X J /\ VectorC(d) = {i} \X J
      /\ Shaded(A_grid(d), "row-i") \cup ScalarA(d) = {i} \X (0 .. call.k - 1)
      /\ L = l .. l + UNROLL - 1 /\ J = j .. j + vl - 1
  BY <1>2, TileCells
<1> HIDE DEF d
<1>4. /\ call.m \in Nat /\ call.n \in Nat /\ call.k \in Nat /\ call.ldb \in Nat /\ call.n <= call.ldb
      /\ i \in Nat /\ j \in Nat /\ l \in Nat /\ vl \in Nat /\ j + vl <= call.n
      /\ UNROLL = CHAINS /\ CHAINS \in Nat \ {0} /\ Chains = 0 .. UNROLL - 1
  BY AtWork
<1>5. /\ PX = 80 /\ CELL = 1920 /\ A_X = 4800 /\ A_Y = 24000 /\ B_Y = 15200 /\ C_Y = 24000
      /\ CELL \div 2 = 960
  BY DEF PX, CELL, A_X, A_Y, B_Y, C_Y
<1>6. PICK bx \in Int, cx \in Int : bx = B_X(d) /\ cx = C_X(d)
  <2>1. B_X(d) = 4800 + call.k * 1920 + 12000
    BY <1>1, <1>5 DEF B_X
  <2>2. C_X(d) = B_X(d) + call.n * 1920 + 12000
    BY <1>1, <1>5 DEF C_X
  <2>3. B_X(d) \in Int
    BY <1>4, <2>1
  <2>4. C_X(d) \in Int
    BY <1>4, <2>2, <2>3
  <2> QED BY <2>3, <2>4
<1>7. \A x \in Int, y \in Nat : y < 1920 => (x * 1920 + y) \div 1920 = x
  OBVIOUS
<1>8. CellsShown(d)
  <2>1. /\ Addresses(call.lda, {i} \X L) = FactorsOfA
        /\ Addresses(call.ldb, L \X J) = FactorsOfB
        /\ Addresses(call.ldc, {i} \X J) = Tile(call.ldc, i)
    <3>1. PICK R, S : R = L /\ S = J
      OBVIOUS
    <3>2. /\ \A q \in Chains : l + q \in R
          /\ \A x \in R : \E q \in Chains : x = l + q
          /\ \A t \in Lanes : j + t \in S
          /\ \A c \in S : \E t \in Lanes : c = j + t
      BY <1>3, <3>1, TileRange
    <3>3. /\ Addresses(call.lda, {i} \X R) = FactorsOfA
          /\ Addresses(call.ldb, R \X S) = FactorsOfB
          /\ Addresses(call.ldc, {i} \X S) = Tile(call.ldc, i)
      BY <3>2, TileUse
    <3> QED BY <3>1, <3>3
  <2> QED BY <1>3, <2>1 DEF CellsShown
<1>9. BracketsShown(d)
  <2>1. Bracket_A(d) = <<A_X + l * CELL, A_X + (l + CHAINS) * CELL>>
    BY <1>1, <1>4 DEF Bracket_A
  <2>2. /\ Bracket_B(d)[1] = bx + j * 1920 /\ Bracket_B(d)[2] = bx + (j + vl) * 1920
        /\ Bracket_C(d)[1] = cx + j * 1920 /\ Bracket_C(d)[2] = cx + (j + vl) * 1920
    BY <1>1, <1>5, <1>6 DEF Bracket_B, Bracket_C
  <2>3. ASSUME NEW c \in J
        PROVE  /\ B_X(d) + c * CELL \in Bracket_B(d)[1] .. Bracket_B(d)[2] - CELL
               /\ C_X(d) + c * CELL \in Bracket_C(d)[1] .. Bracket_C(d)[2] - CELL
    <3>1. PICK J0 \in Int, V \in Int, x \in Int : J0 = j /\ V = vl /\ x = c /\ J0 <= x /\ x <= J0 + V - 1
      BY <1>3, <1>4
    <3>2. \A e \in Int : e + x * 1920 \in (e + J0 * 1920) .. (e + (J0 + V) * 1920) - 1920
      BY <3>1
    <3>3. /\ bx + x * 1920 \in (bx + J0 * 1920) .. (bx + (J0 + V) * 1920) - 1920
          /\ cx + x * 1920 \in (cx + J0 * 1920) .. (cx + (J0 + V) * 1920) - 1920
      BY <3>2
    <3>4. /\ B_X(d) + c * CELL = bx + x * 1920 /\ C_X(d) + c * CELL = cx + x * 1920
          /\ Bracket_B(d)[1] = bx + J0 * 1920 /\ Bracket_B(d)[2] - CELL = (bx + (J0 + V) * 1920) - 1920
          /\ Bracket_C(d)[1] = cx + J0 * 1920 /\ Bracket_C(d)[2] - CELL = (cx + (J0 + V) * 1920) - 1920
      BY <1>5, <1>6, <2>2, <3>1
    <3> QED BY <3>3, <3>4
  <2>4. \A R, rc : rc \in R \X J => rc[2] \in J
    OBVIOUS
  <2> QED BY <1>3, <2>1, <2>3, <2>4 DEF BracketsShown
<1>10. ASSUME NEW q \in Chains
       PROVE  ArrowsShown(d, q)
  <2>0. q \in Nat /\ q < UNROLL /\ q \in 0 .. d.L_SPAN - 1
    BY <1>1, <1>4
  <2>1. /\ ScalarFan(d)[q].x1 = 4800 + (l + q) * 1920 + 960
        /\ ScalarFan(d)[q].y1 = 24000 + i * 1920 - 320
        /\ ScalarFan(d)[q].y2 = 15200 + (l + q) * 1920 + 960
        /\ VectorFan(d)[q].y1 = 15200 + (l + q) * 1920 + 960
        /\ VectorFan(d)[q].y2 = 24000 + i * 1920 + LaneAt(UNROLL, q)
    BY <1>1, <1>5, <2>0, FanEnds DEF LaneAt
  <2>2. RowAt(ScalarFan(d)[q].y1 + 4 * PX, A_Y) = i
    <3>1. (24000 + i * 1920 - 320 + 4 * 80) - 24000 = i * 1920 + 0
      BY <1>4
    <3> QED BY <1>4, <1>5, <1>7, <2>1, <3>1 DEF RowAt
  <2>3. PICK z \in Int : z = l + q
    BY <1>4, <2>0
  <2>4. ColAt(ScalarFan(d)[q].x1, A_X) = z
    <3>1. ScalarFan(d)[q].x1 - A_X = z * 1920 + 960
      BY <1>5, <2>1, <2>3
    <3> QED BY <1>5, <1>7, <3>1 DEF ColAt
  <2>5. RowAt(ScalarFan(d)[q].y2, B_Y) = z
    <3>1. ScalarFan(d)[q].y2 - B_Y = z * 1920 + 960
      BY <1>5, <2>1, <2>3
    <3> QED BY <1>5, <1>7, <3>1 DEF RowAt
  <2>6. RowAt(VectorFan(d)[q].y2, C_Y) = i
    <3>1. PICK u \in Nat \ {0} : u = UNROLL /\ q \in 0 .. u - 1
      BY <1>4, <2>0
    <3>2. LaneAt(UNROLL, q) \in Nat /\ LaneAt(UNROLL, q) < 1920
      BY <3>1, LaneAtBounds
    <3>3. VectorFan(d)[q].y2 - C_Y = i * 1920 + LaneAt(UNROLL, q)
      BY <1>4, <1>5, <2>1, <3>2
    <3>4. PICK b \in Nat : b = LaneAt(UNROLL, q)
      BY <3>2
    <3>5. PICK a \in Nat : a = i
      BY <1>4
    <3>6. b < 1920
      BY <3>2, <3>4
    <3>7. (a * 1920 + b) \div 1920 = a
      BY <1>7, <3>6
    <3>8. VectorFan(d)[q].y2 - C_Y = a * 1920 + b
      BY <3>3, <3>4, <3>5
    <3> QED BY <1>5, <3>5, <3>7, <3>8 DEF RowAt
  <2>7. ASSUME NEW t \in Lanes
        PROVE  Factor(q, t)[2] = At(i, call.lda, z) /\ Factor(q, t)[3] \div call.ldb = z
    <3>1. Factor(q, t)[2] = At(i, call.lda, z) /\ Factor(q, t)[3] = At(z, call.ldb, j + t)
      BY <2>3, FactorAt
    <3>2. z \in Nat /\ j + t \in Nat /\ j + t < call.ldb
      BY <1>4, <2>0, <2>3 DEF Lanes
    <3>3. At(z, call.ldb, j + t) \div call.ldb = z
      BY <1>4, <3>2, RowOfAt
    <3> QED BY <3>1, <3>3
  <2> QED BY <2>1, <2>2, <2>4, <2>5, <2>6, <2>7 DEF ArrowsShown
<1> QED BY <1>8, <1>9, <1>10 DEF d

\* The array picture of doc/, drawn for the iteration at work, shows the
\* elements of A, B and C it uses and joins those that are multiplied, in every
\* call and with any number of accumulators; the picture in doc/ itself can be
\* read (gen_opt_gemm_arrays_svg.py:2-14, 241-261, gemm.c:140-173).
THEOREM AccessPicture == Spec => []AccessDrawn
<1>1. IndInv => AccessDrawn
  BY AccessShown
<1> QED BY <1>1, Invariance, PTL

-----------------------------------------------------------------------------
(* The dataflow picture (gen_opt_gemm_dataflow_svg.py).                    *)

\* The columns of the dataflow picture.
LaneColumns == {"init", "a", "b", "fma"}
Columns == LaneColumns \cup {"L1", "L2", "L3", "store"}

\* Where each column begins and how wide it is.
LEMMA ColumnEnds ==
  /\ ColumnX["init"][1] = 96 /\ ColumnX["init"][2] = 172
  /\ ColumnX["a"][1] = 300 /\ ColumnX["a"][2] = 150
  /\ ColumnX["b"][1] = 486 /\ ColumnX["b"][2] = 190
  /\ ColumnX["fma"][1] = 712 /\ ColumnX["fma"][2] = 190
  /\ ColumnX["L1"][1] = 986 /\ ColumnX["L1"][2] = 116
  /\ ColumnX["L2"][1] = 1156 /\ ColumnX["L2"][2] = 116
  /\ ColumnX["L3"][1] = 1326 /\ ColumnX["L3"][2] = 116
  /\ ColumnX["store"][1] = 1512 /\ ColumnX["store"][2] = 168
BY DEF ColumnX

\* Two columns do not meet, and none leaves the canvas.
LEMMA ColumnsApart ==
  /\ \A c \in Columns : /\ ColumnX[c][1] \in Int /\ ColumnX[c][2] \in Int
                        /\ 0 <= ColumnX[c][1] /\ 0 < ColumnX[c][2]
                        /\ ColumnX[c][1] + ColumnX[c][2] <= 1720
  /\ \A c, d \in Columns : \/ c = d
                           \/ ColumnX[c][1] + ColumnX[c][2] < ColumnX[d][1]
                           \/ ColumnX[d][1] + ColumnX[d][2] < ColumnX[c][1]
BY ColumnEnds DEF Columns, LaneColumns

\* The boxes of each column.
LEMMA NodeNames ==
  ASSUME NEW z
  PROVE  z \in DOMAIN nodes <=>
           \/ \E c \in LaneColumns, q \in 0 .. 7 : z = <<c, q>>
           \/ \E p \in 0 .. 3 : z = <<"L1", p>>
           \/ \E p \in 0 .. 1 : z = <<"L2", p>>
           \/ z = <<"L3", 0>> \/ z = <<"store", 0>>
<1>1. DOMAIN nodes = LaneNodes \cup TreeNodes
  BY DEF nodes
<1>2. z \in LaneNodes <=> \E c \in LaneColumns, q \in 0 .. 7 : z = <<c, q>>
  BY DEF LaneNodes, LaneColumns, DrawnLanes, N_LANES
<1>3. z \in TreeNodes <=> \/ \E p \in 0 .. 3 : z = <<"L1", p>>
                          \/ \E p \in 0 .. 1 : z = <<"L2", p>>
                          \/ z = <<"L3", 0>> \/ z = <<"store", 0>>
  BY DEF TreeNodes
<1> QED BY <1>1, <1>2, <1>3

\* The height at which each box is drawn.
LEMMA LaneRows ==
  /\ \A q \in 0 .. 7 : lane_y[q] = 10400 + q * 6400
  /\ \A p \in 0 .. 3 : l1_y[p] = 13600 + p * 12800
  /\ \A p \in 0 .. 1 : l2_y[p] = 20000 + p * 25600
  /\ l3_y = 32800
<1>1. \A q \in 0 .. 7 : lane_y[q] = 10400 + q * 6400
  BY DEF lane_y, DrawnLanes, N_LANES, PX
<1>2. \A p \in 0 .. 3 : l1_y[p] = 13600 + p * 12800
  <2>1. ASSUME NEW p \in 0 .. 3 PROVE l1_y[p] = 13600 + p * 12800
    <3>1. 2 * p \in 0 .. 7 /\ 2 * p + 1 \in 0 .. 7
      OBVIOUS
    <3>2. lane_y[2 * p] = 10400 + (2 * p) * 6400 /\ lane_y[2 * p + 1] = 10400 + (2 * p + 1) * 6400
      BY <1>1, <3>1
    <3> QED BY <3>2 DEF l1_y, lane_pair_y
  <2> QED BY <2>1
<1>3. \A p \in 0 .. 1 : l2_y[p] = 20000 + p * 25600
  <2>1. ASSUME NEW p \in 0 .. 1 PROVE l2_y[p] = 20000 + p * 25600
    <3>1. 2 * p \in 0 .. 3 /\ 2 * p + 1 \in 0 .. 3
      OBVIOUS
    <3>2. l1_y[2 * p] = 13600 + (2 * p) * 12800 /\ l1_y[2 * p + 1] = 13600 + (2 * p + 1) * 12800
      BY <1>2, <3>1
    <3> QED BY <3>2 DEF l2_y, lane_pair_y
  <2> QED BY <2>1
<1>4. l3_y = 32800
  BY <1>3 DEF l3_y, lane_pair_y
<1> QED BY <1>1, <1>2, <1>3, <1>4

\* The row of a box is the one its column and number name.
LEMMA NodeRows ==
  /\ \A c \in LaneColumns, q \in 0 .. 7 : RowOf(<<c, q>>) = lane_y[q]
  /\ \A p \in 0 .. 3 : RowOf(<<"L1", p>>) = l1_y[p]
  /\ \A p \in 0 .. 1 : RowOf(<<"L2", p>>) = l2_y[p]
  /\ RowOf(<<"L3", 0>>) = l3_y /\ RowOf(<<"store", 0>>) = l3_y
BY DEF RowOf, LaneColumns

\* The row of a box by its column.
LEMMA NodeRow ==
  ASSUME NEW z \in DOMAIN nodes
  PROVE  /\ z[1] \in Columns /\ z = <<z[1], z[2]>>
         /\ z[1] \in LaneColumns => z[2] \in 0 .. 7 /\ RowOf(z) = 10400 + z[2] * 6400
         /\ z[1] = "L1" => z[2] \in 0 .. 3 /\ RowOf(z) = 13600 + z[2] * 12800
         /\ z[1] = "L2" => z[2] \in 0 .. 1 /\ RowOf(z) = 20000 + z[2] * 25600
         /\ z[1] \in {"L3", "store"} => z[2] = 0 /\ RowOf(z) = 32800
<1>1. CASE \E c \in LaneColumns, q \in 0 .. 7 : z = <<c, q>>
  <2>1. PICK c \in LaneColumns, q \in 0 .. 7 : z = <<c, q>>
    BY <1>1
  <2>2. z[1] = c /\ z[2] = q
    BY <2>1
  <2>3. RowOf(z) = 10400 + q * 6400
    <3>1. RowOf(<<c, q>>) = lane_y[q]
      BY NodeRows
    <3>2. lane_y[q] = 10400 + q * 6400
      BY LaneRows
    <3> QED BY <2>1, <3>1, <3>2
  <2> QED BY <2>1, <2>2, <2>3 DEF Columns, LaneColumns
<1>2. CASE \E p \in 0 .. 3 : z = <<"L1", p>>
  <2>1. PICK p \in 0 .. 3 : z = <<"L1", p>>
    BY <1>2
  <2>2. z[1] = "L1" /\ z[2] = p
    BY <2>1
  <2>3. RowOf(z) = 13600 + p * 12800
    <3>1. RowOf(<<"L1", p>>) = l1_y[p]
      BY NodeRows
    <3>2. l1_y[p] = 13600 + p * 12800
      BY LaneRows
    <3> QED BY <2>1, <3>1, <3>2
  <2> QED BY <2>1, <2>2, <2>3 DEF Columns, LaneColumns
<1>3. CASE \E p \in 0 .. 1 : z = <<"L2", p>>
  <2>1. PICK p \in 0 .. 1 : z = <<"L2", p>>
    BY <1>3
  <2>2. z[1] = "L2" /\ z[2] = p
    BY <2>1
  <2>3. RowOf(z) = 20000 + p * 25600
    <3>1. RowOf(<<"L2", p>>) = l2_y[p]
      BY NodeRows
    <3>2. l2_y[p] = 20000 + p * 25600
      BY LaneRows
    <3> QED BY <2>1, <3>1, <3>2
  <2> QED BY <2>1, <2>2, <2>3 DEF Columns, LaneColumns
<1>4. CASE z = <<"L3", 0>>
  BY <1>4, NodeRows, LaneRows DEF Columns, LaneColumns
<1>5. CASE z = <<"store", 0>>
  BY <1>5, NodeRows, LaneRows DEF Columns, LaneColumns
<1> QED BY <1>1, <1>2, <1>3, <1>4, <1>5, NodeNames

\* What is drawn for a box.
LEMMA NodeFacts ==
  ASSUME NEW z \in DOMAIN nodes
  PROVE  /\ RowOf(z) \in Int /\ 10400 <= RowOf(z) /\ RowOf(z) <= 55200
         /\ HeightOf(z[1]) \in Int /\ 0 < HeightOf(z[1]) /\ HeightOf(z[1]) <= 54
         /\ nodes[z] = Node(ColumnX[z[1]][1], RowOf(z), ColumnX[z[1]][2], HeightOf(z[1]))
<1>2. RowOf(z) \in Int /\ 10400 <= RowOf(z) /\ RowOf(z) <= 55200
  BY NodeRow DEF Columns
<1>3. HeightOf(z[1]) \in Int /\ 0 < HeightOf(z[1]) /\ HeightOf(z[1]) <= 54
  BY DEF HeightOf, LANE_H
<1>4. nodes[z] = Node(ColumnX[z[1]][1], RowOf(z), ColumnX[z[1]][2], HeightOf(z[1]))
  BY DEF nodes
<1> QED BY <1>2, <1>3, <1>4

\* Two boxes of a column are 80 pixels apart.
LEMMA NodesOfColumn ==
  ASSUME NEW u \in DOMAIN nodes, NEW v \in DOMAIN nodes, u[1] = v[1], u # v
  PROVE  RowOf(u) + 6400 <= RowOf(v) \/ RowOf(v) + 6400 <= RowOf(u)
<1>1. u[1] \in Columns /\ u = <<u[1], u[2]>> /\ v = <<v[1], v[2]>>
  BY NodeRow
<1>2. u[2] # v[2]
  BY <1>1
<1>3. CASE u[1] \in LaneColumns
  <2>1. /\ u[2] \in 0 .. 7 /\ RowOf(u) = 10400 + u[2] * 6400
        /\ v[2] \in 0 .. 7 /\ RowOf(v) = 10400 + v[2] * 6400
    BY <1>3, NodeRow
  <2>2. PICK q \in 0 .. 7, r \in 0 .. 7 : q = u[2] /\ r = v[2]
    BY <2>1
  <2> QED BY <1>2, <2>1, <2>2
<1>4. CASE u[1] = "L1"
  <2>1. /\ u[2] \in 0 .. 3 /\ RowOf(u) = 13600 + u[2] * 12800
        /\ v[2] \in 0 .. 3 /\ RowOf(v) = 13600 + v[2] * 12800
    <3>1. u[1] = "L1" /\ v[1] = "L1"
      BY <1>4
    <3> QED BY <3>1, NodeRow
  <2>2. PICK q \in 0 .. 3, r \in 0 .. 3 : q = u[2] /\ r = v[2]
    BY <2>1
  <2> QED BY <1>2, <2>1, <2>2
<1>5. CASE u[1] = "L2"
  <2>1. /\ u[2] \in 0 .. 1 /\ RowOf(u) = 20000 + u[2] * 25600
        /\ v[2] \in 0 .. 1 /\ RowOf(v) = 20000 + v[2] * 25600
    <3>1. u[1] = "L2" /\ v[1] = "L2"
      BY <1>5
    <3> QED BY <3>1, NodeRow
  <2>2. PICK q \in 0 .. 1, r \in 0 .. 1 : q = u[2] /\ r = v[2]
    BY <2>1
  <2> QED BY <1>2, <2>1, <2>2
<1>6. CASE u[1] \in {"L3", "store"}
  BY <1>2, <1>6, NodeRow
<1> QED BY <1>1, <1>3, <1>4, <1>5, <1>6 DEF Columns

\* No two boxes overlap and none leaves the canvas.
LEMMA BoxesLegible == Legible(nodes, 1720, 900)
<1>1. \A x \in Int, y \in Int, w \in Int, h \in Int :
        /\ Node(x, y, w, h).x = x * 80 /\ Node(x, y, w, h).w = w * 80
        /\ Node(x, y, w, h).top = y - h * 40 /\ Node(x, y, w, h).h = h * 80
  <2>1. \A h \in Int : (h * 80) \div 2 = h * 40
    OBVIOUS
  <2> QED BY <2>1 DEF Node, PX
<1>2. ASSUME NEW z \in DOMAIN nodes
      PROVE  /\ ColumnX[z[1]][1] \in Int /\ ColumnX[z[1]][2] \in Int
             /\ nodes[z].x = ColumnX[z[1]][1] * 80 /\ nodes[z].w = ColumnX[z[1]][2] * 80
             /\ nodes[z].top = RowOf(z) - HeightOf(z[1]) * 40 /\ nodes[z].h = HeightOf(z[1]) * 80
  <2>1. /\ ColumnX[z[1]][1] \in Int /\ ColumnX[z[1]][2] \in Int
    BY NodeRow, ColumnsApart
  <2>2. RowOf(z) \in Int /\ HeightOf(z[1]) \in Int
    BY NodeFacts
  <2>3. nodes[z] = Node(ColumnX[z[1]][1], RowOf(z), ColumnX[z[1]][2], HeightOf(z[1]))
    BY NodeFacts
  <2>4. PICK x \in Int, w \in Int, y \in Int, h \in Int :
          /\ x = ColumnX[z[1]][1] /\ w = ColumnX[z[1]][2] /\ y = RowOf(z) /\ h = HeightOf(z[1])
    BY <2>1, <2>2
  <2>5. nodes[z] = Node(x, y, w, h)
    BY <2>3, <2>4
  <2>6. /\ Node(x, y, w, h).x = x * 80 /\ Node(x, y, w, h).w = w * 80
        /\ Node(x, y, w, h).top = y - h * 40 /\ Node(x, y, w, h).h = h * 80
    BY <1>1
  <2> QED BY <2>1, <2>4, <2>5, <2>6
<1>3. ASSUME NEW u \in DOMAIN nodes, NEW v \in DOMAIN nodes, u # v
      PROVE  Apart(nodes[u], nodes[v])
  <2>1. CASE u[1] = v[1]
    <3>1. PICK y \in Int, z \in Int, h \in Int :
            y = RowOf(u) /\ z = RowOf(v) /\ h = HeightOf(u[1]) /\ 0 < h /\ h <= 54
      <4>1. RowOf(u) \in Int /\ RowOf(v) \in Int
        BY NodeFacts
      <4>2. HeightOf(u[1]) \in Int /\ 0 < HeightOf(u[1]) /\ HeightOf(u[1]) <= 54
        BY NodeFacts
      <4> QED BY <4>1, <4>2
    <3>2. y + 6400 <= z \/ z + 6400 <= y
      <4>1. RowOf(u) + 6400 <= RowOf(v) \/ RowOf(v) + 6400 <= RowOf(u)
        BY <2>1, <1>3, NodesOfColumn
      <4> QED BY <3>1, <4>1
    <3>3. y - h * 40 + h * 80 < z - h * 40 \/ z - h * 40 + h * 80 < y - h * 40
      BY <3>1, <3>2
    <3>4. /\ nodes[u].top = y - h * 40 /\ nodes[u].h = h * 80
          /\ nodes[v].top = z - h * 40 /\ nodes[v].h = h * 80
      BY <1>2, <2>1, <3>1
    <3> QED BY <3>3, <3>4 DEF Apart
  <2>2. CASE u[1] # v[1]
    <3>1. PICK a \in Int, b \in Int, c \in Int, d \in Int :
            /\ a = ColumnX[u[1]][1] /\ b = ColumnX[u[1]][2]
            /\ c = ColumnX[v[1]][1] /\ d = ColumnX[v[1]][2]
      BY <1>2
    <3>2. a + b < c \/ c + d < a
      BY <2>2, <3>1, NodeRow, ColumnsApart
    <3>3. /\ nodes[u].x = a * 80 /\ nodes[u].w = b * 80
          /\ nodes[v].x = c * 80 /\ nodes[v].w = d * 80
      BY <1>2, <3>1
    <3> QED BY <3>1, <3>2, <3>3 DEF Apart
  <2> QED BY <2>1, <2>2
<1>4. ASSUME NEW u \in DOMAIN nodes
      PROVE  Inside(nodes[u], Canvas(1720, 900))
  <2>1. PICK a \in Int, b \in Int, y \in Int, h \in Int :
          /\ a = ColumnX[u[1]][1] /\ b = ColumnX[u[1]][2] /\ y = RowOf(u) /\ h = HeightOf(u[1])
          /\ 0 < h /\ h <= 54 /\ 10400 <= y /\ y <= 55200
    BY <1>2, NodeFacts
  <2>2. 0 <= a /\ 0 < b /\ a + b <= 1720
    BY <2>1, NodeRow, ColumnsApart
  <2>3. /\ nodes[u].x = a * 80 /\ nodes[u].w = b * 80
        /\ nodes[u].top = y - h * 40 /\ nodes[u].h = h * 80
    BY <1>2, <2>1
  <2>4. PICK c : c = Canvas(1720, 900)
    OBVIOUS
  <2>5. c.x = 0 /\ c.top = 0 /\ c.w = 137600 /\ c.h = 72000
    BY <2>4 DEF Canvas, PX
  <2> QED BY <2>1, <2>2, <2>3, <2>4, <2>5 DEF Inside
<1> QED BY <1>3, <1>4 DEF Legible

\* An elbow between the rows of two boxes joins them.
LEMMA ElbowOfNodes ==
  ASSUME NEW u \in DOMAIN nodes, NEW v \in DOMAIN nodes
  PROVE  Elbow(u[1], RowOf(u), v[1], RowOf(v)) = <<Right(nodes[u]), Left(nodes[v])>>
<1>1. ASSUME NEW z \in DOMAIN nodes
      PROVE  /\ Left(nodes[z]) = <<ColumnX[z[1]][1] * PX, RowOf(z)>>
             /\ Right(nodes[z]) = <<(ColumnX[z[1]][1] + ColumnX[z[1]][2]) * PX, RowOf(z)>>
  <2>1. PICK x \in Int, w \in Int, y \in Int, h \in Int :
          /\ x = ColumnX[z[1]][1] /\ w = ColumnX[z[1]][2] /\ y = RowOf(z) /\ h = HeightOf(z[1])
    <3>1. ColumnX[z[1]][1] \in Int /\ ColumnX[z[1]][2] \in Int
      BY NodeRow, ColumnsApart
    <3>2. RowOf(z) \in Int /\ HeightOf(z[1]) \in Int
      BY NodeFacts
    <3> QED BY <3>1, <3>2
  <2>2. nodes[z] = Node(x, y, w, h)
    <3>1. nodes[z] = Node(ColumnX[z[1]][1], RowOf(z), ColumnX[z[1]][2], HeightOf(z[1]))
      BY NodeFacts
    <3> QED BY <2>1, <3>1
  <2>3. Left(Node(x, y, w, h)) = <<x * PX, y>> /\ Right(Node(x, y, w, h)) = <<(x + w) * PX, y>>
    BY BoxEnds
  <2> QED BY <2>1, <2>2, <2>3
<1> QED BY <1>1 DEF Elbow

\* Two boxes are joined if the elbow between their rows is drawn.
LEMMA JoinedByElbow ==
  ASSUME NEW u \in DOMAIN nodes, NEW v \in DOMAIN nodes
  PROVE  Joined(nodes, elbows, u, v) <=> Elbow(u[1], RowOf(u), v[1], RowOf(v)) \in elbows
BY ElbowOfNodes DEF Joined

\* An elbow tells its columns and its rows.
LEMMA ElbowsDiffer ==
  ASSUME NEW f \in Columns, NEW t \in Columns, NEW y, NEW z,
         NEW f2 \in Columns, NEW t2 \in Columns, NEW y2, NEW z2,
         Elbow(f, y, t, z) = Elbow(f2, y2, t2, z2)
  PROVE  f = f2 /\ t = t2 /\ y = y2 /\ z = z2
<1>1. /\ (ColumnX[f][1] + ColumnX[f][2]) * PX = (ColumnX[f2][1] + ColumnX[f2][2]) * PX
      /\ ColumnX[t][1] * PX = ColumnX[t2][1] * PX /\ y = y2 /\ z = z2
  BY DEF Elbow
<1>2. \A c, d \in Int : c * PX = d * PX => c = d
  BY DEF PX
<1>3. f = f2
  BY <1>1, <1>2, ColumnsApart
<1>4. t = t2
  BY <1>1, <1>2, ColumnsApart
<1> QED BY <1>1, <1>3, <1>4

\* The elbows, one by one.
LEMMA ElbowNames ==
  ASSUME NEW e
  PROVE  e \in elbows <=>
           \/ \E q \in 0 .. 7 : \/ e = Elbow("init", lane_y[q], "a", lane_y[q])
                                \/ e = Elbow("a", lane_y[q], "b", lane_y[q])
                                \/ e = Elbow("b", lane_y[q], "fma", lane_y[q])
           \/ \E p \in 0 .. 3 : \E q \in PairOf(p) : e = Elbow("fma", lane_y[q], "L1", l1_y[p])
           \/ \E p \in 0 .. 1 : \E q \in PairOf(p) : e = Elbow("L1", l1_y[q], "L2", l2_y[p])
           \/ \E p \in PairOf(0) : e = Elbow("L2", l2_y[p], "L3", l3_y)
           \/ e = Elbow("L3", l3_y, "store", l3_y)
<1>1. e \in lane_flow <=>
        \E q \in 0 .. 7 : \/ e = Elbow("init", lane_y[q], "a", lane_y[q])
                          \/ e = Elbow("a", lane_y[q], "b", lane_y[q])
                          \/ e = Elbow("b", lane_y[q], "fma", lane_y[q])
  BY DEF lane_flow, DrawnLanes, N_LANES
<1> DEFINE S == UNION {{Elbow("fma", lane_y[q], "L1", l1_y[p]) : q \in PairOf(p)} : p \in 0 .. 3}
           T == UNION {{Elbow("L1", l1_y[q], "L2", l2_y[p]) : q \in PairOf(p)} : p \in 0 .. 1}
           U == {Elbow("L2", l2_y[p], "L3", l3_y) : p \in PairOf(0)}
<1>2. reduction_tree = S \cup T \cup U
  BY Zenon DEF reduction_tree
<1>3. e \in S <=> \E p \in 0 .. 3 : \E q \in PairOf(p) : e = Elbow("fma", lane_y[q], "L1", l1_y[p])
  OBVIOUS
<1>4. e \in T <=> \E p \in 0 .. 1 : \E q \in PairOf(p) : e = Elbow("L1", l1_y[q], "L2", l2_y[p])
  OBVIOUS
<1>5. e \in U <=> \E p \in PairOf(0) : e = Elbow("L2", l2_y[p], "L3", l3_y)
  OBVIOUS
<1> HIDE DEF S, T, U
<1>6. e \in reduction_tree <=> e \in S \/ e \in T \/ e \in U
  BY <1>2
<1>7. e \in elbows <=> \/ e \in lane_flow \/ e \in reduction_tree
                       \/ e = Elbow("L3", l3_y, "store", l3_y)
  BY DEF elbows
<1> QED BY <1>1, <1>3, <1>4, <1>5, <1>6, <1>7, Zenon

\* The boxes of the columns, by their number.
LEMMA Boxes ==
  /\ \A c \in LaneColumns, q \in 0 .. 7 : <<c, q>> \in DOMAIN nodes /\ RowOf(<<c, q>>) = lane_y[q]
  /\ \A p \in 0 .. 3 : <<"L1", p>> \in DOMAIN nodes /\ RowOf(<<"L1", p>>) = l1_y[p]
  /\ \A p \in 0 .. 1 : <<"L2", p>> \in DOMAIN nodes /\ RowOf(<<"L2", p>>) = l2_y[p]
  /\ <<"L3", 0>> \in DOMAIN nodes /\ RowOf(<<"L3", 0>>) = l3_y
  /\ <<"store", 0>> \in DOMAIN nodes /\ RowOf(<<"store", 0>>) = l3_y
BY NodeNames, NodeRows

\* The inputs of a pair.
LEMMA Pairs ==
  /\ \A p \in Int : \A q : q \in PairOf(p) <=> q = 2 * p \/ q = 2 * p + 1
  /\ \A p \in 0 .. 3 : \A q \in PairOf(p) : q \in 0 .. 7
  /\ \A p \in 0 .. 1 : \A q \in PairOf(p) : q \in 0 .. 3
  /\ \A q \in PairOf(0) : q \in 0 .. 1
BY DEF PairOf

\* Every line is drawn from a box to a box.
LEMMA LinesEnd == NoLooseEnds(nodes, elbows)
<1> SUFFICES ASSUME NEW e \in elbows
             PROVE  \E u, v \in DOMAIN nodes : e = <<Right(nodes[u]), Left(nodes[v])>>
  BY DEF NoLooseEnds
<1>1. ASSUME NEW c \in LaneColumns, NEW d \in LaneColumns, NEW q \in 0 .. 7,
             e = Elbow(c, lane_y[q], d, lane_y[q])
      PROVE  \E u, v \in DOMAIN nodes : e = <<Right(nodes[u]), Left(nodes[v])>>
  <2>1. PICK u \in DOMAIN nodes, v \in DOMAIN nodes :
          u = <<c, q>> /\ v = <<d, q>> /\ RowOf(u) = lane_y[q] /\ RowOf(v) = lane_y[q]
    BY Boxes
  <2>2. u[1] = c /\ v[1] = d
    BY <2>1
  <2>3. Elbow(u[1], RowOf(u), v[1], RowOf(v)) = <<Right(nodes[u]), Left(nodes[v])>>
    BY ElbowOfNodes
  <2> QED BY <1>1, <2>1, <2>2, <2>3
<1>2. ASSUME NEW p \in 0 .. 3, NEW q \in PairOf(p), e = Elbow("fma", lane_y[q], "L1", l1_y[p])
      PROVE  \E u, v \in DOMAIN nodes : e = <<Right(nodes[u]), Left(nodes[v])>>
  <2>1. "fma" \in LaneColumns /\ q \in 0 .. 7
    BY Pairs DEF LaneColumns
  <2>2. PICK u \in DOMAIN nodes, v \in DOMAIN nodes :
          u = <<"fma", q>> /\ v = <<"L1", p>> /\ RowOf(u) = lane_y[q] /\ RowOf(v) = l1_y[p]
    BY <2>1, Boxes
  <2>3. u[1] = "fma" /\ v[1] = "L1"
    BY <2>2
  <2>4. Elbow(u[1], RowOf(u), v[1], RowOf(v)) = <<Right(nodes[u]), Left(nodes[v])>>
    BY ElbowOfNodes
  <2> QED BY <1>2, <2>2, <2>3, <2>4
<1>3. ASSUME NEW p \in 0 .. 1, NEW q \in PairOf(p), e = Elbow("L1", l1_y[q], "L2", l2_y[p])
      PROVE  \E u, v \in DOMAIN nodes : e = <<Right(nodes[u]), Left(nodes[v])>>
  <2>1. q \in 0 .. 3
    BY Pairs
  <2>2. PICK u \in DOMAIN nodes, v \in DOMAIN nodes :
          u = <<"L1", q>> /\ v = <<"L2", p>> /\ RowOf(u) = l1_y[q] /\ RowOf(v) = l2_y[p]
    BY <2>1, Boxes
  <2>3. u[1] = "L1" /\ v[1] = "L2"
    BY <2>2
  <2>4. Elbow(u[1], RowOf(u), v[1], RowOf(v)) = <<Right(nodes[u]), Left(nodes[v])>>
    BY ElbowOfNodes
  <2> QED BY <1>3, <2>2, <2>3, <2>4
<1>4. ASSUME NEW p \in PairOf(0), e = Elbow("L2", l2_y[p], "L3", l3_y)
      PROVE  \E u, v \in DOMAIN nodes : e = <<Right(nodes[u]), Left(nodes[v])>>
  <2>1. p \in 0 .. 1
    BY Pairs
  <2>2. PICK u \in DOMAIN nodes, v \in DOMAIN nodes :
          u = <<"L2", p>> /\ v = <<"L3", 0>> /\ RowOf(u) = l2_y[p] /\ RowOf(v) = l3_y
    BY <2>1, Boxes
  <2>3. u[1] = "L2" /\ v[1] = "L3"
    BY <2>2
  <2>4. Elbow(u[1], RowOf(u), v[1], RowOf(v)) = <<Right(nodes[u]), Left(nodes[v])>>
    BY ElbowOfNodes
  <2> QED BY <1>4, <2>2, <2>3, <2>4
<1>5. ASSUME e = Elbow("L3", l3_y, "store", l3_y)
      PROVE  \E u, v \in DOMAIN nodes : e = <<Right(nodes[u]), Left(nodes[v])>>
  <2>1. PICK u \in DOMAIN nodes, v \in DOMAIN nodes :
          u = <<"L3", 0>> /\ v = <<"store", 0>> /\ RowOf(u) = l3_y /\ RowOf(v) = l3_y
    BY Boxes
  <2>2. u[1] = "L3" /\ v[1] = "store"
    BY <2>1
  <2>3. Elbow(u[1], RowOf(u), v[1], RowOf(v)) = <<Right(nodes[u]), Left(nodes[v])>>
    BY ElbowOfNodes
  <2> QED BY <1>5, <2>1, <2>2, <2>3
<1>6. CASE \E q \in 0 .. 7 : \/ e = Elbow("init", lane_y[q], "a", lane_y[q])
                             \/ e = Elbow("a", lane_y[q], "b", lane_y[q])
                             \/ e = Elbow("b", lane_y[q], "fma", lane_y[q])
  BY <1>1, <1>6 DEF LaneColumns
<1> QED BY <1>2, <1>3, <1>4, <1>5, <1>6, ElbowNames, Zenon

\* The boxes of a lane follow each other.
LEMMA LaneFlows ==
  \A q \in DrawnLanes : /\ Joined(nodes, elbows, <<"init", q>>, <<"a", q>>)
                        /\ Joined(nodes, elbows, <<"a", q>>, <<"b", q>>)
                        /\ Joined(nodes, elbows, <<"b", q>>, <<"fma", q>>)
<1> SUFFICES ASSUME NEW q \in 0 .. 7
             PROVE  /\ Joined(nodes, elbows, <<"init", q>>, <<"a", q>>)
                    /\ Joined(nodes, elbows, <<"a", q>>, <<"b", q>>)
                    /\ Joined(nodes, elbows, <<"b", q>>, <<"fma", q>>)
  BY DEF DrawnLanes, N_LANES
<1>1. /\ Elbow("init", lane_y[q], "a", lane_y[q]) \in elbows
      /\ Elbow("a", lane_y[q], "b", lane_y[q]) \in elbows
      /\ Elbow("b", lane_y[q], "fma", lane_y[q]) \in elbows
  BY ElbowNames
<1>2. ASSUME NEW c \in LaneColumns, NEW d \in LaneColumns, Elbow(c, lane_y[q], d, lane_y[q]) \in elbows
      PROVE  Joined(nodes, elbows, <<c, q>>, <<d, q>>)
  <2>1. PICK u \in DOMAIN nodes, v \in DOMAIN nodes :
          u = <<c, q>> /\ v = <<d, q>> /\ RowOf(u) = lane_y[q] /\ RowOf(v) = lane_y[q]
    BY Boxes
  <2>2. u[1] = c /\ v[1] = d
    BY <2>1
  <2>3. Joined(nodes, elbows, u, v) <=> Elbow(u[1], RowOf(u), v[1], RowOf(v)) \in elbows
    BY JoinedByElbow
  <2> QED BY <1>2, <2>1, <2>2, <2>3
<1> QED BY <1>1, <1>2 DEF LaneColumns

\* The dataflow picture can be read.
LEMMA FlowReadable == FlowLegible
BY BoxesLegible, LinesEnd, LaneFlows DEF FlowLegible

\* The boxes that feed a box of the tree.
Inputs(z) == IF z[1] = "store" THEN {0} ELSE PairOf(z[2])

\* Boxes of a column have different rows.
LEMMA RowsDiffer ==
  /\ \A q, r \in 0 .. 7 : lane_y[q] = lane_y[r] => q = r
  /\ \A q, r \in 0 .. 3 : l1_y[q] = l1_y[r] => q = r
  /\ \A q, r \in 0 .. 1 : l2_y[q] = l2_y[r] => q = r
BY LaneRows

\* Box w of the column before is joined to box z of the tree if it is one of
\* the two z adds up.
LEMMA TreeInputs ==
  ASSUME NEW z \in DOMAIN nodes, z[1] \in {"L1", "L2", "L3", "store"},
         NEW w \in DOMAIN nodes, w[1] = Column[z[1]]
  PROVE  Joined(nodes, elbows, w, z) <=> w[2] \in Inputs(z)
<1>1. PICK c, d, y, x : c = w[1] /\ d = z[1] /\ y = RowOf(w) /\ x = RowOf(z)
  OBVIOUS
<1>2. PICK e : e = Elbow(c, y, d, x)
  OBVIOUS
<1>3. Joined(nodes, elbows, w, z) <=> e \in elbows
  BY <1>1, <1>2, JoinedByElbow
<1>4. c \in Columns /\ d \in Columns
  BY <1>1, NodeRow
<1>5. \A f, t \in Columns : \A y2, x2 : e = Elbow(f, y2, t, x2) => c = f /\ d = t /\ y = y2 /\ x = x2
  <2>1. ASSUME NEW f \in Columns, NEW t \in Columns, NEW y2, NEW x2, e = Elbow(f, y2, t, x2)
        PROVE  c = f /\ d = t /\ y = y2 /\ x = x2
    <3>1. Elbow(c, y, d, x) = Elbow(f, y2, t, x2)
      BY <1>2, <2>1
    <3> QED BY <1>4, <3>1, ElbowsDiffer
  <2> QED BY <2>1
<1>6. {"init", "a", "b", "fma", "L1", "L2", "L3", "store"} = Columns
  BY DEF Columns, LaneColumns
<1>7. e \in elbows <=>
        \/ \E p \in 0 .. 3 : \E q \in PairOf(p) : e = Elbow("fma", lane_y[q], "L1", l1_y[p])
        \/ \E p \in 0 .. 1 : \E q \in PairOf(p) : e = Elbow("L1", l1_y[q], "L2", l2_y[p])
        \/ \E p \in PairOf(0) : e = Elbow("L2", l2_y[p], "L3", l3_y)
        \/ e = Elbow("L3", l3_y, "store", l3_y)
  <2>1. \A f \in Columns, t \in {"a", "b", "fma"} : \A y2, x2 : e # Elbow(f, y2, t, x2)
    BY <1>1, <1>5, <1>6
  <2>2. \A q \in 0 .. 7 : /\ e # Elbow("init", lane_y[q], "a", lane_y[q])
                          /\ e # Elbow("a", lane_y[q], "b", lane_y[q])
                          /\ e # Elbow("b", lane_y[q], "fma", lane_y[q])
    BY <1>6, <2>1
  <2> QED BY <2>2, ElbowNames
<1>8. CASE d = "L1"
  <2>1. c = "fma"
    BY <1>1, <1>8 DEF Column
  <2>2. PICK q \in 0 .. 7, p \in 0 .. 3 : q = w[2] /\ p = z[2] /\ y = lane_y[q] /\ x = l1_y[p]
    <3>1. w[1] = "fma" /\ z[1] = "L1"
      BY <1>1, <1>8, <2>1
    <3>2. w[2] \in 0 .. 7 /\ w = <<w[1], w[2]>>
      BY <3>1, NodeRow DEF LaneColumns
    <3>3. z[2] \in 0 .. 3 /\ z = <<z[1], z[2]>>
      BY <3>1, NodeRow
    <3>4. w = <<"fma", w[2]>> /\ z = <<"L1", z[2]>>
      BY <3>1, <3>2, <3>3
    <3> QED BY <1>1, <3>2, <3>3, <3>4, Boxes DEF LaneColumns
  <2>3. e \in elbows <=> \E p2 \in 0 .. 3 : \E q2 \in PairOf(p2) : y = lane_y[q2] /\ x = l1_y[p2]
    <3>1. \A y2, x2 : /\ e # Elbow("L1", y2, "L2", x2)
                      /\ e # Elbow("L2", y2, "L3", x2)
                      /\ e # Elbow("L3", y2, "store", x2)
      BY <1>5, <1>6, <1>8
    <3>2. \A y2, x2 : e = Elbow("fma", y2, "L1", x2) <=> y = y2 /\ x = x2
      BY <1>2, <1>5, <1>6, <1>8, <2>1
    <3> QED BY <1>7, <3>1, <3>2
  <2>4. \A p2 \in 0 .. 3, q2 \in 0 .. 7 : y = lane_y[q2] /\ x = l1_y[p2] => q2 = q /\ p2 = p
    BY <2>2, RowsDiffer
  <2>5. e \in elbows <=> q \in PairOf(p)
    BY <2>2, <2>3, <2>4, Pairs
  <2> QED BY <1>1, <1>3, <1>8, <2>2, <2>5 DEF Inputs
<1>9. CASE d = "L2"
  <2>1. c = "L1"
    BY <1>1, <1>9 DEF Column
  <2>2. PICK q \in 0 .. 3, p \in 0 .. 1 : q = w[2] /\ p = z[2] /\ y = l1_y[q] /\ x = l2_y[p]
    <3>1. w[1] = "L1" /\ z[1] = "L2"
      BY <1>1, <1>9, <2>1
    <3>2. w[2] \in 0 .. 3 /\ w = <<w[1], w[2]>>
      BY <3>1, NodeRow DEF LaneColumns
    <3>3. z[2] \in 0 .. 1 /\ z = <<z[1], z[2]>>
      BY <3>1, NodeRow
    <3>4. w = <<"L1", w[2]>> /\ z = <<"L2", z[2]>>
      BY <3>1, <3>2, <3>3
    <3> QED BY <1>1, <3>2, <3>3, <3>4, Boxes DEF LaneColumns
  <2>3. e \in elbows <=> \E p2 \in 0 .. 1 : \E q2 \in PairOf(p2) : y = l1_y[q2] /\ x = l2_y[p2]
    <3>1. \A y2, x2 : /\ e # Elbow("fma", y2, "L1", x2)
                      /\ e # Elbow("L2", y2, "L3", x2)
                      /\ e # Elbow("L3", y2, "store", x2)
      BY <1>5, <1>6, <1>9
    <3>2. \A y2, x2 : e = Elbow("L1", y2, "L2", x2) <=> y = y2 /\ x = x2
      BY <1>2, <1>5, <1>6, <1>9, <2>1
    <3> QED BY <1>7, <3>1, <3>2
  <2>4. \A p2 \in 0 .. 1, q2 \in 0 .. 3 : y = l1_y[q2] /\ x = l2_y[p2] => q2 = q /\ p2 = p
    BY <2>2, RowsDiffer
  <2>5. e \in elbows <=> q \in PairOf(p)
    BY <2>2, <2>3, <2>4, Pairs
  <2> QED BY <1>1, <1>3, <1>9, <2>2, <2>5 DEF Inputs
<1>10. CASE d = "L3"
  <2>1. c = "L2"
    BY <1>1, <1>10 DEF Column
  <2>2. PICK q \in 0 .. 1 : q = w[2] /\ 0 = z[2] /\ y = l2_y[q] /\ x = l3_y
    <3>1. w[1] = "L2" /\ z[1] = "L3"
      BY <1>1, <1>10, <2>1
    <3>2. w[2] \in 0 .. 1 /\ w = <<w[1], w[2]>>
      BY <3>1, NodeRow DEF LaneColumns
    <3>3. z[2] \in {0} /\ z = <<z[1], z[2]>>
      BY <3>1, NodeRow
    <3>4. w = <<"L2", w[2]>> /\ z = <<"L3", z[2]>>
      BY <3>1, <3>2, <3>3
    <3> QED BY <1>1, <3>2, <3>3, <3>4, Boxes DEF LaneColumns
  <2>3. e \in elbows <=> \E q2 \in PairOf(0) : y = l2_y[q2]
    <3>1. \A y2, x2 : /\ e # Elbow("fma", y2, "L1", x2)
                      /\ e # Elbow("L1", y2, "L2", x2)
                      /\ e # Elbow("L3", y2, "store", x2)
      BY <1>5, <1>6, <1>10
    <3>2. \A y2, x2 : e = Elbow("L2", y2, "L3", x2) <=> y = y2 /\ x = x2
      BY <1>2, <1>5, <1>6, <1>10, <2>1
    <3> QED BY <1>7, <3>1, <3>2, <2>2
  <2>4. \A q2 \in 0 .. 1 : y = l2_y[q2] => q2 = q
    BY <2>2, RowsDiffer
  <2>5. e \in elbows <=> q \in PairOf(0)
    BY <2>2, <2>3, <2>4, Pairs
  <2> QED BY <1>1, <1>3, <1>10, <2>2, <2>5 DEF Inputs
<1>11. CASE d = "store"
  <2>1. c = "L3"
    BY <1>1, <1>11 DEF Column
  <2>2. w[2] = 0 /\ y = l3_y /\ x = l3_y
    <3>1. w[1] = "L3" /\ z[1] = "store"
      BY <1>1, <1>11, <2>1
    <3>2. w[2] \in {0} /\ w = <<w[1], w[2]>>
      BY <3>1, NodeRow DEF LaneColumns
    <3>3. z[2] \in {0} /\ z = <<z[1], z[2]>>
      BY <3>1, NodeRow
    <3>4. w = <<"L3", w[2]>> /\ z = <<"store", z[2]>>
      BY <3>1, <3>2, <3>3
    <3> QED BY <1>1, <3>2, <3>3, <3>4, Boxes DEF LaneColumns
  <2>3. e \in elbows
    BY <1>2, <1>7, <1>11, <2>1, <2>2
  <2> QED BY <1>1, <1>3, <1>11, <2>2, <2>3 DEF Inputs
<1> QED BY <1>1, <1>8, <1>9, <1>10, <1>11

\* One level of the recursion by which the paths are defined.
Steps(z) == {w \in DOMAIN nodes : w[1] = Column[z[1]] /\ Joined(nodes, elbows, w, z)}
Level(f, z) == IF z[1] = "fma" THEN {<<z>>} ELSE UNION {{Append(p, z) : p \in f[w]} : w \in Steps(z)}
PathNodes == {w \in DOMAIN nodes : w[1] \notin {"init", "a", "b"}}
Walk(f) == [z \in PathNodes |-> Level(f, z)]

\* A level of the recursion looks at the column before only.
LEMMA LevelsAgree ==
  ASSUME NEW f, NEW g, NEW z \in PathNodes,
         z[1] # "fma" => \A w \in PathNodes : w[1] = Column[z[1]] => f[w] = g[w]
  PROVE  Level(f, z) = Level(g, z)
<1>1. CASE z[1] = "fma"
  BY <1>1 DEF Level
<1>2. CASE z[1] # "fma"
  <2>1. z[1] \in {"L1", "L2", "L3", "store"}
    BY <1>2, NodeRow DEF PathNodes, Columns, LaneColumns
  <2>2. Column[z[1]] \in {"fma", "L1", "L2", "L3"}
    BY <2>1 DEF Column
  <2>3. ASSUME NEW w \in Steps(z)
        PROVE  {Append(p, z) : p \in f[w]} = {Append(p, z) : p \in g[w]}
    <3>1. w \in PathNodes /\ w[1] = Column[z[1]]
      BY <2>2 DEF Steps, PathNodes
    <3>2. f[w] = g[w]
      BY <1>2, <3>1
    <3> QED BY <3>2
  <2>4. {{Append(p, z) : p \in f[w]} : w \in Steps(z)} = {{Append(p, z) : p \in g[w]} : w \in Steps(z)}
    BY <2>3
  <2> QED BY <1>2, <2>4 DEF Level
<1> QED BY <1>1, <1>2

\* The recursion defines the paths: five levels of it change no more.
LEMMA PathsWalk == Paths = Walk(Paths)
<1>1. PICK g1, g2, g3, g4, g5, g6 :
        /\ g1 = Walk(<<>>) /\ g2 = Walk(g1) /\ g3 = Walk(g2) /\ g4 = Walk(g3)
        /\ g5 = Walk(g4) /\ g6 = Walk(g5)
  OBVIOUS
<1>2. \A f : \A z \in PathNodes : Walk(f)[z] = Level(f, z)
  BY DEF Walk
<1>3. \A z \in PathNodes : z[1] \in {"fma", "L1", "L2", "L3", "store"}
  BY NodeRow DEF PathNodes, Columns, LaneColumns
<1>4. \A z \in PathNodes : z[1] = "fma" => /\ g1[z] = g2[z] /\ g2[z] = g3[z] /\ g3[z] = g4[z]
                                           /\ g4[z] = g5[z] /\ g5[z] = g6[z]
  BY <1>1, <1>2, LevelsAgree
<1>5. \A z \in PathNodes : z[1] = "L1" => /\ g2[z] = g3[z] /\ g3[z] = g4[z]
                                          /\ g4[z] = g5[z] /\ g5[z] = g6[z]
  <2>1. Column["L1"] = "fma"
    BY DEF Column
  <2> QED BY <1>1, <1>2, <1>4, <2>1, LevelsAgree
<1>6. \A z \in PathNodes : z[1] = "L2" => g3[z] = g4[z] /\ g4[z] = g5[z] /\ g5[z] = g6[z]
  <2>1. Column["L2"] = "L1"
    BY DEF Column
  <2> QED BY <1>1, <1>2, <1>5, <2>1, LevelsAgree
<1>7. \A z \in PathNodes : z[1] = "L3" => g4[z] = g5[z] /\ g5[z] = g6[z]
  <2>1. Column["L3"] = "L2"
    BY DEF Column
  <2> QED BY <1>1, <1>2, <1>6, <2>1, LevelsAgree
<1>8. \A z \in PathNodes : z[1] = "store" => g5[z] = g6[z]
  <2>1. Column["store"] = "L3"
    BY DEF Column
  <2> QED BY <1>1, <1>2, <1>7, <2>1, LevelsAgree
<1>9. \A z \in PathNodes : g5[z] = g6[z]
  BY <1>3, <1>4, <1>5, <1>6, <1>7, <1>8
<1>10. g5 = g6
  BY <1>1, <1>9 DEF Walk
<1>11. \E f : f = Walk(f)
  BY <1>1, <1>10
<1>12. Paths = CHOOSE f : f = Walk(f)
  BY Zenon DEF Paths, Walk, Level, Steps, PathNodes
<1> QED BY <1>11, <1>12

\* A path that comes to box z from a box of column d whose number is in I.
Comes(P, d, I, z, x) ==
  \E q \in I : <<d, q>> \in DOMAIN nodes /\ \E p \in P[<<d, q>>] : x = Append(p, z)

\* The paths to a box z of the tree are those to the boxes of column d that
\* feed it, with z.
LEMMA PathsTo ==
  ASSUME NEW z \in DOMAIN nodes, z[1] \in {"L1", "L2", "L3", "store"},
         NEW d, d = Column[z[1]], NEW I, I = Inputs(z), NEW P, P = Paths, NEW x
  PROVE  x \in P[z] <=> Comes(P, d, I, z, x)
<1>1. z \in PathNodes
  BY DEF PathNodes
<1>2. P[z] = Level(P, z)
  <2>1. P = [y \in PathNodes |-> Level(P, y)]
    BY PathsWalk DEF Walk
  <2> QED BY <1>1, <2>1
<1>3. x \in P[z] <=> \E w \in Steps(z) : \E p \in P[w] : x = Append(p, z)
  <2>1. Level(P, z) = UNION {{Append(p, z) : p \in P[w]} : w \in Steps(z)}
    BY DEF Level
  <2> QED BY <1>2, <2>1
<1>4. \A w : w \in Steps(z) <=> \E q \in I : <<d, q>> \in DOMAIN nodes /\ w = <<d, q>>
  <2>1. \A w : w \in Steps(z) <=> w \in DOMAIN nodes /\ w[1] = d /\ Joined(nodes, elbows, w, z)
    BY DEF Steps
  <2>2. \A w \in DOMAIN nodes : w[1] = d => (Joined(nodes, elbows, w, z) <=> w[2] \in I)
    BY TreeInputs
  <2>3. \A w \in DOMAIN nodes : w = <<w[1], w[2]>>
    BY NodeRow
  <2> QED BY <2>1, <2>2, <2>3
<1>5. ASSUME NEW w \in Steps(z), NEW p \in P[w], x = Append(p, z)
      PROVE  \E q \in I : <<d, q>> \in DOMAIN nodes /\ \E s \in P[<<d, q>>] : x = Append(s, z)
  <2>1. PICK q \in I : <<d, q>> \in DOMAIN nodes /\ w = <<d, q>>
    BY <1>4
  <2>2. p \in P[<<d, q>>]
    BY <2>1
  <2> QED BY <1>5, <2>1, <2>2
<1>6. ASSUME NEW q \in I, <<d, q>> \in DOMAIN nodes, NEW p \in P[<<d, q>>], x = Append(p, z)
      PROVE  \E w \in Steps(z) : \E s \in P[w] : x = Append(s, z)
  <2>1. <<d, q>> \in Steps(z)
    BY <1>4, <1>6
  <2> QED BY <1>6, <2>1
<1> QED BY <1>3, <1>5, <1>6 DEF Comes

\* The path of accumulator q, as it grows from column to column.
Path1(q)          == << <<"fma", q>> >>
Path2(r, q)       == Append(Path1(q), <<"L1", r>>)
Path3(s, r, q)    == Append(Path2(r, q), <<"L2", s>>)
Path4(s, r, q)    == Append(Path3(s, r, q), <<"L3", 0>>)
PathOf(s, r, q)   == Append(Path4(s, r, q), <<"store", 0>>)

\* It begins in the lane of q.
LEMMA PathBegins ==
  ASSUME NEW q \in 0 .. 7, NEW r \in 0 .. 3, NEW s \in 0 .. 1
  PROVE  PathOf(s, r, q)[1][2] = q
<1>1. \A f \in Seq(DOMAIN nodes) : \A z \in DOMAIN nodes :
        Len(f) >= 1 => /\ Append(f, z) \in Seq(DOMAIN nodes) /\ Len(Append(f, z)) >= 1
                       /\ Append(f, z)[1] = f[1]
  OBVIOUS
<1>2. /\ <<"fma", q>> \in DOMAIN nodes /\ <<"L1", r>> \in DOMAIN nodes
      /\ <<"L2", s>> \in DOMAIN nodes
      /\ <<"L3", 0>> \in DOMAIN nodes /\ <<"store", 0>> \in DOMAIN nodes
  BY Boxes DEF LaneColumns
<1>3. Path1(q) \in Seq(DOMAIN nodes) /\ Len(Path1(q)) >= 1 /\ Path1(q)[1] = <<"fma", q>>
  BY <1>2 DEF Path1
<1>4. /\ Path2(r, q) \in Seq(DOMAIN nodes) /\ Len(Path2(r, q)) >= 1
      /\ Path2(r, q)[1] = <<"fma", q>>
  BY <1>1, <1>2, <1>3 DEF Path2
<1>5. /\ Path3(s, r, q) \in Seq(DOMAIN nodes) /\ Len(Path3(s, r, q)) >= 1
      /\ Path3(s, r, q)[1] = <<"fma", q>>
  BY <1>1, <1>2, <1>4 DEF Path3
<1>6. /\ Path4(s, r, q) \in Seq(DOMAIN nodes) /\ Len(Path4(s, r, q)) >= 1
      /\ Path4(s, r, q)[1] = <<"fma", q>>
  BY <1>1, <1>2, <1>5 DEF Path4
<1>7. PathOf(s, r, q)[1] = <<"fma", q>>
  BY <1>1, <1>2, <1>6 DEF PathOf
<1> QED BY <1>7

\* The paths of the tree, column by column.
LEMMA PathsFma ==
  ASSUME NEW q \in 0 .. 7, NEW x
  PROVE  x \in Paths[<<"fma", q>>] <=> x = Path1(q)
<1>1. PICK z \in DOMAIN nodes : z = <<"fma", q>> /\ z[1] = "fma"
  BY Boxes DEF LaneColumns
<1>2. z \in PathNodes
  BY <1>1 DEF PathNodes
<1>3. PICK f : f = Paths
  OBVIOUS
<1>4. f = [y \in PathNodes |-> Level(f, y)]
  BY <1>3, PathsWalk DEF Walk
<1>5. f[z] = {<<z>>}
  BY <1>1, <1>2, <1>4 DEF Level
<1> QED BY <1>1, <1>3, <1>5 DEF Path1

\* The paths to a box of the first level come from two accumulators,
LEMMA PathsL1 ==
  ASSUME NEW r \in 0 .. 3, NEW x
  PROVE  x \in Paths[<<"L1", r>>] <=> \E q \in PairOf(r) : x = Path2(r, q)
<1>0. PICK z \in DOMAIN nodes : z = <<"L1", r>>
  BY Boxes
<1>1. PICK d, I, P : z = <<"L1", r>> /\ z[1] = "L1" /\ z[2] = r /\ d = "fma" /\ I = PairOf(r) /\ P = Paths
  BY <1>0
<1>2. z[1] \in {"L1", "L2", "L3", "store"} /\ d = Column[z[1]] /\ I = Inputs(z) /\ P = Paths
  BY <1>1 DEF Column, Inputs
<1>3. x \in P[z] <=>
        \E q \in I : <<d, q>> \in DOMAIN nodes /\ \E p \in P[<<d, q>>] : x = Append(p, z)
  <2>1. x \in P[z] <=> Comes(P, d, I, z, x)
    BY <1>2, PathsTo
  <2> QED BY <2>1 DEF Comes
<1>4. ASSUME NEW q \in I
      PROVE  /\ <<d, q>> \in DOMAIN nodes
             /\ \A p : p \in P[<<d, q>>] <=> p = Path1(q)
  <2>1. <<"fma", q>> \in DOMAIN nodes
    BY <1>1, Boxes, Pairs DEF LaneColumns
  <2>2. \A p : p \in Paths[<<"fma", q>>] <=> p = Path1(q)
    BY <1>1, Pairs, PathsFma
  <2> QED BY <1>1, <2>1, <2>2
<1>5. ASSUME NEW q \in I
      PROVE  (\E p \in P[<<d, q>>] : x = Append(p, z)) <=> x = Path2(r, q)
  BY <1>1, <1>4 DEF Path2
<1> QED BY <1>1, <1>3, <1>4, <1>5

\* to one of the second level from two boxes of the first,
LEMMA PathsL2 ==
  ASSUME NEW s \in 0 .. 1, NEW x
  PROVE  x \in Paths[<<"L2", s>>] <=> \E r \in PairOf(s) : \E q \in PairOf(r) : x = Path3(s, r, q)
<1>0. PICK z \in DOMAIN nodes : z = <<"L2", s>>
  BY Boxes
<1>1. PICK d, I, P : z = <<"L2", s>> /\ z[1] = "L2" /\ z[2] = s /\ d = "L1" /\ I = PairOf(s) /\ P = Paths
  BY <1>0
<1>2. z[1] \in {"L1", "L2", "L3", "store"} /\ d = Column[z[1]] /\ I = Inputs(z) /\ P = Paths
  BY <1>1 DEF Column, Inputs
<1>3. x \in P[z] <=>
        \E r \in I : <<d, r>> \in DOMAIN nodes /\ \E p \in P[<<d, r>>] : x = Append(p, z)
  <2>1. x \in P[z] <=> Comes(P, d, I, z, x)
    BY <1>2, PathsTo
  <2> QED BY <2>1 DEF Comes
<1>4. ASSUME NEW r \in I
      PROVE  /\ <<d, r>> \in DOMAIN nodes
             /\ \A p : p \in P[<<d, r>>] <=> \E q \in PairOf(r) : p = Path2(r, q)
  <2>1. <<"L1", r>> \in DOMAIN nodes
    BY <1>1, Boxes, Pairs
  <2>2. \A p : p \in Paths[<<"L1", r>>] <=> \E q \in PairOf(r) : p = Path2(r, q)
    BY <1>1, Pairs, PathsL1
  <2> QED BY <1>1, <2>1, <2>2
<1>5. ASSUME NEW r \in I
      PROVE  (\E p \in P[<<d, r>>] : x = Append(p, z)) <=> \E q \in PairOf(r) : x = Path3(s, r, q)
  <2>1. \A p : p \in P[<<d, r>>] <=> \E q \in PairOf(r) : p = Path2(r, q)
    BY <1>4
  <2>2. \A q : Path3(s, r, q) = Append(Path2(r, q), z)
    BY <1>1 DEF Path3
  <2>3. ASSUME NEW q \in PairOf(r), x = Path3(s, r, q)
        PROVE  \E p \in P[<<d, r>>] : x = Append(p, z)
    BY <2>1, <2>2, <2>3
  <2>4. ASSUME NEW p \in P[<<d, r>>], x = Append(p, z)
        PROVE  \E q \in PairOf(r) : x = Path3(s, r, q)
    BY <2>1, <2>2, <2>4
  <2> QED BY <2>3, <2>4
<1> QED BY <1>1, <1>3, <1>4, <1>5

\* and to the third from the two of the second.
LEMMA PathsL3 ==
  ASSUME NEW x
  PROVE  x \in Paths[<<"L3", 0>>] <=> \E s \in PairOf(0) : \E r \in PairOf(s) : \E q \in PairOf(r) : x = Path4(s, r, q)
<1>0. PICK z \in DOMAIN nodes : z = <<"L3", 0>>
  BY Boxes
<1>1. PICK d, I, P : z = <<"L3", 0>> /\ z[1] = "L3" /\ z[2] = 0 /\ d = "L2" /\ I = PairOf(0) /\ P = Paths
  BY <1>0
<1>2. z[1] \in {"L1", "L2", "L3", "store"} /\ d = Column[z[1]] /\ I = Inputs(z) /\ P = Paths
  BY <1>1 DEF Column, Inputs
<1>3. x \in P[z] <=>
        \E s \in I : <<d, s>> \in DOMAIN nodes /\ \E p \in P[<<d, s>>] : x = Append(p, z)
  <2>1. x \in P[z] <=> Comes(P, d, I, z, x)
    BY <1>2, PathsTo
  <2> QED BY <2>1 DEF Comes
<1>4. ASSUME NEW s \in I
      PROVE  /\ <<d, s>> \in DOMAIN nodes
             /\ \A p : p \in P[<<d, s>>] <=> \E r \in PairOf(s) : \E q \in PairOf(r) : p = Path3(s, r, q)
  <2>1. <<"L2", s>> \in DOMAIN nodes
    BY <1>1, Boxes, Pairs
  <2>2. \A p : p \in Paths[<<"L2", s>>] <=> \E r \in PairOf(s) : \E q \in PairOf(r) : p = Path3(s, r, q)
    BY <1>1, Pairs, PathsL2
  <2> QED BY <1>1, <2>1, <2>2
<1>5. ASSUME NEW s \in I
      PROVE  (\E p \in P[<<d, s>>] : x = Append(p, z)) <=> \E r \in PairOf(s) : \E q \in PairOf(r) : x = Path4(s, r, q)
  <2>1. \A p : p \in P[<<d, s>>] <=> \E r \in PairOf(s) : \E q \in PairOf(r) : p = Path3(s, r, q)
    BY <1>4
  <2>2. \A r1, q1 : Path4(s, r1, q1) = Append(Path3(s, r1, q1), z)
    BY <1>1 DEF Path4
  <2> QED BY <2>1, <2>2
<1> QED BY <1>1, <1>3, <1>4, <1>5

\* The paths to the store.
LEMMA PathsStore ==
  ASSUME NEW x
  PROVE  x \in StorePaths <=>
           \E s \in PairOf(0) : \E r \in PairOf(s) : \E q \in PairOf(r) : x = PathOf(s, r, q)
<1>0. PICK z \in DOMAIN nodes : z = <<"store", 0>>
  BY Boxes
<1>1. PICK d, I, P : z = <<"store", 0>> /\ z[1] = "store" /\ d = "L3" /\ I = {0} /\ P = Paths
  BY <1>0
<1>2. z[1] \in {"L1", "L2", "L3", "store"} /\ d = Column[z[1]] /\ I = Inputs(z) /\ P = Paths
  BY <1>1 DEF Column, Inputs
<1>3. x \in P[z] <=> \E n \in I : <<d, n>> \in DOMAIN nodes /\ \E p \in P[<<d, n>>] : x = Append(p, z)
  <2>1. x \in P[z] <=> Comes(P, d, I, z, x)
    BY <1>2, PathsTo
  <2> QED BY <2>1 DEF Comes
<1>4. /\ <<d, 0>> \in DOMAIN nodes
      /\ \A p : p \in P[<<d, 0>>] <=>
           \E s \in PairOf(0) : \E r \in PairOf(s) : \E q \in PairOf(r) : p = Path4(s, r, q)
  BY <1>1, Boxes, PathsL3
<1>5. x \in P[z] <=> \E p \in P[<<d, 0>>] : x = Append(p, z)
  BY <1>1, <1>3, <1>4
<1>6. \A s, r, q : PathOf(s, r, q) = Append(Path4(s, r, q), z)
  BY <1>1 DEF PathOf
<1>7. x \in P[z] <=>
        \E s \in PairOf(0) : \E r \in PairOf(s) : \E q \in PairOf(r) : x = PathOf(s, r, q)
  <2>1. ASSUME NEW s \in PairOf(0), NEW r \in PairOf(s), NEW q \in PairOf(r), x = PathOf(s, r, q)
        PROVE  \E p \in P[<<d, 0>>] : x = Append(p, z)
    BY <1>4, <1>6, <2>1
  <2>2. ASSUME NEW p \in P[<<d, 0>>], x = Append(p, z)
        PROVE  \E s \in PairOf(0) : \E r \in PairOf(s) : \E q \in PairOf(r) : x = PathOf(s, r, q)
    <3>1. PICK s \in PairOf(0) : \E r \in PairOf(s) : \E q \in PairOf(r) : p = Path4(s, r, q)
      BY <1>4
    <3> QED BY <1>6, <2>2, <3>1
  <2> QED BY <1>5, <2>1, <2>2
<1> QED BY <1>1, <1>7 DEF StorePaths

\* The pairs of pairs: every accumulator is in one.
LEMMA PairTree ==
  /\ \A q \in 0 .. 7 : q \div 2 \in 0 .. 3 /\ q \in PairOf(q \div 2)
  /\ \A r \in 0 .. 3 : r \div 2 \in PairOf(0) /\ r \in PairOf(r \div 2)
  /\ \A r \in 0 .. 3 : \A q \in PairOf(r) : q \in 0 .. 7 /\ r = q \div 2
  /\ \A s \in PairOf(0) : \A r \in PairOf(s) : s \in 0 .. 1 /\ r \in 0 .. 3 /\ s = r \div 2
BY DEF PairOf

\* Eight paths reach the store, one from each accumulator.
LEMMA StoreInputs ==
  /\ {p[1][2] : p \in StorePaths} = 0 .. 7
  /\ Cardinality(StorePaths) = 8
<1> DEFINE f == [q \in 0 .. 7 |-> PathOf((q \div 2) \div 2, q \div 2, q)]
<1>1. \A q \in 0 .. 7 : f[q] \in StorePaths /\ f[q][1][2] = q
  <2> SUFFICES ASSUME NEW q \in 0 .. 7
               PROVE  f[q] \in StorePaths /\ f[q][1][2] = q
    OBVIOUS
  <2>1. PICK r \in 0 .. 3 : r = q \div 2 /\ q \in PairOf(r)
    BY PairTree
  <2>2. PICK s \in PairOf(0) : s = r \div 2 /\ r \in PairOf(s)
    BY PairTree
  <2>3. f[q] = PathOf(s, r, q)
    BY <2>1, <2>2
  <2>4. PathOf(s, r, q)[1][2] = q
    BY PairTree, PathBegins
  <2> QED BY <2>1, <2>2, <2>3, <2>4, PathsStore
<1>2. \A x \in StorePaths : \E q \in 0 .. 7 : x = f[q]
  <2> SUFFICES ASSUME NEW x \in StorePaths
               PROVE  \E q \in 0 .. 7 : x = f[q]
    OBVIOUS
  <2>1. PICK s \in PairOf(0) : \E r \in PairOf(s) : \E q \in PairOf(r) : x = PathOf(s, r, q)
    BY PathsStore
  <2>2. PICK r \in PairOf(s) : \E q \in PairOf(r) : x = PathOf(s, r, q)
    BY <2>1
  <2>3. PICK q \in PairOf(r) : x = PathOf(s, r, q)
    BY <2>2
  <2>4. q \in 0 .. 7 /\ r = q \div 2 /\ s = r \div 2
    BY PairTree
  <2> QED BY <2>3, <2>4
<1>3. DOMAIN f = 0 .. 7
  OBVIOUS
<1> HIDE DEF f
<1>4. {p[1][2] : p \in StorePaths} = 0 .. 7
  BY <1>1, <1>2
<1>5. f \in Bijection(0 .. 7, StorePaths)
  <2>1. f \in [0 .. 7 -> StorePaths]
    <3>1. f = [q \in 0 .. 7 |-> f[q]]
      BY DEF f
    <3> QED BY <1>1, <3>1
  <2>2. \A q, r \in 0 .. 7 : f[q] = f[r] => q = r
    BY <1>1
  <2> QED BY <1>2, <2>1, <2>2 DEF Bijection, Injection, Surjection, IsInjective
<1>6. ExistsBijection(0 .. 7, StorePaths)
  BY <1>5, Zenon DEF ExistsBijection
<1>7. IsFiniteSet(0 .. 7) /\ Cardinality(0 .. 7) = 8
  <2>1. PICK a \in Int, b \in Int : a = 0 /\ b = 7
    OBVIOUS
  <2>2. IsFiniteSet(a .. b) /\ Cardinality(a .. b) = IF a > b THEN 0 ELSE b - a + 1
    BY FS_Interval
  <2> QED BY <2>1, <2>2
<1> QED BY <1>4, <1>6, <1>7, FS_Bijection

\* The lanes of the picture begin and multiply as the accumulators do.
LEMMA LanesShown ==
  ASSUME IndInv, pc = "reduce", NEW t \in Lanes, NEW q \in Chains
  PROVE  /\ (vc[q][t][1] = Zero) <=> (InitText(q) = "0")
         /\ Fmacc(q, l + q)[t] = Append(vc[q][t], Prod(At(i, call.lda, l + Operands(q).a),
                                                       At(l + Operands(q).b, call.ldb, j + t)))
<1>1. ASSUME q = 0
      PROVE  (vc[q][t][1] = Zero) <=> (InitText(q) = "0")
  <2>1. vc[0][t][1] = Old(At(i, call.ldc, j + t))
    BY DEF IndInv, LaneInv
  <2>2. Old(At(i, call.ldc, j + t)) # Zero
    BY OpsDiffer
  <2>3. InitText(0) # "0"
    BY DEF InitText
  <2> QED BY <1>1, <2>1, <2>2, <2>3
<1>2. ASSUME q # 0
      PROVE  (vc[q][t][1] = Zero) <=> (InitText(q) = "0")
  <2>1. vc[q][t][1] = Zero
    BY <1>2 DEF IndInv, LaneInv
  <2>2. InitText(q) = "0"
    BY <1>2 DEF InitText
  <2> QED BY <2>1, <2>2
<1>3. Operands(q).a = q /\ Operands(q).b = q
  BY DEF Operands
<1>4. Fmacc(q, l + q)[t] = Append(vc[q][t], Prod(At(i, call.lda, l + q), At(l + q, call.ldb, j + t)))
  BY DEF Fmacc
<1> QED BY <1>1, <1>2, <1>3, <1>4

\* FlowDrawn for the eight accumulators the picture is drawn for.
LEMMA FlowShown ==
  ASSUME CHAINS = N_LANES, IndInv
  PROVE  FlowDrawn
<1>1. CHAINS = 8 /\ Chains = 0 .. 7
  BY DEF N_LANES, Chains
<1>2. ASSUME pc = "reduce", NEW t \in Lanes
      PROVE  DOMAIN LaneSum(t) = {p[1][2] : p \in StorePaths} /\ Cardinality(StorePaths) = CHAINS
  BY <1>1, StoreInputs DEF LaneSum
<1> QED BY <1>2, FlowReadable, LanesShown DEF FlowDrawn

\* The dataflow picture of doc/ can be read and shows opt_gemm's reduction: a
\* lane for each accumulator, which starts and multiplies as the accumulator
\* does and reaches the store along one path, and no other input.  The picture
\* is drawn for the eight accumulators the body is written out for
\* (gen_opt_gemm_dataflow_svg.py:7-14, 134-196, gemm.c:140-173).
THEOREM FlowPicture ==
  ASSUME CHAINS = N_LANES
  PROVE  Spec => []FlowDrawn
<1>1. IndInv => FlowDrawn
  BY FlowShown
<1> QED BY <1>1, Invariance, PTL
=============================================================================
