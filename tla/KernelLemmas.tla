---------------------------- MODULE KernelLemmas ----------------------------
(***************************************************************************)
(* What the proofs of the three kernels and of their pictures share:       *)
(* lemmas about flat addresses, chains, arrows and boxes.                  *)
(***************************************************************************)
EXTENDS GemmValues, Diagrams, TLAPS

\* A flat index r * ld + c with c below the leading dimension determines its
\* row and its column: gemm.c's C[i * ldc + j] never aliases another cell.
LEMMA AtInjective ==
  ASSUME NEW ld \in Nat, NEW r1 \in Nat, NEW r2 \in Nat, NEW c1 \in Nat, NEW c2 \in Nat,
         c1 < ld, c2 < ld, At(r1, ld, c1) = At(r2, ld, c2)
  PROVE  r1 = r2 /\ c1 = c2
<1>1. ASSUME NEW a \in Nat, NEW b \in Nat, a < b PROVE a * ld + ld <= b * ld
  <2> DEFINE d == b - a - 1
  <2>1. d \in Nat /\ b = a + 1 + d
    BY <1>1
  <2>2. d * ld \in Nat /\ a * ld \in Nat
    BY <2>1
  <2>3. b * ld = a * ld + ld + d * ld
    BY <2>1
  <2> QED BY <2>2, <2>3
<1>2. r1 * ld \in Nat /\ r2 * ld \in Nat
  OBVIOUS
<1>3. r1 * ld + c1 = r2 * ld + c2
  BY DEF At
<1>4. ~ (r1 < r2)
  BY <1>1, <1>2, <1>3
<1>5. ~ (r2 < r1)
  BY <1>1, <1>2, <1>3
<1> QED BY <1>2, <1>3, <1>4, <1>5

\* The row of a cell is its flat index divided by the leading dimension.
LEMMA RowOfAt ==
  ASSUME NEW ld \in Nat, NEW r \in Nat, NEW c \in Nat, c < ld
  PROVE  At(r, ld, c) \div ld = r
<1>0. PICK x \in Nat : x = r * ld + c /\ ld > 0
  <2>1. r * ld \in Nat
    OBVIOUS
  <2> QED BY <2>1
<1>1. PICK a \in Nat : a = x \div ld /\ a * ld <= x /\ x < a * ld + ld
  BY <1>0
<1>2. ~ (a < r)
  <2>1. ASSUME a < r PROVE a * ld + ld <= r * ld
    <3>1. PICK d \in Nat : r = a + 1 + d
      BY <2>1
    <3>2. r * ld = a * ld + ld + d * ld /\ d * ld >= 0
      BY <3>1
    <3> QED BY <3>2
  <2> QED BY <1>0, <1>1, <2>1
<1>3. ~ (r < a)
  <2>1. ASSUME r < a PROVE r * ld + ld <= a * ld
    <3>1. PICK d \in Nat : a = r + 1 + d
      BY <2>1
    <3>2. a * ld = r * ld + ld + d * ld /\ d * ld >= 0
      BY <3>1
    <3> QED BY <3>2
  <2> QED BY <1>0, <1>1, <2>1
<1> QED BY <1>0, <1>1, <1>2, <1>3 DEF At

\* A cell of an m-row matrix lies inside its array.
LEMMA AtInRange ==
  ASSUME NEW ld \in Nat, NEW m \in Nat, NEW r \in 0 .. m - 1, NEW c \in 0 .. ld - 1
  PROVE  At(r, ld, c) \in 0 .. m * ld - 1
<1> DEFINE d == m - r - 1
<1>1. d \in Nat /\ m = r + 1 + d
  OBVIOUS
<1>2. d * ld \in Nat /\ r * ld \in Nat
  BY <1>1
<1>3. m * ld = r * ld + ld + d * ld
  BY <1>1
<1> QED BY <1>2, <1>3 DEF At

\* The arguments of a call are naturals, and each row fits in its array.
LEMMA ShapeType ==
  ASSUME NEW s \in Shapes
  PROVE  /\ s.m \in Nat /\ s.n \in Nat /\ s.k \in Nat
         /\ s.lda \in Nat /\ s.ldb \in Nat /\ s.ldc \in Nat
         /\ s.k <= s.lda /\ s.n <= s.ldb /\ s.n <= s.ldc
BY ShapesAssumption

\* Distinct cells of the block have distinct addresses, all inside C.
LEMMA BlockCells ==
  ASSUME NEW s \in Shapes, NEW r \in Rows(s), NEW c \in Cols(s)
  PROVE  /\ At(r, s.ldc, c) \in CAddr(s)
         /\ At(r, s.ldc, c) \in Block(s)
         /\ \A r2 \in Rows(s), c2 \in Cols(s) :
              At(r2, s.ldc, c2) = At(r, s.ldc, c) => r2 = r /\ c2 = c
<1>1. s.m \in Nat /\ s.n \in Nat /\ s.ldc \in Nat /\ s.n <= s.ldc
  BY ShapeType
<1>2. At(r, s.ldc, c) \in CAddr(s)
  <2>1. r \in 0 .. s.m - 1 /\ c \in 0 .. s.ldc - 1
    BY <1>1 DEF Rows, Cols
  <2> QED BY <1>1, <2>1, AtInRange DEF CAddr
<1>3. At(r, s.ldc, c) \in Block(s)
  BY DEF Block
<1>4. ASSUME NEW r2 \in Rows(s), NEW c2 \in Cols(s),
             At(r2, s.ldc, c2) = At(r, s.ldc, c)
      PROVE  r2 = r /\ c2 = c
  BY <1>1, <1>4, AtInjective DEF Rows, Cols
<1> QED BY <1>2, <1>3, <1>4

\* The initial chain of a cell is the shortest prefix of its reference.
LEMMA FirstPrefix ==
  ASSUME NEW s \in Shapes, NEW r, NEW c
  PROVE  SubSeq(Reference(s, r, c), 1, 1) = <<Old(At(r, s.ldc, c))>>
<1>1. s.k \in Nat
  BY ShapeType
<1>2. Reference(s, r, c)[1] = Old(At(r, s.ldc, c))
  BY <1>1 DEF Reference
<1>3. SubSeq(Reference(s, r, c), 1, 1) = [x \in 1 .. 1 |-> Reference(s, r, c)[x]]
  BY <1>1 DEF Reference
<1>4. \A v : <<v>> = [x \in 1 .. 1 |-> v]
  OBVIOUS
<1>5. [x \in 1 .. 1 |-> Reference(s, r, c)[x]] = [x \in 1 .. 1 |-> Reference(s, r, c)[1]]
  OBVIOUS
<1> QED BY <1>2, <1>3, <1>4, <1>5

\* Appending the next operation to a prefix of a chain gives the next prefix.
LEMMA AppendPrefix ==
  ASSUME NEW s \in Shapes, NEW r, NEW c, NEW p \in Nat, p < s.k + 2
  PROVE  Append(SubSeq(Reference(s, r, c), 1, p), Reference(s, r, c)[p + 1])
           = SubSeq(Reference(s, r, c), 1, p + 1)
<1> DEFINE ref == Reference(s, r, c)
           S == {ref[x] : x \in 1 .. s.k + 2}
<1>1. s.k \in Nat
  BY ShapeType
<1>2. ref \in Seq(S) /\ Len(ref) = s.k + 2
  <2>1. ref \in [1 .. s.k + 2 -> S]
    BY DEF Reference
  <2> HIDE DEF ref, S
  <2> QED BY <1>1, <2>1
<1>3. ref[p + 1] \in S
  BY <1>1
<1> HIDE DEF ref, S
<1>4. SubSeq(ref, 1, p) \in Seq(S) /\ Len(SubSeq(ref, 1, p)) = p
      /\ \A x \in 1 .. p : SubSeq(ref, 1, p)[x] = ref[x]
  BY <1>1, <1>2
<1>5. SubSeq(ref, 1, p + 1) = [x \in 1 .. p + 1 |-> ref[x]]
  BY <1>1, <1>2
<1>6. Append(SubSeq(ref, 1, p), ref[p + 1]) = [x \in 1 .. p + 1 |-> ref[x]]
  BY <1>1, <1>3, <1>4
<1> QED BY <1>5, <1>6 DEF ref

\* The prefix of full length is the chain.
LEMMA WholePrefix ==
  ASSUME NEW s \in Shapes, NEW r, NEW c
  PROVE  SubSeq(Reference(s, r, c), 1, s.k + 2) = Reference(s, r, c)
<1>1. s.k \in Nat
  BY ShapeType
<1>2. SubSeq(Reference(s, r, c), 1, s.k + 2) = [x \in 1 .. s.k + 2 |-> Reference(s, r, c)[x]]
  BY <1>1 DEF Reference
<1>3. Reference(s, r, c) = [x \in 1 .. s.k + 2 |-> Reference(s, r, c)[x]]
  BY <1>1 DEF Reference
<1> QED BY <1>2, <1>3

\* A reference computation names no operation twice.
LEMMA ReferenceInjective ==
  ASSUME NEW s \in Shapes, NEW r \in Rows(s), NEW c,
         NEW x \in DOMAIN Reference(s, r, c), NEW y \in DOMAIN Reference(s, r, c),
         Reference(s, r, c)[x] = Reference(s, r, c)[y]
  PROVE  x = y
<1>1. /\ s.k \in Nat /\ s.lda \in Nat /\ s.k <= s.lda
      /\ r \in Nat /\ x \in 1 .. s.k + 2 /\ y \in 1 .. s.k + 2
  BY ShapeType DEF Rows, Reference
<1>2. \A z \in 1 .. s.k + 2 :
        Reference(s, r, c)[z] =
          IF z = 1 THEN Old(At(r, s.ldc, c))
          ELSE IF z = 2 THEN Beta
          ELSE Prod(At(r, s.lda, z - 3), At(z - 3, s.ldb, c))
  BY <1>1 DEF Reference
<1>3. \A z \in 1 .. s.k + 2 :
        Reference(s, r, c)[z][1] = IF z = 1 THEN "old" ELSE IF z = 2 THEN "beta" ELSE "prod"
  <2>1. /\ \A u : Old(u)[1] = "old"
        /\ Beta[1] = "beta"
        /\ \A a, b : Prod(a, b)[1] = "prod"
    BY DEF Old, Beta, Prod
  <2> QED BY <1>2, <2>1
<1>4. CASE x < 3 \/ y < 3
  BY <1>1, <1>3, <1>4
<1>5. CASE x >= 3 /\ y >= 3
  <2>1. /\ x - 3 \in Nat /\ y - 3 \in Nat /\ x - 3 < s.lda /\ y - 3 < s.lda
    BY <1>1, <1>5
  <2>2. Prod(At(r, s.lda, x - 3), At(x - 3, s.ldb, c))
          = Prod(At(r, s.lda, y - 3), At(y - 3, s.ldb, c))
    BY <1>1, <1>2, <1>5
  <2>3. At(r, s.lda, x - 3) = At(r, s.lda, y - 3)
    BY <2>2 DEF Prod
  <2>4. x - 3 = y - 3
    BY <1>1, <2>1, <2>3, AtInjective
  <2> QED BY <1>1, <2>4
<1> QED BY <1>1, <1>4, <1>5

\* A reference computation, as a sum of one chain, sums to itself.
LEMMA ReferenceSums ==
  ASSUME NEW s \in Shapes, NEW r \in Rows(s), NEW c
  PROVE  SumsTo([q \in {0} |-> Reference(s, r, c)], Reference(s, r, c))
<1> DEFINE ref == Reference(s, r, c)
           v   == [q \in {0} |-> ref]
<1>1. Places(v) = {<<0, x>> : x \in DOMAIN ref}
  BY DEF Places
<1>2. \A x \in DOMAIN ref : v[<<0, x>>[1]][<<0, x>>[2]] = ref[x]
  OBVIOUS
<1>3. \A x, y \in DOMAIN ref : ref[x] = ref[y] => x = y
  BY ReferenceInjective
<1> HIDE DEF ref
<1>4. \A y \in DOMAIN ref : \E p \in Places(v) : v[p[1]][p[2]] = ref[y]
  BY <1>1, <1>2
<1>5. \A p \in Places(v) : \E y \in DOMAIN ref : v[p[1]][p[2]] = ref[y]
  BY <1>1, <1>2
<1>6. \A p1, p2 \in Places(v) : v[p1[1]][p1[2]] = v[p2[1]][p2[2]] => p1 = p2
  BY <1>1, <1>2, <1>3
<1>7. \E q \in DOMAIN v : SubSeq(v[q], 1, 2) = SubSeq(ref, 1, 2)
  OBVIOUS
<1>8. SumsTo(v, ref)
  BY <1>4, <1>5, <1>6, <1>7 DEF SumsTo
<1> QED BY <1>8 DEF ref

-----------------------------------------------------------------------------
(* Pictures: the boxes and lines of a dataflow picture, the arrows of an   *)
(* array picture.  Two arrows of a fan do not cross because their samples  *)
(* advance from left to right and stay in the order of the arrows.         *)

\* A line leaves a box, and enters one, halfway up its sides.
LEMMA BoxEnds ==
  ASSUME NEW x \in Int, NEW y \in Int, NEW w \in Int, NEW h \in Int
  PROVE  Left(Node(x, y, w, h)) = <<x * PX, y>> /\ Right(Node(x, y, w, h)) = <<(x + w) * PX, y>>
<1>1. PICK box : box = Node(x, y, w, h)
  OBVIOUS
<1>2. box.x = x * 80 /\ box.top = y - (h * 80) \div 2 /\ box.w = w * 80 /\ box.h = h * 80
  BY <1>1 DEF Node, PX
<1>3. box.top + box.h \div 2 = y /\ box.x + box.w = (x + w) * 80
  BY <1>2
<1> QED BY <1>1, <1>2, <1>3 DEF Left, Right, PX

\* Two points on opposite sides of the line p q give cross products of
\* opposite signs.
LEMMA SideSigns ==
  ASSUME NEW px \in Int, NEW py \in Int, NEW qx \in Int, NEW qy \in Int,
         NEW ux \in Int, NEW uy \in Int, NEW vx \in Int, NEW vy \in Int,
         Side(<<px, py>>, <<qx, qy>>, <<ux, uy>>) * Side(<<px, py>>, <<qx, qy>>, <<vx, vy>>) < 0
  PROVE  LET fu == (qx - px) * (uy - py) - (qy - py) * (ux - px)
             fv == (qx - px) * (vy - py) - (qy - py) * (vx - px)
         IN (fu < 0 /\ fv > 0) \/ (fu > 0 /\ fv < 0)
<1>1. PICK fu \in Int : fu = (qx - px) * (uy - py) - (qy - py) * (ux - px)
  OBVIOUS
<1>2. PICK fv \in Int : fv = (qx - px) * (vy - py) - (qy - py) * (vx - px)
  OBVIOUS
<1>3. Side(<<px, py>>, <<qx, qy>>, <<ux, uy>>) = IF fu > 0 THEN 1 ELSE IF fu < 0 THEN -1 ELSE 0
  BY <1>1 DEF Side
<1>4. Side(<<px, py>>, <<qx, qy>>, <<vx, vy>>) = IF fv > 0 THEN 1 ELSE IF fv < 0 THEN -1 ELSE 0
  BY <1>2 DEF Side
<1> QED BY <1>1, <1>2, <1>3, <1>4

\* Two segments, one of which begins where the other has ended, do not cross.
LEMMA BehindNoCross ==
  ASSUME NEW px \in Int, NEW py \in Int, NEW qx \in Int, NEW qy \in Int,
         NEW ux \in Int, NEW uy \in Int, NEW vx \in Int, NEW vy \in Int,
         px <= qx, qx <= ux, ux <= vx
  PROVE  /\ ~ SegmentsCross(<<px, py>>, <<qx, qy>>, <<ux, uy>>, <<vx, vy>>)
         /\ ~ SegmentsCross(<<ux, uy>>, <<vx, vy>>, <<px, py>>, <<qx, qy>>)
<1> DEFINE A == qx - px
           E == vx - ux
           G == ux - qx
           b == qy - py
           d == uy - qy
           e == vy - uy
           fu == A * (uy - py) - b * (ux - px)
           fv == A * (vy - py) - b * (vx - px)
           hp == E * (py - uy) - e * (px - ux)
           hq == E * (qy - uy) - e * (qx - ux)
<1>1. A \in Nat /\ E \in Nat /\ G \in Nat /\ b \in Int /\ d \in Int /\ e \in Int
  OBVIOUS
<1>2. fu = A * d - b * G
  OBVIOUS
<1>3. fv = A * d - b * G + (A * e - b * E)
  OBVIOUS
<1>4. hq = e * G - E * d
  OBVIOUS
<1>5. hp = e * G - E * d + (A * e - b * E)
  OBVIOUS
<1>6. ~ (fu < 0 /\ fv > 0 /\ hq < 0 /\ hp > 0)
  OBVIOUS
<1>7. ~ (fu > 0 /\ fv < 0 /\ hq > 0 /\ hp < 0)
  OBVIOUS
<1>8. fv - fu = hp - hq
  BY <1>2, <1>3, <1>4, <1>5
<1>9. ~ (((fu < 0 /\ fv > 0) \/ (fu > 0 /\ fv < 0)) /\ ((hp < 0 /\ hq > 0) \/ (hp > 0 /\ hq < 0)))
  <2>1. fu \in Int /\ fv \in Int /\ hp \in Int /\ hq \in Int
    OBVIOUS
  <2> QED BY <1>6, <1>7, <1>8, <2>1
<1>10. ASSUME Side(<<px, py>>, <<qx, qy>>, <<ux, uy>>) * Side(<<px, py>>, <<qx, qy>>, <<vx, vy>>) < 0,
              Side(<<ux, uy>>, <<vx, vy>>, <<px, py>>) * Side(<<ux, uy>>, <<vx, vy>>, <<qx, qy>>) < 0
       PROVE  FALSE
  <2>1. (fu < 0 /\ fv > 0) \/ (fu > 0 /\ fv < 0)
    BY <1>10, SideSigns
  <2>2. (hp < 0 /\ hq > 0) \/ (hp > 0 /\ hq < 0)
    BY <1>10, SideSigns
  <2> QED BY <1>9, <2>1, <2>2
<1> QED BY <1>10 DEF SegmentsCross

\* Nor do two segments between the same two verticals, one never above the other.
LEMMA AbreastNoCross ==
  ASSUME NEW x0 \in Int, NEW x1 \in Int, x0 <= x1,
         NEW a \in Int, NEW b \in Int, NEW c \in Int, NEW d \in Int, a <= c, b <= d
  PROVE  ~ SegmentsCross(<<x0, a>>, <<x1, b>>, <<x0, c>>, <<x1, d>>)
<1>1. ASSUME Side(<<x0, a>>, <<x1, b>>, <<x0, c>>) * Side(<<x0, a>>, <<x1, b>>, <<x1, d>>) < 0
      PROVE  FALSE
  <2>1. LET fu == (x1 - x0) * (c - a) - (b - a) * (x0 - x0)
            fv == (x1 - x0) * (d - a) - (b - a) * (x1 - x0)
        IN (fu < 0 /\ fv > 0) \/ (fu > 0 /\ fv < 0)
    BY <1>1, SideSigns
  <2>2. (x1 - x0) * (c - a) - (b - a) * (x0 - x0) >= 0
    OBVIOUS
  <2>3. (x1 - x0) * (d - a) - (b - a) * (x1 - x0) = (x1 - x0) * (d - b)
    OBVIOUS
  <2>4. (x1 - x0) * (d - b) >= 0
    OBVIOUS
  <2> QED BY <2>1, <2>2, <2>3, <2>4
<1> QED BY <1>1 DEF SegmentsCross

\* A sample grows with each control point.
LEMMA CubicGrows ==
  ASSUME NEW s \in 0 .. SAMPLES,
         NEW p1 \in Int, NEW p2 \in Int, NEW p3 \in Int, NEW p4 \in Int,
         NEW q1 \in Int, NEW q2 \in Int, NEW q3 \in Int, NEW q4 \in Int,
         p1 <= q1, p2 <= q2, p3 <= q3, p4 <= q4
  PROVE  /\ Cubic(<<p1, p2, p3, p4>>, s) <= Cubic(<<q1, q2, q3, q4>>, s)
         /\ Cubic(<<p1, p2, p3, p4>>, s) \in Int /\ Cubic(<<q1, q2, q3, q4>>, s) \in Int
<1>1. PICK r \in Nat : r = SAMPLES - s
  BY DEF SAMPLES
<1>2. s \in Nat /\ SAMPLES * SAMPLES * SAMPLES = 1728
  BY DEF SAMPLES
<1>3. PICK a \in Nat, b \in Nat, c \in Nat, d \in Nat :
        a = r * r * r /\ b = 3 * r * r * s /\ c = 3 * r * s * s /\ d = s * s * s
  BY <1>2
<1>4. \A w1, w2, w3, w4 \in Int :
        Cubic(<<w1, w2, w3, w4>>, s) = (a * w1 + b * w2 + c * w3 + d * w4) \div 1728
  BY <1>1, <1>2, <1>3 DEF Cubic
<1>5. \A k \in Nat, v, w \in Int : v <= w => k * v <= k * w /\ k * v \in Int /\ k * w \in Int
  OBVIOUS
<1>6. PICK m1 \in Int, m2 \in Int, m3 \in Int, m4 \in Int, n1 \in Int, n2 \in Int, n3 \in Int, n4 \in Int :
        /\ m1 = a * p1 /\ m2 = b * p2 /\ m3 = c * p3 /\ m4 = d * p4
        /\ n1 = a * q1 /\ n2 = b * q2 /\ n3 = c * q3 /\ n4 = d * q4
        /\ m1 <= n1 /\ m2 <= n2 /\ m3 <= n3 /\ m4 <= n4
  BY <1>5
<1>7. (m1 + m2 + m3 + m4) \div 1728 <= (n1 + n2 + n3 + n4) \div 1728
  BY <1>6
<1>8. Cubic(<<p1, p2, p3, p4>>, s) = (m1 + m2 + m3 + m4) \div 1728
  BY <1>4, <1>6
<1>9. Cubic(<<q1, q2, q3, q4>>, s) = (n1 + n2 + n3 + n4) \div 1728
  BY <1>4, <1>6
<1>10. /\ m1 + m2 + m3 + m4 \in Int /\ n1 + n2 + n3 + n4 \in Int
       /\ \A w \in Int : w \div 1728 \in Int
  BY <1>6
<1> QED BY <1>7, <1>8, <1>9, <1>10

\* A fan whose arrows begin on one vertical and end on another, each no higher
\* than the one before, is not crossed.
LEMMA FanUncrossed ==
  ASSUME NEW arrows, DOMAIN arrows \subseteq Int,
         NEW X1 \in Int, NEW X2 \in Int,
         \A n \in DOMAIN arrows : /\ arrows[n].x1 = X1 /\ arrows[n].x2 = X2
                                 /\ arrows[n].y1 \in Int /\ arrows[n].y2 \in Int,
         \A n, m \in DOMAIN arrows : n < m =>
           arrows[n].y1 <= arrows[m].y1 /\ arrows[n].y2 <= arrows[m].y2,
         NEW X, \A s \in 0 .. SAMPLES : X[s] \in Int,
         \A n \in DOMAIN arrows, s \in 0 .. SAMPLES : Cubic(FanControls(arrows[n]), s) = X[s],
         \A s, t \in 0 .. SAMPLES : s <= t => X[s] <= X[t]
  PROVE  Uncrossed(arrows)
<1> SUFFICES ASSUME NEW n \in DOMAIN arrows, NEW m \in DOMAIN arrows, n < m,
                    NEW s \in 0 .. SAMPLES - 1, NEW t \in 0 .. SAMPLES - 1
             PROVE  ~ SegmentsCross(Curve(arrows[n])[s], Curve(arrows[n])[s + 1],
                                    Curve(arrows[m])[t], Curve(arrows[m])[t + 1])
  BY DEF Uncrossed, CurvesCross
<1>1. /\ s \in 0 .. SAMPLES /\ s + 1 \in 0 .. SAMPLES /\ t \in 0 .. SAMPLES /\ t + 1 \in 0 .. SAMPLES
  BY DEF SAMPLES
<1>2. ASSUME NEW k \in DOMAIN arrows
      PROVE  FanClimb(arrows[k]) = <<arrows[k].y1, arrows[k].y1 + ((arrows[k].y2 - arrows[k].y1) * 3) \div 4,
                                     arrows[k].y2, arrows[k].y2>>
  BY DEF FanClimb
<1>3. ASSUME NEW z \in 0 .. SAMPLES
      PROVE  /\ Cubic(FanClimb(arrows[n]), z) <= Cubic(FanClimb(arrows[m]), z)
             /\ Cubic(FanClimb(arrows[n]), z) \in Int /\ Cubic(FanClimb(arrows[m]), z) \in Int
  <2>1. PICK a \in Int, b \in Int, c \in Int, d \in Int :
          a = arrows[n].y1 /\ b = arrows[n].y2 /\ c = arrows[m].y1 /\ d = arrows[m].y2
    OBVIOUS
  <2>2. a <= c /\ b <= d
    BY <2>1
  <2>3. /\ a + ((b - a) * 3) \div 4 <= c + ((d - c) * 3) \div 4
        /\ a + ((b - a) * 3) \div 4 \in Int /\ c + ((d - c) * 3) \div 4 \in Int
    BY <2>2
  <2>4. FanClimb(arrows[n]) = <<a, a + ((b - a) * 3) \div 4, b, b>>
    BY <2>1 DEF FanClimb
  <2>5. FanClimb(arrows[m]) = <<c, c + ((d - c) * 3) \div 4, d, d>>
    BY <2>1 DEF FanClimb
  <2>6. PICK g \in Int, h \in Int : g = a + ((b - a) * 3) \div 4 /\ h = c + ((d - c) * 3) \div 4 /\ g <= h
    BY <2>3
  <2>7. FanClimb(arrows[n]) = <<a, g, b, b>> /\ FanClimb(arrows[m]) = <<c, h, d, d>>
    BY <2>4, <2>5, <2>6
  <2>8. /\ Cubic(<<a, g, b, b>>, z) <= Cubic(<<c, h, d, d>>, z)
        /\ Cubic(<<a, g, b, b>>, z) \in Int /\ Cubic(<<c, h, d, d>>, z) \in Int
    BY <2>2, <2>6, CubicGrows
  <2> QED BY <2>7, <2>8
<1>4. /\ Curve(arrows[n])[s] = <<X[s], Cubic(FanClimb(arrows[n]), s)>>
      /\ Curve(arrows[n])[s + 1] = <<X[s + 1], Cubic(FanClimb(arrows[n]), s + 1)>>
      /\ Curve(arrows[m])[t] = <<X[t], Cubic(FanClimb(arrows[m]), t)>>
      /\ Curve(arrows[m])[t + 1] = <<X[t + 1], Cubic(FanClimb(arrows[m]), t + 1)>>
  BY <1>1 DEF Curve
<1>5. PICK a \in Int, b \in Int, c \in Int, d \in Int :
        /\ a = Cubic(FanClimb(arrows[n]), s) /\ b = Cubic(FanClimb(arrows[n]), s + 1)
        /\ c = Cubic(FanClimb(arrows[m]), t) /\ d = Cubic(FanClimb(arrows[m]), t + 1)
  BY <1>1, <1>3
<1>xs. PICK x0 \in Int, x1 \in Int, x2 \in Int, x3 \in Int :
        x0 = X[s] /\ x1 = X[s + 1] /\ x2 = X[t] /\ x3 = X[t + 1]
  BY <1>1
<1>order. x0 <= x1 /\ x2 <= x3
  <2>1. s <= s + 1 /\ t <= t + 1
    OBVIOUS
  <2> QED BY <1>1, <1>xs, <2>1
<1>ends. /\ Curve(arrows[n])[s] = <<x0, a>> /\ Curve(arrows[n])[s + 1] = <<x1, b>>
      /\ Curve(arrows[m])[t] = <<x2, c>> /\ Curve(arrows[m])[t + 1] = <<x3, d>>
  BY <1>4, <1>5, <1>xs
<1>6. CASE s < t
  <2>1. s + 1 <= t
    BY <1>6
  <2>2. x1 <= x2
    BY <1>1, <1>xs, <2>1
  <2> QED BY <1>order, <1>ends, <2>2, BehindNoCross
<1>7. CASE t < s
  <2>1. t + 1 <= s
    BY <1>7
  <2>2. x3 <= x0
    BY <1>1, <1>xs, <2>1
  <2>3. ~ SegmentsCross(<<x0, a>>, <<x1, b>>, <<x2, c>>, <<x3, d>>)
    BY <1>order, <2>2, BehindNoCross
  <2> QED BY <1>ends, <2>3
<1>8. CASE s = t
  <2>1. x0 = x2 /\ x1 = x3 /\ a <= c /\ b <= d
    BY <1>1, <1>3, <1>5, <1>xs, <1>8
  <2>2. ~ SegmentsCross(<<x0, a>>, <<x1, b>>, <<x0, c>>, <<x1, d>>)
    BY <1>order, <2>1, AbreastNoCross
  <2> QED BY <1>ends, <2>1, <2>2
<1> QED BY <1>6, <1>7, <1>8

\* The weights of the three steps between the control points of a curve in its
\* sample z, and the sample these give.
Weight1(z) == 1728 - (12 - z) * (12 - z) * (12 - z)
Weight2(z) == 36 * z * z - 2 * z * z * z
Weight3(z) == z * z * z

Weighed(p1, p2, p3, p4, u1, u2, u3) ==
  (1728 * p1 + u1 * (p2 - p1) + u2 * (p3 - p2) + u3 * (p4 - p3)) \div 1728

\* The curve at a sample, by the weights of its control points.
LEMMA CubicWeights ==
  ASSUME NEW z \in 0 .. SAMPLES,
         NEW p1 \in Int, NEW p2 \in Int, NEW p3 \in Int, NEW p4 \in Int
  PROVE  Cubic(<<p1, p2, p3, p4>>, z) = Weighed(p1, p2, p3, p4, Weight1(z), Weight2(z), Weight3(z))
<1>1. z \in Int /\ SAMPLES * SAMPLES * SAMPLES = 1728 /\ SAMPLES - z = 12 - z
  BY DEF SAMPLES
<1>2. PICK r \in Int : r = 12 - z
  BY <1>1
<1>3. PICK a \in Int, b \in Int, c \in Int, d \in Int :
        a = r * r * r /\ b = 3 * r * r * z /\ c = 3 * r * z * z /\ d = z * z * z
  BY <1>1
<1>4. \A w1, w2, w3, w4 \in Int :
        Cubic(<<w1, w2, w3, w4>>, z) = (a * w1 + b * w2 + c * w3 + d * w4) \div 1728
  BY <1>1, <1>2, <1>3 DEF Cubic
<1>5. a + b + c + d = 1728
  BY <1>1, <1>2, <1>3
<1>6. Weight1(z) = b + c + d /\ Weight2(z) = c + d /\ Weight3(z) = d
  BY <1>1, <1>2, <1>3 DEF Weight1, Weight2, Weight3
<1>7. a * p1 + b * p2 + c * p3 + d * p4
        = 1728 * p1 + (b + c + d) * (p2 - p1) + (c + d) * (p3 - p2) + d * (p4 - p3)
  <2>1. a = 1728 - b - c - d
    BY <1>5
  <2> QED BY <2>1
<1>8. Cubic(<<p1, p2, p3, p4>>, z) = (a * p1 + b * p2 + c * p3 + d * p4) \div 1728
  BY <1>4
<1> QED BY <1>6, <1>7, <1>8 DEF Weighed

\* The weights grow along the curve.
LEMMA WeightsGrow ==
  ASSUME NEW s \in 0 .. SAMPLES, NEW t \in 0 .. SAMPLES, s <= t
  PROVE  /\ Weight1(s) \in Int /\ Weight2(s) \in Int /\ Weight3(s) \in Int
         /\ Weight1(t) \in Int /\ Weight2(t) \in Int /\ Weight3(t) \in Int
         /\ Weight1(s) <= Weight1(t) /\ Weight2(s) <= Weight2(t) /\ Weight3(s) <= Weight3(t)
<1>1. s \in 0 .. 12 /\ t \in 0 .. 12
  BY DEF SAMPLES
<1>2. \A z \in Int : Weight1(z) \in Int /\ Weight2(z) \in Int /\ Weight3(z) \in Int
  BY DEF Weight1, Weight2, Weight3
<1>3. Weight1(s) <= Weight1(t)
  <2>1. PICK a \in Nat, b \in Nat : a = 12 - t /\ b = 12 - s /\ a <= b
    BY <1>1
  <2>2. a * a * a <= b * b * b
    BY <2>1
  <2> QED BY <2>1, <2>2 DEF Weight1
<1>4. Weight2(s) <= Weight2(t)
  <2>1. PICK h \in Nat : t = s + h /\ s + h <= 12
    BY <1>1
  <2>2. Weight2(t) - Weight2(s) = h * (72 * s - 6 * s * s) + h * h * (36 - 6 * s - 2 * h)
    BY <1>1, <2>1 DEF Weight2
  <2>3. h * (72 * s - 6 * s * s) + h * h * (36 - 6 * s - 2 * h) >= 0
    <3>1. s \in 0 .. 12 /\ h \in 0 .. 12
      BY <1>1, <2>1
    <3> QED BY <2>1, <3>1
  <2>4. PICK a \in Int, b \in Int : a = Weight2(s) /\ b = Weight2(t)
    BY <1>1, <1>2
  <2> QED BY <2>2, <2>3, <2>4
<1>5. Weight3(s) <= Weight3(t)
  BY <1>1 DEF Weight3
<1>6. s \in Int /\ t \in Int
  BY <1>1
<1> QED BY <1>2, <1>3, <1>4, <1>5, <1>6

\* The samples of a curve advance if its control points do.
LEMMA CubicAdvances ==
  ASSUME NEW s \in 0 .. SAMPLES, NEW t \in 0 .. SAMPLES, s <= t,
         NEW p1 \in Int, NEW p2 \in Int, NEW p3 \in Int, NEW p4 \in Int,
         p1 <= p2, p2 <= p3, p3 <= p4
  PROVE  Cubic(<<p1, p2, p3, p4>>, s) <= Cubic(<<p1, p2, p3, p4>>, t)
<1>1. PICK u1 \in Int, u2 \in Int, u3 \in Int, v1 \in Int, v2 \in Int, v3 \in Int :
        /\ u1 = Weight1(s) /\ u2 = Weight2(s) /\ u3 = Weight3(s)
        /\ v1 = Weight1(t) /\ v2 = Weight2(t) /\ v3 = Weight3(t)
        /\ u1 <= v1 /\ u2 <= v2 /\ u3 <= v3
  BY WeightsGrow
<1>2. /\ Cubic(<<p1, p2, p3, p4>>, s) = Weighed(p1, p2, p3, p4, u1, u2, u3)
      /\ Cubic(<<p1, p2, p3, p4>>, t) = Weighed(p1, p2, p3, p4, v1, v2, v3)
  BY <1>1, CubicWeights
<1>3. PICK f \in Nat, g \in Nat, h \in Nat : f = p2 - p1 /\ g = p3 - p2 /\ h = p4 - p3
  OBVIOUS
<1>4. PICK a1 \in Int, a2 \in Int, a3 \in Int, b1 \in Int, b2 \in Int, b3 \in Int :
        /\ a1 = u1 * f /\ a2 = u2 * g /\ a3 = u3 * h /\ b1 = v1 * f /\ b2 = v2 * g /\ b3 = v3 * h
        /\ a1 <= b1 /\ a2 <= b2 /\ a3 <= b3
  <2>1. \A u, v \in Int, w \in Nat : u <= v => u * w <= v * w /\ u * w \in Int /\ v * w \in Int
    OBVIOUS
  <2>2. /\ u1 * f <= v1 * f /\ u1 * f \in Int /\ v1 * f \in Int
        /\ u2 * g <= v2 * g /\ u2 * g \in Int /\ v2 * g \in Int
        /\ u3 * h <= v3 * h /\ u3 * h \in Int /\ v3 * h \in Int
    BY <1>1, <2>1
  <2> HIDE <2>1
  <2> QED BY <2>2
<1>5. /\ Weighed(p1, p2, p3, p4, u1, u2, u3) = (1728 * p1 + a1 + a2 + a3) \div 1728
      /\ Weighed(p1, p2, p3, p4, v1, v2, v3) = (1728 * p1 + b1 + b2 + b3) \div 1728
  BY <1>3, <1>4 DEF Weighed
<1>6. (1728 * p1 + a1 + a2 + a3) \div 1728 <= (1728 * p1 + b1 + b2 + b3) \div 1728
  BY <1>4
<1> QED BY <1>2, <1>5, <1>6

\* The samples of a curve climb if its control points do.
LEMMA CubicClimbs ==
  ASSUME NEW s \in 0 .. SAMPLES, NEW t \in 0 .. SAMPLES, s <= t,
         NEW p1 \in Int, NEW p2 \in Int, NEW p3 \in Int, NEW p4 \in Int,
         p1 >= p2, p2 >= p3, p3 >= p4
  PROVE  Cubic(<<p1, p2, p3, p4>>, t) <= Cubic(<<p1, p2, p3, p4>>, s)
<1>1. PICK u1 \in Int, u2 \in Int, u3 \in Int, v1 \in Int, v2 \in Int, v3 \in Int :
        /\ u1 = Weight1(s) /\ u2 = Weight2(s) /\ u3 = Weight3(s)
        /\ v1 = Weight1(t) /\ v2 = Weight2(t) /\ v3 = Weight3(t)
        /\ u1 <= v1 /\ u2 <= v2 /\ u3 <= v3
  BY WeightsGrow
<1>2. /\ Cubic(<<p1, p2, p3, p4>>, s) = Weighed(p1, p2, p3, p4, u1, u2, u3)
      /\ Cubic(<<p1, p2, p3, p4>>, t) = Weighed(p1, p2, p3, p4, v1, v2, v3)
  BY <1>1, CubicWeights
<1>3. PICK f \in Nat, g \in Nat, h \in Nat : f = p1 - p2 /\ g = p2 - p3 /\ h = p3 - p4
  OBVIOUS
<1>4. PICK a1 \in Int, a2 \in Int, a3 \in Int, b1 \in Int, b2 \in Int, b3 \in Int :
        /\ a1 = u1 * f /\ a2 = u2 * g /\ a3 = u3 * h /\ b1 = v1 * f /\ b2 = v2 * g /\ b3 = v3 * h
        /\ a1 <= b1 /\ a2 <= b2 /\ a3 <= b3
  <2>1. \A u, v \in Int, w \in Nat : u <= v => u * w <= v * w /\ u * w \in Int /\ v * w \in Int
    OBVIOUS
  <2>2. /\ u1 * f <= v1 * f /\ u1 * f \in Int /\ v1 * f \in Int
        /\ u2 * g <= v2 * g /\ u2 * g \in Int /\ v2 * g \in Int
        /\ u3 * h <= v3 * h /\ u3 * h \in Int /\ v3 * h \in Int
    BY <1>1, <2>1
  <2> HIDE <2>1
  <2> QED BY <2>2
<1>5. p2 - p1 = 0 - f /\ p3 - p2 = 0 - g /\ p4 - p3 = 0 - h
  BY <1>3
<1>6. \A u \in Int, w \in Nat : u * (0 - w) = 0 - u * w
  OBVIOUS
<1>7. /\ Weighed(p1, p2, p3, p4, u1, u2, u3) = (1728 * p1 - a1 - a2 - a3) \div 1728
      /\ Weighed(p1, p2, p3, p4, v1, v2, v3) = (1728 * p1 - b1 - b2 - b3) \div 1728
  BY <1>4, <1>5, <1>6 DEF Weighed
<1>8. (1728 * p1 - b1 - b2 - b3) \div 1728 <= (1728 * p1 - a1 - a2 - a3) \div 1728
  BY <1>4
<1> QED BY <1>2, <1>7, <1>8

\* No sample lies below the lowest control point.
LEMMA CubicAbove ==
  ASSUME NEW s \in 0 .. SAMPLES,
         NEW p1 \in Int, NEW p2 \in Int, NEW p3 \in Int, NEW p4 \in Int, NEW h \in Int,
         p1 <= h, p2 <= h, p3 <= h, p4 <= h
  PROVE  Cubic(<<p1, p2, p3, p4>>, s) <= h /\ Cubic(<<p1, p2, p3, p4>>, s) \in Int
<1>1. /\ Cubic(<<p1, p2, p3, p4>>, s) <= Cubic(<<h, h, h, h>>, s)
      /\ Cubic(<<p1, p2, p3, p4>>, s) \in Int
  BY CubicGrows
<1>2. Cubic(<<h, h, h, h>>, s) = h
  <2>1. PICK u1 \in Int, u2 \in Int, u3 \in Int :
          u1 = Weight1(s) /\ u2 = Weight2(s) /\ u3 = Weight3(s)
    BY WeightsGrow DEF SAMPLES
  <2>2. Cubic(<<h, h, h, h>>, s) = Weighed(h, h, h, h, u1, u2, u3)
    BY <2>1, CubicWeights
  <2>3. \A u \in Int : u * (h - h) = 0
    OBVIOUS
  <2>4. (1728 * h) \div 1728 = h
    OBVIOUS
  <2> QED BY <2>2, <2>3, <2>4 DEF Weighed
<1> QED BY <1>1, <1>2

\* A line seen from its other side, with the axes exchanged.
LEMMA SideMirrored ==
  ASSUME NEW px \in Int, NEW py \in Int, NEW qx \in Int, NEW qy \in Int,
         NEW ux \in Int, NEW uy \in Int
  PROVE  Side(<<px, py>>, <<qx, qy>>, <<ux, uy>>) = Side(<<qy, qx>>, <<py, px>>, <<uy, ux>>)
<1>1. (qx - px) * (uy - py) - (qy - py) * (ux - px) = (py - qy) * (ux - qx) - (px - qx) * (uy - qy)
  OBVIOUS
<1>2. PICK f \in Int : /\ f = (qx - px) * (uy - py) - (qy - py) * (ux - px)
                       /\ f = (py - qy) * (ux - qx) - (px - qx) * (uy - qy)
  BY <1>1
<1>3. Side(<<px, py>>, <<qx, qy>>, <<ux, uy>>) = IF f > 0 THEN 1 ELSE IF f < 0 THEN -1 ELSE 0
  BY <1>2 DEF Side
<1>4. Side(<<qy, qx>>, <<py, px>>, <<uy, ux>>) = IF f > 0 THEN 1 ELSE IF f < 0 THEN -1 ELSE 0
  BY <1>2 DEF Side
<1> QED BY <1>3, <1>4

\* Two climbing segments do not cross if one has ended below where the other
\* begins.
LEMMA BelowNoCross ==
  ASSUME NEW px \in Int, NEW py \in Int, NEW qx \in Int, NEW qy \in Int,
         NEW ux \in Int, NEW uy \in Int, NEW vx \in Int, NEW vy \in Int,
         qy <= py, py <= vy, vy <= uy
  PROVE  ~ SegmentsCross(<<px, py>>, <<qx, qy>>, <<ux, uy>>, <<vx, vy>>)
<1>1. ~ SegmentsCross(<<qy, qx>>, <<py, px>>, <<vy, vx>>, <<uy, ux>>)
  BY BehindNoCross
<1>2. /\ Side(<<px, py>>, <<qx, qy>>, <<ux, uy>>) = Side(<<qy, qx>>, <<py, px>>, <<uy, ux>>)
      /\ Side(<<px, py>>, <<qx, qy>>, <<vx, vy>>) = Side(<<qy, qx>>, <<py, px>>, <<vy, vx>>)
      /\ Side(<<ux, uy>>, <<vx, vy>>, <<px, py>>) = Side(<<vy, vx>>, <<uy, ux>>, <<py, px>>)
      /\ Side(<<ux, uy>>, <<vx, vy>>, <<qx, qy>>) = Side(<<vy, vx>>, <<uy, ux>>, <<qy, qx>>)
  <2>1. Side(<<px, py>>, <<qx, qy>>, <<ux, uy>>) = Side(<<qy, qx>>, <<py, px>>, <<uy, ux>>)
    BY SideMirrored
  <2>2. Side(<<px, py>>, <<qx, qy>>, <<vx, vy>>) = Side(<<qy, qx>>, <<py, px>>, <<vy, vx>>)
    BY SideMirrored
  <2>3. Side(<<ux, uy>>, <<vx, vy>>, <<px, py>>) = Side(<<vy, vx>>, <<uy, ux>>, <<py, px>>)
    BY SideMirrored
  <2>4. Side(<<ux, uy>>, <<vx, vy>>, <<qx, qy>>) = Side(<<vy, vx>>, <<uy, ux>>, <<qy, qx>>)
    BY SideMirrored
  <2> QED BY <2>1, <2>2, <2>3, <2>4
<1>3. \A p, q, u : Side(p, q, u) \in Int
  BY DEF Side
<1>4. \A a, b \in Int : a * b = b * a
  OBVIOUS
<1>5. PICK a \in Int, b \in Int, c \in Int, d \in Int :
        /\ a = Side(<<px, py>>, <<qx, qy>>, <<ux, uy>>) /\ b = Side(<<px, py>>, <<qx, qy>>, <<vx, vy>>)
        /\ c = Side(<<ux, uy>>, <<vx, vy>>, <<px, py>>) /\ d = Side(<<ux, uy>>, <<vx, vy>>, <<qx, qy>>)
  BY <1>3
<1>6. ~ (b * a < 0 /\ d * c < 0)
  BY <1>1, <1>2, <1>5 DEF SegmentsCross
<1>7. ~ (a * b < 0 /\ c * d < 0)
  BY <1>4, <1>6
<1> QED BY <1>5, <1>7 DEF SegmentsCross

\* A climbing segment is not crossed by one each of whose ends is to the right
\* of its own, and no higher.
LEMMA BesideNoCross ==
  ASSUME NEW px \in Int, NEW py \in Int, NEW qx \in Int, NEW qy \in Int,
         NEW ux \in Int, NEW uy \in Int, NEW vx \in Int, NEW vy \in Int,
         px <= qx, qy <= py, px <= ux, py <= uy, qx <= vx, qy <= vy
  PROVE  ~ SegmentsCross(<<px, py>>, <<qx, qy>>, <<ux, uy>>, <<vx, vy>>)
<1>1. PICK a \in Nat, b \in Nat, c \in Nat, d \in Nat, e \in Nat, f \in Nat :
        /\ a = qx - px /\ b = py - qy /\ c = ux - px /\ d = uy - py /\ e = vx - qx /\ f = vy - qy
  OBVIOUS
<1>2. (qx - px) * (uy - py) - (qy - py) * (ux - px) = a * d + b * c
  BY <1>1
<1>3. (qx - px) * (vy - py) - (qy - py) * (vx - px) = a * f + b * e
  <2>1. vy - py = f - b /\ vx - px = e + a /\ qy - py = - b
    BY <1>1
  <2>2. a * (f - b) - (- b) * (e + a) = a * f + b * e
    OBVIOUS
  <2> QED BY <1>1, <2>1, <2>2
<1>4. a * d + b * c >= 0 /\ a * f + b * e >= 0
  OBVIOUS
<1>5. ASSUME Side(<<px, py>>, <<qx, qy>>, <<ux, uy>>) * Side(<<px, py>>, <<qx, qy>>, <<vx, vy>>) < 0
      PROVE  FALSE
  <2>1. LET fu == (qx - px) * (uy - py) - (qy - py) * (ux - px)
            fv == (qx - px) * (vy - py) - (qy - py) * (vx - px)
        IN (fu < 0 /\ fv > 0) \/ (fu > 0 /\ fv < 0)
    BY <1>5, SideSigns
  <2> QED BY <1>2, <1>3, <1>4, <2>1
<1> QED BY <1>5 DEF SegmentsCross

\* How far down a cell of B the lane of row r passes, of m rows.
LaneAt(m, r) == ((2 * r + 1) * CELL) \div (2 * m)

\* A lane is inside its cell.
LEMMA LaneAtBounds ==
  ASSUME NEW m \in Nat \ {0}, NEW r \in 0 .. m - 1
  PROVE  LaneAt(m, r) \in Nat /\ LaneAt(m, r) < 1920
<1>1. PICK w \in Nat, x \in Nat : w = 2 * m /\ w > 0 /\ x = (2 * r + 1) * 1920 /\ x < 1920 * w
  OBVIOUS
<1>2. PICK a \in Nat : a = x \div w /\ a * w <= x
  BY <1>1
<1>3. ~ (a >= 1920)
  BY <1>1, <1>2
<1> QED BY <1>1, <1>2, <1>3 DEF LaneAt, CELL, PX

\* Each lane is below the one before if there are no more than CELL.
LEMMA LaneAtGrows ==
  ASSUME NEW m \in Nat \ {0}, m <= 1920, NEW q \in 0 .. m - 1, NEW r \in 0 .. m - 1, q < r
  PROVE  LaneAt(m, q) < LaneAt(m, r)
<1>1. PICK w \in Nat, x \in Nat, y \in Nat :
        w = 2 * m /\ w > 0 /\ x = (2 * q + 1) * 1920 /\ y = (2 * r + 1) * 1920 /\ x + w <= y
  OBVIOUS
<1>2. PICK a \in Nat, b \in Nat : a = x \div w /\ b = y \div w /\ a * w <= x /\ y < b * w + w
  BY <1>1
<1>3. ASSUME b <= a PROVE FALSE
  <2>1. b * w <= a * w
    BY <1>1, <1>3
  <2> QED BY <1>1, <1>2, <2>1
<1>4. LaneAt(m, q) = a /\ LaneAt(m, r) = b
  BY <1>1, <1>2 DEF LaneAt, CELL, PX
<1> QED BY <1>2, <1>3, <1>4

\* A fan from the vertical X1 to the vertical X2, downwards.
FanBetween(arrows, X1, X2, f) ==
  /\ DOMAIN arrows \subseteq Int /\ X1 + f <= X2 - f
  /\ \A n \in DOMAIN arrows : /\ arrows[n].x1 = X1 /\ arrows[n].x2 = X2 /\ FanStep(arrows[n]) = f
                              /\ arrows[n].y1 \in Int /\ arrows[n].y2 \in Int
  /\ \A n, m \in DOMAIN arrows : n < m =>
       arrows[n].y1 <= arrows[m].y1 /\ arrows[n].y2 <= arrows[m].y2

\* Such a fan is not crossed: its curves are sampled on common verticals.
LEMMA FanDrawn ==
  ASSUME NEW arrows, NEW X1 \in Int, NEW X2 \in Int, NEW f \in Nat, FanBetween(arrows, X1, X2, f)
  PROVE  Uncrossed(arrows)
<1>0. /\ DOMAIN arrows \subseteq Int /\ X1 + f <= X2 - f
      /\ \A n \in DOMAIN arrows : /\ arrows[n].x1 = X1 /\ arrows[n].x2 = X2 /\ FanStep(arrows[n]) = f
                                  /\ arrows[n].y1 \in Int /\ arrows[n].y2 \in Int
      /\ \A n, m \in DOMAIN arrows : n < m =>
           arrows[n].y1 <= arrows[m].y1 /\ arrows[n].y2 <= arrows[m].y2
  BY DEF FanBetween
<1>1. PICK g \in Int, h \in Int : g = X1 + f /\ h = X2 - f /\ X1 <= g /\ g <= h /\ h <= X2
  BY <1>0
<1>2. PICK X : X = [s \in 0 .. SAMPLES |-> Cubic(<<X1, g, h, X2>>, s)]
  OBVIOUS
<1>3. \A n \in DOMAIN arrows : FanControls(arrows[n]) = <<X1, g, h, X2>>
  BY <1>0, <1>1 DEF FanControls
<1>4. \A s \in 0 .. SAMPLES : X[s] \in Int
  <2>1. X1 <= X1 /\ X2 <= X2 /\ g <= g /\ h <= h
    OBVIOUS
  <2>2. \A s \in 0 .. SAMPLES : Cubic(<<X1, g, h, X2>>, s) \in Int
    BY <2>1, CubicGrows
  <2> QED BY <1>2, <2>2
<1>5. \A n \in DOMAIN arrows, s \in 0 .. SAMPLES : Cubic(FanControls(arrows[n]), s) = X[s]
  BY <1>2, <1>3
<1>6. \A s, t \in 0 .. SAMPLES : s <= t => X[s] <= X[t]
  BY <1>1, <1>2, CubicAdvances
<1> QED BY <1>0, <1>4, <1>5, <1>6, FanUncrossed

\* A fan that climbs to the right, each arrow to the right of the one before
\* and no higher.
ClimbingFan(arrows, f) ==
  /\ DOMAIN arrows \subseteq Int
  /\ \A n \in DOMAIN arrows :
       /\ arrows[n].x1 \in Int /\ arrows[n].x2 \in Int /\ arrows[n].y1 \in Int /\ arrows[n].y2 \in Int
       /\ FanStep(arrows[n]) = f /\ arrows[n].x1 + f <= arrows[n].x2 - f
       /\ arrows[n].y2 <= arrows[n].y1
  /\ \A n, m \in DOMAIN arrows : n < m =>
       /\ arrows[n].x1 <= arrows[m].x1 /\ arrows[n].x2 <= arrows[m].x2
       /\ arrows[n].y1 <= arrows[m].y1 /\ arrows[n].y2 <= arrows[m].y2

\* Where the samples of an arrow of such a fan are.
LEMMA ClimbingSamples ==
  ASSUME NEW arrows, NEW f \in Nat, ClimbingFan(arrows, f), NEW n \in DOMAIN arrows
  PROVE  \E X, Y : /\ \A s \in 0 .. SAMPLES : Curve(arrows[n])[s] = <<X[s], Y[s]>>
                   /\ \A s \in 0 .. SAMPLES : X[s] \in Int /\ Y[s] \in Int
                   /\ \A s \in 0 .. SAMPLES : X[s] = Cubic(FanControls(arrows[n]), s)
                   /\ \A s \in 0 .. SAMPLES : Y[s] = Cubic(FanClimb(arrows[n]), s)
                   /\ \A s, t \in 0 .. SAMPLES : s <= t => X[s] <= X[t] /\ Y[t] <= Y[s]
<1>1. PICK x1 \in Int, x2 \in Int, y1 \in Int, y2 \in Int :
        /\ x1 = arrows[n].x1 /\ x2 = arrows[n].x2 /\ y1 = arrows[n].y1 /\ y2 = arrows[n].y2
        /\ FanStep(arrows[n]) = f /\ x1 + f <= x2 - f /\ y2 <= y1
  BY DEF ClimbingFan
<1>2. PICK g \in Int, h \in Int, c \in Int :
        /\ g = x1 + f /\ h = x2 - f /\ x1 <= g /\ g <= h /\ h <= x2
        /\ c = y1 + ((y2 - y1) * 3) \div 4 /\ c <= y1 /\ y2 <= c
  <2>1. PICK e \in Int : e = ((y2 - y1) * 3) \div 4 /\ e <= 0 /\ y2 - y1 <= e
    <3>1. PICK d \in Nat : y2 - y1 = 0 - d
      BY <1>1
    <3>2. ((0 - d) * 3) \div 4 <= 0 /\ 0 - d <= ((0 - d) * 3) \div 4 /\ ((0 - d) * 3) \div 4 \in Int
      OBVIOUS
    <3> QED BY <3>1, <3>2
  <2> QED BY <1>1, <2>1
<1>3. FanControls(arrows[n]) = <<x1, g, h, x2>> /\ FanClimb(arrows[n]) = <<y1, c, y2, y2>>
  BY <1>1, <1>2 DEF FanControls, FanClimb
<1>4. PICK X, Y : /\ X = [s \in 0 .. SAMPLES |-> Cubic(<<x1, g, h, x2>>, s)]
                  /\ Y = [s \in 0 .. SAMPLES |-> Cubic(<<y1, c, y2, y2>>, s)]
  OBVIOUS
<1>5. \A s \in 0 .. SAMPLES : Curve(arrows[n])[s] = <<X[s], Y[s]>>
  BY <1>3, <1>4 DEF Curve
<1>6. \A s \in 0 .. SAMPLES : X[s] \in Int /\ Y[s] \in Int
  <2>1. \A s \in 0 .. SAMPLES : Cubic(<<x1, g, h, x2>>, s) \in Int
    <3>1. x1 <= x1 /\ g <= g /\ h <= h /\ x2 <= x2
      OBVIOUS
    <3> QED BY <3>1, CubicGrows
  <2>2. \A s \in 0 .. SAMPLES : Cubic(<<y1, c, y2, y2>>, s) \in Int
    <3>1. y1 <= y1 /\ c <= c /\ y2 <= y2
      OBVIOUS
    <3> QED BY <3>1, CubicGrows
  <2> QED BY <1>4, <2>1, <2>2
<1>7. \A s, t \in 0 .. SAMPLES : s <= t => X[s] <= X[t]
  BY <1>2, <1>4, CubicAdvances
<1>8. \A s, t \in 0 .. SAMPLES : s <= t => Y[t] <= Y[s]
  <2>1. y1 >= c /\ c >= y2 /\ y2 >= y2
    BY <1>2
  <2> QED BY <1>4, <2>1, CubicClimbs
<1>9. \A s \in 0 .. SAMPLES : X[s] = Cubic(FanControls(arrows[n]), s) /\ Y[s] = Cubic(FanClimb(arrows[n]), s)
  BY <1>3, <1>4
<1> QED BY <1>5, <1>6, <1>7, <1>8, <1>9

\* Each of its arrows has the samples of the next to the right and no higher.
LEMMA ClimbingOrder ==
  ASSUME NEW arrows, NEW f \in Nat, ClimbingFan(arrows, f),
         NEW n \in DOMAIN arrows, NEW m \in DOMAIN arrows, n < m, NEW s \in 0 .. SAMPLES
  PROVE  /\ Cubic(FanControls(arrows[n]), s) <= Cubic(FanControls(arrows[m]), s)
         /\ Cubic(FanClimb(arrows[n]), s) <= Cubic(FanClimb(arrows[m]), s)
<1>1. PICK a1 \in Int, a2 \in Int, b1 \in Int, b2 \in Int :
        /\ a1 = arrows[n].x1 /\ a2 = arrows[n].x2 /\ b1 = arrows[n].y1 /\ b2 = arrows[n].y2
        /\ FanStep(arrows[n]) = f
  BY DEF ClimbingFan
<1>2. PICK c1 \in Int, c2 \in Int, d1 \in Int, d2 \in Int :
        /\ c1 = arrows[m].x1 /\ c2 = arrows[m].x2 /\ d1 = arrows[m].y1 /\ d2 = arrows[m].y2
        /\ FanStep(arrows[m]) = f
  BY DEF ClimbingFan
<1>3. a1 <= c1 /\ a2 <= c2 /\ b1 <= d1 /\ b2 <= d2
  BY <1>1, <1>2 DEF ClimbingFan
<1>4. PICK g1 \in Int, g2 \in Int, h1 \in Int, h2 \in Int, e1 \in Int, e2 \in Int :
        /\ g1 = a1 + f /\ h1 = a2 - f /\ e1 = b1 + ((b2 - b1) * 3) \div 4
        /\ g2 = c1 + f /\ h2 = c2 - f /\ e2 = d1 + ((d2 - d1) * 3) \div 4
        /\ g1 <= g2 /\ h1 <= h2 /\ e1 <= e2
  BY <1>3
<1>5. /\ FanControls(arrows[n]) = <<a1, g1, h1, a2>> /\ FanClimb(arrows[n]) = <<b1, e1, b2, b2>>
      /\ FanControls(arrows[m]) = <<c1, g2, h2, c2>> /\ FanClimb(arrows[m]) = <<d1, e2, d2, d2>>
  BY <1>1, <1>2, <1>4 DEF FanControls, FanClimb
<1>6. Cubic(<<a1, g1, h1, a2>>, s) <= Cubic(<<c1, g2, h2, c2>>, s)
  BY <1>3, <1>4, CubicGrows
<1>7. Cubic(<<b1, e1, b2, b2>>, s) <= Cubic(<<d1, e2, d2, d2>>, s)
  BY <1>3, <1>4, CubicGrows
<1> QED BY <1>5, <1>6, <1>7

\* No two of its arrows cross.
LEMMA ClimbingUncrossed ==
  ASSUME NEW arrows, NEW f \in Nat, ClimbingFan(arrows, f)
  PROVE  Uncrossed(arrows)
<1> SUFFICES ASSUME NEW n \in DOMAIN arrows, NEW m \in DOMAIN arrows, n < m,
                    NEW s \in 0 .. SAMPLES - 1, NEW t \in 0 .. SAMPLES - 1
             PROVE  ~ SegmentsCross(Curve(arrows[n])[s], Curve(arrows[n])[s + 1],
                                    Curve(arrows[m])[t], Curve(arrows[m])[t + 1])
  BY DEF Uncrossed, CurvesCross
<1>1. /\ s \in 0 .. SAMPLES /\ s + 1 \in 0 .. SAMPLES /\ t \in 0 .. SAMPLES /\ t + 1 \in 0 .. SAMPLES
      /\ s <= s + 1 /\ t <= t + 1
  BY DEF SAMPLES
<1>2. PICK X, Y : /\ \A z \in 0 .. SAMPLES : Curve(arrows[n])[z] = <<X[z], Y[z]>>
                  /\ \A z \in 0 .. SAMPLES : X[z] \in Int /\ Y[z] \in Int
                  /\ \A z \in 0 .. SAMPLES : X[z] = Cubic(FanControls(arrows[n]), z)
                  /\ \A z \in 0 .. SAMPLES : Y[z] = Cubic(FanClimb(arrows[n]), z)
                  /\ \A z, w \in 0 .. SAMPLES : z <= w => X[z] <= X[w] /\ Y[w] <= Y[z]
  BY ClimbingSamples
<1>3. PICK U, V : /\ \A z \in 0 .. SAMPLES : Curve(arrows[m])[z] = <<U[z], V[z]>>
                  /\ \A z \in 0 .. SAMPLES : U[z] \in Int /\ V[z] \in Int
                  /\ \A z \in 0 .. SAMPLES : U[z] = Cubic(FanControls(arrows[m]), z)
                  /\ \A z \in 0 .. SAMPLES : V[z] = Cubic(FanClimb(arrows[m]), z)
                  /\ \A z, w \in 0 .. SAMPLES : z <= w => U[z] <= U[w] /\ V[w] <= V[z]
  BY ClimbingSamples
<1>4. \A z \in 0 .. SAMPLES : X[z] <= U[z] /\ Y[z] <= V[z]
  BY <1>2, <1>3, ClimbingOrder
<1>5. PICK px \in Int, py \in Int, qx \in Int, qy \in Int :
        /\ px = X[s] /\ py = Y[s] /\ qx = X[s + 1] /\ qy = Y[s + 1] /\ px <= qx /\ qy <= py
  BY <1>1, <1>2
<1>6. PICK ux \in Int, uy \in Int, vx \in Int, vy \in Int :
        /\ ux = U[t] /\ uy = V[t] /\ vx = U[t + 1] /\ vy = V[t + 1] /\ ux <= vx /\ vy <= uy
  BY <1>1, <1>3
<1>7. /\ Curve(arrows[n])[s] = <<px, py>> /\ Curve(arrows[n])[s + 1] = <<qx, qy>>
      /\ Curve(arrows[m])[t] = <<ux, uy>> /\ Curve(arrows[m])[t + 1] = <<vx, vy>>
  BY <1>1, <1>2, <1>3, <1>5, <1>6
<1>8. ~ SegmentsCross(<<px, py>>, <<qx, qy>>, <<ux, uy>>, <<vx, vy>>)
  <2>1. CASE s < t
    <3>1. s + 1 <= t
      BY <2>1
    <3>2. X[s + 1] <= X[t] /\ X[t] <= U[t] /\ X[t] \in Int
      BY <1>1, <1>2, <1>4, <3>1
    <3>3. qx <= ux
      BY <1>5, <1>6, <3>2
    <3> QED BY <1>5, <1>6, <3>3, BehindNoCross
  <2>2. CASE t < s
    <3>1. t + 1 <= s
      BY <2>2
    <3>2. V[s] <= V[t + 1] /\ Y[s] <= V[s] /\ V[s] \in Int
      BY <1>1, <1>3, <1>4, <3>1
    <3>3. py <= vy
      BY <1>5, <1>6, <3>2
    <3> QED BY <1>5, <1>6, <3>3, BelowNoCross
  <2>3. CASE s = t
    <3>1. px <= ux /\ py <= uy /\ qx <= vx /\ qy <= vy
      BY <1>1, <1>4, <1>5, <1>6, <2>3
    <3> QED BY <1>5, <3>1, BesideNoCross
  <2> QED BY <2>1, <2>2, <2>3
<1> QED BY <1>7, <1>8
=============================================================================
