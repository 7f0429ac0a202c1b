----------------------------- MODULE GemmValues -----------------------------
(***************************************************************************)
(* What the three kernels of src/src/gemm.c share: the shapes they are     *)
(* called with, the flat addressing of the matrices, and symbolic values.  *)
(*                                                                         *)
(* Floating point is not associative, so a value is not a number here but  *)
(* the way it was computed: a "chain" is the sequence of operations        *)
(* applied, in order, to one accumulator (a memory cell or one lane of a   *)
(* vector register), and a "sum" is a family of chains added at the end.   *)
(* Two equal chains round identically; two sums with the same operations   *)
(* agree up to the order of the additions.                                 *)
(***************************************************************************)
EXTENDS Integers, Sequences

CONSTANT Shapes     \* the argument lists (m, n, k, lda, ldb, ldc) of the calls

\* main() passes lda = K, ldb = N and ldc = N; the kernels need only that a
\* row of the block fits in a row of its array.
ASSUME ShapesAssumption ==
  /\ Shapes \subseteq [m : Nat, n : Nat, k : Nat, lda : Nat, ldb : Nat, ldc : Nat]
  /\ \A s \in Shapes : s.k <= s.lda /\ s.n <= s.ldb /\ s.n <= s.ldc

-----------------------------------------------------------------------------
\* X[r * ld + c]
At(r, ld, c) == r * ld + c

Rows(s) == 0 .. s.m - 1
Cols(s) == 0 .. s.n - 1

AAddr(s) == 0 .. s.m * s.lda - 1
BAddr(s) == 0 .. s.k * s.ldb - 1
CAddr(s) == 0 .. s.m * s.ldc - 1

\* The cells of C a call is to compute; the rest of CAddr is padding.
Block(s) == {At(r, s.ldc, c) : r \in Rows(s), c \in Cols(s)}

-----------------------------------------------------------------------------
\* The operations of a chain: start from the old content of C[x] or from 0,
\* multiply by beta, add (alpha * A[a]) * B[b].
Old(x)     == <<"old", x>>
Zero       == <<"zero">>
Beta       == <<"beta">>
Prod(a, b) == <<"prod", a, b>>

\* What scalar_gemm's loops are meant to leave in C[r * ldc + c]: the old
\* content scaled, then the k products in the order of l.
Reference(s, r, c) ==
  [x \in 1 .. s.k + 2 |->
     IF x = 1 THEN Old(At(r, s.ldc, c))
     ELSE IF x = 2 THEN Beta
     ELSE Prod(At(r, s.lda, x - 3), At(x - 3, s.ldb, c))]

\* The operations of a sum, each with its place.
Places(v) == UNION {{<<q, x>> : x \in DOMAIN v[q]} : q \in DOMAIN v}

\* The sum v has each operation of the chain ref exactly once, scales the
\* old content and nothing else, and adds nothing but zeros to it.
SumsTo(v, ref) ==
  /\ \A y \in DOMAIN ref : \E p \in Places(v) : v[p[1]][p[2]] = ref[y]
  /\ \A p \in Places(v) :
       \/ v[p[1]][p[2]] = Zero
       \/ \E y \in DOMAIN ref : v[p[1]][p[2]] = ref[y]
  /\ \A p1, p2 \in Places(v) :
       v[p1[1]][p1[2]] = v[p2[1]][p2[2]] => p1 = p2 \/ v[p1[1]][p1[2]] = Zero
  /\ \E q \in DOMAIN v : SubSeq(v[q], 1, 2) = SubSeq(ref, 1, 2)
=============================================================================
