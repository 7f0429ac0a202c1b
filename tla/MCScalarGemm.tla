---------------------------- MODULE MCScalarGemm ----------------------------
\* scalar_gemm on small shapes: as main() calls it (lda = k, ldb = ldc = n),
\* with padded rows, and with an empty or single-element extent.
EXTENDS ScalarGemm

Shape(m, n, k, pad) ==
  [m |-> m, n |-> n, k |-> k, lda |-> k + pad, ldb |-> n + pad, ldc |-> n + pad]

MCShapes == {Shape(m, n, k, pad) : m \in 1 .. 3, n \in 0 .. 3, k \in 0 .. 3, pad \in 0 .. 1}
=============================================================================
