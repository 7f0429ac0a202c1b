---------------------------- MODULE MCBlockedGemm ----------------------------
\* opt_gemm_blocked on small shapes; a block of 3 rows stands for the 16.
EXTENDS BlockedDrawing

Shape(m, n, k, pad) ==
  [m |-> m, n |-> n, k |-> k, lda |-> k + pad, ldb |-> n + pad, ldc |-> n + pad]

MCShapes == {Shape(3, n, k, pad) : n \in 0 .. 5, k \in 0 .. 4, pad \in 0 .. 1}
=============================================================================
