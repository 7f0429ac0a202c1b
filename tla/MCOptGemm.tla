------------------------------ MODULE MCOptGemm ------------------------------
\* opt_gemm with its eight accumulators on small shapes: k below, at and above
\* the unroll factor with every remainder, n below, at and above the vector
\* length, rows with and without padding.
EXTENDS OptDrawing

Shape(m, n, k, pad) ==
  [m |-> m, n |-> n, k |-> k, lda |-> k + pad, ldb |-> n + pad, ldc |-> n + pad]

MCShapes ==
  {Shape(m, n, k, pad) : m \in 1 .. 2, n \in 0 .. 4, k \in 0 .. 17, pad \in 0 .. 1}
=============================================================================
