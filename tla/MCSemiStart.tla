----------------------------- MODULE MCSemiStart -----------------------------
\* The boot code on images whose sections are one word or a few words long,
\* with a heap that malloc can exhaust, shrink and fill again.
EXTENDS SemiStart

MCLayouts ==
  {[data |-> d, bss |-> b, heap |-> h, stack |-> 2] :
     d \in 1 .. 3, b \in 1 .. 3, h \in {0, 3}}

\* Small requests, one larger than any heap, one near half the address space.
MCIncrements == {-2, -1, 0, 1, 2, 3, 6, 11}
=============================================================================
