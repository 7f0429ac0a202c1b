----------------------------- MODULE MCPipeview -----------------------------
\* Every in-order configuration and its knobs on short streams of vfmacc and on
\* scalar and vector instructions in turn; the O3 core on calls of a kernel at
\* the addresses 4 to 9, from a caller at 1 and 2, with mispredictions.
EXTENDS Pipeview

I(pc, dis, reg) == [pc |-> pc, dis |-> dis, reg |-> reg]

InOrder ==
  {TimingSimple}
  \cup {Minor(n, lat, limit, 2) : n \in {1, 2}, lat \in {1, 2, 4, 6}, limit \in {1, 4}}
  \cup {Superscalar(dlen, lat, 6) :
          dlen \in {d \in {128, 256, 300, 512} : Accepted(d)}, lat \in {2, 4, 6}}

OutOfOrder == {O3(lat, degree) : lat \in {1, 5}, degree \in {0, 2}}

StreamOf(n, chains) == [k \in 1 .. n |-> I(0, "vfmacc_vv", 1 + ((k - 1) % chains))]
Streams == {StreamOf(5, 1), StreamOf(6, 2), StreamOf(6, 4)}
Mixed ==
  {<<I(0, "vsetvli", 0), I(0, "vfmacc_vv", 1), I(0, "fmadd_d", 2), I(0, "vfmacc_vv", 3),
     I(0, "vsetvli", 0), I(0, "fmadd_d", 2)>>,
   <<I(0, "vfmacc_vv", 1), I(0, "vfmacc_vv", 2), I(0, "fmadd_d", 3), I(0, "vfmacc_vv", 1),
     I(0, "fmadd_d", 1), I(0, "addi", 0)>>}

\* Two calls of a kernel of two lines, from a caller in another; three calls in
\* a row.
Calls ==
  <<I(1, "addi", 0), I(4, "vsetvli", 0), I(5, "vle64_v", 1), I(8, "vfmacc_vv", 1), I(9, "bltu", 0),
    I(1, "addi", 0), I(4, "vsetvli", 0), I(8, "vfmacc_vv", 1)>>
Three ==
  <<I(4, "fld", 1), I(5, "vle64_v", 1), I(6, "ret", 0), I(4, "fld", 1), I(6, "ret", 0),
    I(4, "fld", 1)>>

MCRuns ==
  {[core |-> c, prog |-> p] : c \in InOrder, p \in Streams \cup Mixed}
  \cup {[core |-> c, prog |-> p] : c \in OutOfOrder, p \in Streams}
  \cup {[core |-> c, prog |-> Calls] : c \in {O3(5, 0), O3(1, 2)}}
  \cup {[core |-> O3(1, 0), prog |-> Three]}

MCSymbols == [opt_gemm |-> [addr |-> 4, size |-> 6]]
=============================================================================
