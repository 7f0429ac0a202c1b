----------------------------- MODULE BlockedGemm -----------------------------
(***************************************************************************)
(* opt_gemm_blocked of src/src/gemm.c: per tile of vl columns, one vector  *)
(* accumulator for each of the BLOCK rows of C; each row of B is loaded    *)
(* once and used by all of them.  The body never looks at m: it is written *)
(* out for 16 rows, and an #error keeps M from being anything else.        *)
(***************************************************************************)
EXTENDS GemmValues

CONSTANTS VLMAX,    \* __riscv_vsetvlmax_e16m1() or _e64m1()
          BLOCK     \* the rows the body is written out for (16)

\* #if M != 16 #error
ASSUME BlockAssumption == /\ VLMAX \in Nat \ {0}
                          /\ BLOCK \in Nat \ {0}
                          /\ \A s \in Shapes : s.m = BLOCK

VARIABLES call, pc,   \* pc is "tile", "reduce" or "done"
          j, l,
          vl,         \* columns of the tile
          vc,         \* vc[r][t]: the chain in lane t of row r's accumulator
          C,          \* chain of each cell
          bLoads      \* how often each B[y] has been loaded

vars == <<call, pc, j, l, vl, vc, C, bLoads>>

BlockRows == 0 .. BLOCK - 1
Lanes == 0 .. vl - 1

\* size_t vl = (n - j) >= vlmax ? vlmax : vsetvl(n - j), where vsetvl(avl)
\* is avl for an avl up to VLMAX.
TileVl(avl) == IF avl >= VLMAX THEN VLMAX ELSE avl

Init ==
  /\ call \in Shapes
  /\ pc = "tile"
  /\ j = 0 /\ l = 0 /\ vl = 0
  /\ vc = [r \in BlockRows |-> <<>>]
  /\ C = [x \in CAddr(call) |-> <<Old(x)>>]
  /\ bLoads = [y \in BAddr(call) |-> 0]

\* Mutant: beta is forgotten.
TileEnterUnscaled ==
  /\ pc = "tile" /\ j < call.n
  /\ vl' = TileVl(call.n - j)
  /\ vc' = [r \in BlockRows |-> [t \in 0 .. vl' - 1 |-> C[At(r, call.ldc, j + t)]]]
  /\ l' = 0
  /\ pc' = "reduce"
  /\ UNCHANGED <<call, j, C, bLoads>>

\* vc0 .. vc15 = beta * C[r * ldc + j ...]
TileEnter ==
  /\ pc = "tile" /\ j < call.n
  /\ vl' = TileVl(call.n - j)
  /\ vc' = [r \in BlockRows |-> [t \in 0 .. vl' - 1 |->
               Append(C[At(r, call.ldc, j + t)], Beta)]]
  /\ l' = 0
  /\ pc' = "reduce"
  /\ UNCHANGED <<call, j, C, bLoads>>

\* Mutants: every row multiplies by A[0, l]; every row loads B for itself.
AccumulateRow0 ==
  /\ pc = "reduce" /\ l < call.k
  /\ vc' = [r \in BlockRows |-> [t \in Lanes |->
               Append(vc[r][t], Prod(At(0, call.lda, l), At(l, call.ldb, j + t)))]]
  /\ bLoads' = [y \in BAddr(call) |->
                  IF y \in {At(l, call.ldb, j + t) : t \in Lanes}
                  THEN bLoads[y] + 1 ELSE bLoads[y]]
  /\ l' = l + 1
  /\ UNCHANGED <<call, pc, j, vl, C>>

AccumulateReloads ==
  /\ pc = "reduce" /\ l < call.k
  /\ vc' = [r \in BlockRows |-> [t \in Lanes |->
               Append(vc[r][t], Prod(At(r, call.lda, l), At(l, call.ldb, j + t)))]]
  /\ bLoads' = [y \in BAddr(call) |->
                  IF y \in {At(l, call.ldb, j + t) : t \in Lanes}
                  THEN bLoads[y] + BLOCK ELSE bLoads[y]]
  /\ l' = l + 1
  /\ UNCHANGED <<call, pc, j, vl, C>>

\* for (int l = 0; l < k; ++l): load B[l, j ...] once, update every row
Accumulate ==
  /\ pc = "reduce" /\ l < call.k
  /\ vc' = [r \in BlockRows |-> [t \in Lanes |->
               Append(vc[r][t], Prod(At(r, call.lda, l), At(l, call.ldb, j + t)))]]
  /\ bLoads' = [y \in BAddr(call) |->
                  IF y \in {At(l, call.ldb, j + t) : t \in Lanes}
                  THEN bLoads[y] + 1 ELSE bLoads[y]]
  /\ l' = l + 1
  /\ UNCHANGED <<call, pc, j, vl, C>>

\* Mutant: the rows of C are taken to be n cells long.
StoreDense(r, t) == At(r, call.n, j + t)

\* The 16 stores, and j += vl.
Store(r, t) == At(r, call.ldc, j + t)

TileStore ==
  /\ pc = "reduce" /\ l >= call.k
  /\ C' = [x \in CAddr(call) |->
             IF \E r \in BlockRows, t \in Lanes : x = Store(r, t)
             THEN LET p == CHOOSE p \in BlockRows \X Lanes : x = Store(p[1], p[2])
                  IN  vc[p[1]][p[2]]
             ELSE C[x]]
  /\ j' = j + vl
  /\ pc' = "tile"
  /\ UNCHANGED <<call, l, vl, vc, bLoads>>

TileExit ==
  /\ pc = "tile" /\ j >= call.n
  /\ pc' = "done"
  /\ UNCHANGED <<call, j, l, vl, vc, C, bLoads>>

Next == TileEnter \/ Accumulate \/ TileStore \/ TileExit

Spec == Init /\ [][Next]_vars /\ WF_vars(Next)

-----------------------------------------------------------------------------
\* Type invariant.
TypeOK ==
  /\ call \in Shapes
  /\ pc \in {"tile", "reduce", "done"}
  /\ j \in 0 .. call.n
  /\ l \in 0 .. call.k
  /\ vl \in 0 .. VLMAX
  /\ DOMAIN vc = BlockRows /\ \A r \in BlockRows : DOMAIN vc[r] = Lanes
  /\ DOMAIN C = CAddr(call)
  /\ bLoads \in [BAddr(call) -> Nat]

\* Throughout a tile (gemm.c:292-343), which is never empty, all 16
\* accumulators have advanced by
\* the same l products, each with the row of A and the columns of B that
\* belong to it.
LaneInv ==
  pc = "reduce" =>
    /\ 0 < vl /\ j + vl <= call.n
    /\ \A r \in BlockRows, t \in Lanes :
         vc[r][t] = SubSeq(Reference(call, r, j + t), 1, l + 2)

\* The columns left of j are final and those from j on are untouched, in all
\* rows at once; the padding between rows keeps its content.
ColumnInv ==
  /\ \A r \in BlockRows, c \in Cols(call) :
       C[At(r, call.ldc, c)] =
         IF c < j THEN Reference(call, r, c) ELSE <<Old(At(r, call.ldc, c))>>
  /\ \A x \in CAddr(call) \ Block(call) : C[x] = <<Old(x)>>

\* The inductive invariant the proofs use.
IndInv == TypeOK /\ LaneInv /\ ColumnInv /\ (pc = "done" => j = call.n)

\* When opt_gemm_blocked returns, C is not only the right sum: every cell is
\* computed in the very order of scalar_gemm, so that with the same contraction
\* of multiply and add the two are equal bit for bit.
Correct ==
  pc = "done" => \A r \in Rows(call), c \in Cols(call) :
                   C[At(r, call.ldc, c)] = Reference(call, r, c)

\* "B[l,:] is loaded exactly once per l and reused across all 16 rows'
\* accumulators" (gemm.c:259): at any time the elements of B in the columns
\* done have been loaded once, those of later columns never.
LoadedOnce ==
  \A p \in 0 .. call.k - 1, c \in 0 .. call.ldb - 1 :
    bLoads[At(p, call.ldb, c)] =
      IF c < j \/ (pc = "reduce" /\ c < j + vl /\ p < l) THEN 1 ELSE 0

\* opt_gemm_blocked (gemm.c:284-435) implements the contract of a GEMM kernel.
Contract == INSTANCE GemmContract
              WITH returned <- (pc = "done"),
                   C <- [x \in CAddr(call) |-> [q \in {0} |-> C[x]]]
ImplementsContract == Contract!Spec
=============================================================================
