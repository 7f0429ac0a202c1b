------------------------------- MODULE OptGemm -------------------------------
(***************************************************************************)
(* opt_gemm of src/src/gemm.c: per row and per tile of vl columns, the     *)
(* l-reduction runs in CHAINS vector accumulators vc0, vc1, ... which are  *)
(* added up and stored once.  One action per loop iteration; the vector    *)
(* instructions of an iteration touch nothing another iteration could see  *)
(* half done.  The fp16 and the fp64 bodies differ in VLMAX only.          *)
(***************************************************************************)
EXTENDS GemmValues, FiniteSets

CONSTANTS VLMAX,    \* __riscv_vsetvlmax_e16m1() or _e64m1()
          CHAINS,   \* the accumulators the body is written out for (8)
          UNROLL    \* OPT_GEMM_UNROLL, the stride of the main loop

\* The macro looks free to choose (#ifndef), but the body handles CHAINS
\* products at a time: with another stride it adds products twice or never.
ASSUME VectorAssumption ==
  VLMAX \in Nat \ {0} /\ CHAINS \in Nat \ {0} /\ UNROLL = CHAINS

VARIABLES call, pc,   \* pc is "row", "tile", "reduce" or "done"
          i, j, l,
          vl,         \* columns of the tile
          vc,         \* vc[q][t]: the chain in lane t of accumulator q
          C,          \* the sum in each cell
          bLoads,     \* how often each B[y] has been loaded
          cMoves      \* how often each C[x] has been loaded or stored

vars == <<call, pc, i, j, l, vl, vc, C, bLoads, cMoves>>

Chains == 0 .. CHAINS - 1
Lanes  == 0 .. vl - 1
Tile(ld, r) == {At(r, ld, j + t) : t \in Lanes}

\* size_t vl = (n - j) >= vlmax ? vlmax : vsetvl(n - j), where vsetvl(avl)
\* is avl for an avl up to VLMAX.
TileVl(avl) == IF avl >= VLMAX THEN VLMAX ELSE avl

\* Loading a cell continues its chain; a cell that holds a sum of several
\* chains is loaded as one opaque operand.
Fetch(x) == IF Cardinality(DOMAIN C[x]) = 1 THEN C[x][0] ELSE <<C[x]>>

Bump(f, S) == [x \in DOMAIN f |-> IF x \in S THEN f[x] + 1 ELSE f[x]]

Init ==
  /\ call \in Shapes
  /\ pc = "row"
  /\ i = 0 /\ j = 0 /\ l = 0 /\ vl = 0
  /\ vc = [q \in Chains |-> <<>>]
  /\ C = [x \in CAddr(call) |-> [q \in {0} |-> <<Old(x)>>]]
  /\ bLoads = [y \in BAddr(call) |-> 0]
  /\ cMoves = [x \in CAddr(call) |-> 0]

\* for (int i = 0; i < m; ++i)
RowEnter ==
  /\ pc = "row" /\ i < call.m
  /\ pc' = "tile" /\ j' = 0
  /\ UNCHANGED <<call, i, l, vl, vc, C, bLoads, cMoves>>

RowExit ==
  /\ pc = "row" /\ i >= call.m
  /\ pc' = "done"
  /\ UNCHANGED <<call, i, j, l, vl, vc, C, bLoads, cMoves>>

\* Mutant: j <= n.
TileEnterClosed ==
  /\ pc = "tile" /\ j <= call.n
  /\ vl' = TileVl(call.n - j)
  /\ vc' = [q \in Chains |-> [t \in 0 .. vl' - 1 |->
              IF q = 0 THEN Append(Fetch(At(i, call.ldc, j + t)), Beta)
              ELSE <<Zero>>]]
  /\ cMoves' = Bump(cMoves, {At(i, call.ldc, j + t) : t \in 0 .. vl' - 1})
  /\ l' = 0
  /\ pc' = "reduce"
  /\ UNCHANGED <<call, i, j, C, bLoads>>

\* vc0 = beta * C[i * ldc + j ...], the other accumulators start from 0.
TileEnter ==
  /\ pc = "tile" /\ j < call.n
  /\ vl' = TileVl(call.n - j)
  /\ vc' = [q \in Chains |-> [t \in 0 .. vl' - 1 |->
              IF q = 0 THEN Append(Fetch(At(i, call.ldc, j + t)), Beta)
              ELSE <<Zero>>]]
  /\ cMoves' = Bump(cMoves, {At(i, call.ldc, j + t) : t \in 0 .. vl' - 1})
  /\ l' = 0
  /\ pc' = "reduce"
  /\ UNCHANGED <<call, i, j, C, bLoads>>

TileExit ==
  /\ pc = "tile" /\ j >= call.n
  /\ pc' = "row" /\ i' = i + 1
  /\ UNCHANGED <<call, j, l, vl, vc, C, bLoads, cMoves>>

\* Mutant: A[i, l] in every accumulator.
FmaccSameA(q, p) ==
  [t \in Lanes |-> Append(vc[q][t], Prod(At(i, call.lda, l), At(p, call.ldb, j + t)))]

\* vfmacc on accumulator q with the product of A[i, p] and B[p, j ...].
Fmacc(q, p) ==
  [t \in Lanes |-> Append(vc[q][t], Prod(At(i, call.lda, p), At(p, call.ldb, j + t)))]

\* Mutant: the accumulators spill to C in every iteration.
MainLoopSpills ==
  /\ pc = "reduce" /\ l + UNROLL <= call.k
  /\ vc' = [q \in Chains |-> Fmacc(q, l + q)]
  /\ bLoads' = Bump(bLoads, UNION {Tile(call.ldb, l + q) : q \in Chains})
  /\ cMoves' = Bump(cMoves, Tile(call.ldc, i))
  /\ l' = l + UNROLL
  /\ UNCHANGED <<call, pc, i, j, vl, C>>

\* for (; l + OPT_GEMM_UNROLL <= k; l += OPT_GEMM_UNROLL)
MainLoop ==
  /\ pc = "reduce" /\ l + UNROLL <= call.k
  /\ vc' = [q \in Chains |-> Fmacc(q, l + q)]
  /\ bLoads' = Bump(bLoads, UNION {Tile(call.ldb, l + q) : q \in Chains})
  /\ l' = l + UNROLL
  /\ UNCHANGED <<call, pc, i, j, vl, C, cMoves>>

\* for (; l < k; ++l): what is left folds into vc0
TailLoop ==
  /\ pc = "reduce" /\ l + UNROLL > call.k /\ l < call.k
  /\ vc' = [vc EXCEPT ![0] = Fmacc(0, l)]
  /\ bLoads' = Bump(bLoads, Tile(call.ldb, l))
  /\ l' = l + 1
  /\ UNCHANGED <<call, pc, i, j, vl, C, cMoves>>

\* Mutant: the tree leaves out the last accumulator.
LaneSumDropsLast(t) == [q \in Chains \ {CHAINS - 1} |-> vc[q][t]]

\* The tree of vfadds, the store, and j += vl.  The tree adds every
\* accumulator once, so lane t of the result is the sum of the chains.
LaneSum(t) == [q \in Chains |-> vc[q][t]]

\* Mutant: j += vlmax.
TileStoreVlmax ==
  /\ pc = "reduce" /\ l >= call.k
  /\ C' = [x \in CAddr(call) |->
             IF x \in Tile(call.ldc, i) THEN LaneSum(x - At(i, call.ldc, j)) ELSE C[x]]
  /\ cMoves' = Bump(cMoves, Tile(call.ldc, i))
  /\ j' = j + VLMAX
  /\ pc' = "tile"
  /\ UNCHANGED <<call, i, l, vl, vc, bLoads>>

TileStore ==
  /\ pc = "reduce" /\ l >= call.k
  /\ C' = [x \in CAddr(call) |->
             IF x \in Tile(call.ldc, i) THEN LaneSum(x - At(i, call.ldc, j)) ELSE C[x]]
  /\ cMoves' = Bump(cMoves, Tile(call.ldc, i))
  /\ j' = j + vl
  /\ pc' = "tile"
  /\ UNCHANGED <<call, i, l, vl, vc, bLoads>>

Next == \/ RowEnter \/ RowExit \/ TileEnter \/ TileExit
        \/ MainLoop \/ TailLoop \/ TileStore

Spec == Init /\ [][Next]_vars /\ WF_vars(Next)

-----------------------------------------------------------------------------
\* The operations a chain can have.
Op == {Zero, Beta} \cup ({"old"} \X Nat) \cup ({"prod"} \X Nat \X Nat)

\* Type invariant.
TypeOK ==
  /\ call \in Shapes
  /\ pc \in {"row", "tile", "reduce", "done"}
  /\ i \in 0 .. call.m
  /\ j \in 0 .. call.n
  /\ l \in 0 .. call.k
  /\ vl \in 0 .. VLMAX
  /\ DOMAIN vc = Chains /\ (pc = "reduce" => vc \in [Chains -> [Lanes -> Seq(Op)]])
  /\ DOMAIN C = CAddr(call)
  /\ bLoads \in [BAddr(call) -> Nat]
  /\ cMoves \in [CAddr(call) -> Nat]

\* Throughout a tile (gemm.c:140-173), which is never empty, the accumulators
\* of each lane together hold beta*C and the first l products, each in exactly
\* one accumulator, also when k is no multiple of the unroll factor or smaller
\* than it; vc0 is the one that starts from beta*C, the others start from 0.
LaneInv ==
  pc = "reduce" =>
    /\ 0 < vl /\ j + vl <= call.n
    /\ \A t \in Lanes :
         /\ Len(vc[0][t]) >= 2
         /\ vc[0][t][1] = Old(At(i, call.ldc, j + t)) /\ vc[0][t][2] = Beta
         /\ \A q \in Chains \ {0} : Len(vc[q][t]) >= 1 /\ vc[q][t][1] = Zero
         /\ SumsTo(LaneSum(t), SubSeq(Reference(call, i, j + t), 1, l + 2))

\* Is C[r, c] one of the cells the loops have already stored?
Stored(r, c) == r < i \/ (r = i /\ pc \in {"tile", "reduce"} /\ c < j)

Untouched(x) == C[x] = [q \in {0} |-> <<Old(x)>>]

\* The cells stored are final and the others untouched, the padding too.
CellInv ==
  /\ \A r \in Rows(call), c \in Cols(call) :
       IF Stored(r, c) THEN SumsTo(C[At(r, call.ldc, c)], Reference(call, r, c))
                       ELSE Untouched(At(r, call.ldc, c))
  /\ \A x \in CAddr(call) \ Block(call) : Untouched(x)

LoopInv == /\ pc \in {"tile", "reduce"} => i < call.m
           /\ pc = "done" => i = call.m

\* The inductive invariant the proofs use.
IndInv == TypeOK /\ LaneInv /\ CellInv /\ LoopInv

\* "C is touched only twice per row" (gemm.c:100): a call loads each cell of
\* its block once and stores it once; and it loads each element of B in use
\* once per row of A, m times (gemm.c:257).
Traffic ==
  pc = "done" =>
    /\ \A x \in CAddr(call) : cMoves[x] = IF x \in Block(call) THEN 2 ELSE 0
    /\ \A p \in 0 .. call.k - 1, c \in 0 .. call.ldb - 1 :
         bLoads[At(p, call.ldb, c)] = IF c < call.n THEN call.m ELSE 0

\* The same at any time: a stored cell has moved twice, one of the current
\* tile once; the rows done have loaded each element of B once, and so has the
\* current row those left of the tile and, within it, the first l.
TrafficInv ==
  /\ \A r \in Rows(call), c \in Cols(call) :
       cMoves[At(r, call.ldc, c)] =
         IF Stored(r, c) THEN 2
         ELSE IF r = i /\ pc = "reduce" /\ c < j + vl THEN 1 ELSE 0
  /\ \A x \in CAddr(call) \ Block(call) : cMoves[x] = 0
  /\ \A p \in 0 .. call.k - 1, c \in 0 .. call.ldb - 1 :
       bLoads[At(p, call.ldb, c)] =
         IF c >= call.n THEN 0
         ELSE IF \/ pc \in {"tile", "reduce"} /\ c < j
                 \/ pc = "reduce" /\ c < j + vl /\ p < l
              THEN i + 1 ELSE i

\* opt_gemm (gemm.c:121-244) implements the contract of a GEMM kernel.
Contract == INSTANCE GemmContract WITH returned <- (pc = "done")
ImplementsContract == Contract!Spec

\* The loops of opt_gemm end: every tile advances j.
Termination == <>(pc = "done")
=============================================================================
