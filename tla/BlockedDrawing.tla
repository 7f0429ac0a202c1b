---------------------------- MODULE BlockedDrawing ----------------------------
(***************************************************************************)
(* The two pictures of opt_gemm_blocked that doc/ shows, as the generators *)
(* gen_opt_gemm_blocked_arrays_svg.py and                                  *)
(* gen_opt_gemm_blocked_dataflow_svg.py draw them, laid over the kernel.   *)
(***************************************************************************)
EXTENDS BlockedGemm, Diagrams

-----------------------------------------------------------------------------
(* gen_opt_gemm_blocked_arrays_svg.py                                      *)

\* The sizes and the tile the script draws, and those of the kernel's state.
Illustration == [M |-> 16, K |-> 12, N |-> 16, L |-> 5, J0 |-> 6, J_SPAN |-> 4]
Shown == [M |-> BLOCK, K |-> call.k, N |-> call.n, L |-> l, J0 |-> j, J_SPAN |-> vl]

\* The canvas layout: A and C share their top, and the row l of B lies at the
\* middle of A's height.
A_X == 70 * PX
A_Y == 230 * PX
B_X(d) == A_X + d.K * CELL + 140 * PX
C_X(d) == B_X(d) + d.N * CELL + 140 * PX
C_Y == A_Y
B_Y(d) == A_Y + (d.M * CELL) \div 2 - (d.L * CELL + CELL \div 2)

\* matrix_grid: two explicit sets over a plain default.
matrix_grid(rows, cols, cell_vector, cell_scalar) ==
  [rc \in (0 .. rows - 1) \X (0 .. cols - 1) |->
     IF rc \in cell_vector THEN "vector" ELSE IF rc \in cell_scalar THEN "scalar" ELSE "plain"]

DrawnRows(d) == 0 .. d.M - 1
J_Cols(d) == d.J0 .. d.J0 + d.J_SPAN - 1

A_grid(d) == matrix_grid(d.M, d.K, {}, DrawnRows(d) \X {d.L})
B_grid(d) == matrix_grid(d.K, d.N, {d.L} \X J_Cols(d), {})
C_grid(d) == matrix_grid(d.M, d.N, DrawnRows(d) \X J_Cols(d), {})

Bracket_A(d) == <<A_X + d.L * CELL, A_X + (d.L + 1) * CELL>>
Bracket_B(d) == <<B_X(d) + d.J0 * CELL, B_X(d) + (d.J0 + d.J_SPAN) * CELL>>
Bracket_C(d) == <<C_X(d) + d.J0 * CELL, C_X(d) + (d.J0 + d.J_SPAN) * CELL>>

\* Mutant: the lanes are as far apart as the rows of the grid.
lane_y_rows(d, r) == B_Y(d) + d.L * CELL + r * CELL + CELL \div 2

\* The height within B's row l at which the thread of row r passes.
lane_y(d, r) == B_Y(d) + d.L * CELL + ((2 * r + 1) * CELL) \div (2 * d.M)

ScalarFan(d) ==
  [r \in DrawnRows(d) |->
     Arrow(A_X + d.L * CELL + CELL \div 2, A_Y + r * CELL - 4 * PX,
           B_X(d) - 14 * PX, lane_y(d, r))]

VectorFan(d) ==
  [r \in DrawnRows(d) |->
     Arrow(B_X(d) + d.N * CELL, lane_y(d, r), C_X(d) - 14 * PX, C_Y + r * CELL + CELL \div 2)]

-----------------------------------------------------------------------------
(* gen_opt_gemm_blocked_dataflow_svg.py, with n lanes                      *)

N_LANES == 16
row_y(q) == (170 + q * 40) * PX
mid_y(n) == (row_y(0) + row_y(n - 1)) \div 2

ColumnX ==
  [init |-> <<70, 190>>, a |-> <<300, 150>>, b |-> <<490, 200>>, fma |-> <<750, 210>>,
   store |-> <<1010, 180>>]

\* A row of boxes for each lane, and the one box of B.
Shared == <<"b", 0>>

nodes(n) ==
  [z \in ({"init", "a", "fma", "store"} \X (0 .. n - 1)) \cup {Shared} |->
     IF z = Shared THEN Node(ColumnX.b[1], mid_y(n), ColumnX.b[2], 74)
     ELSE Node(ColumnX[z[1]][1], row_y(z[2]), ColumnX[z[1]][2], 26)]

Elbow(from, y1, to, y2) ==
  << <<(ColumnX[from][1] + ColumnX[from][2]) * PX, y1>>, <<ColumnX[to][1] * PX, y2>> >>

\* Mutant: B is drawn into its own lane only, as in opt_gemm's picture.
elbows_own(n) ==
  UNION {{Elbow("init", row_y(q), "a", row_y(q)), Elbow("a", row_y(q), "fma", row_y(q)),
          Elbow("fma", row_y(q), "store", row_y(q))} : q \in 0 .. n - 1}
  \cup {Elbow("b", mid_y(n), "fma", row_y(0))}

elbows(n) ==
  UNION {{Elbow("init", row_y(q), "a", row_y(q)), Elbow("a", row_y(q), "fma", row_y(q)),
          Elbow("b", mid_y(n), "fma", row_y(q)), Elbow("fma", row_y(q), "store", row_y(q))}
           : q \in 0 .. n - 1}

\* What the boxes of lane q say: beta * C[q], alpha * A[q, l], and C[q] again.
InitRow(q)  == q
ARow(q)     == q
StoreRow(q) == q

-----------------------------------------------------------------------------
(* Properties                                                              *)

Addresses(ld, cells) == {At(rc[1], ld, rc[2]) : rc \in cells}
Shaded(grid, class) == {rc \in DOMAIN grid : grid[rc] = class}
RowAt(y, top) == (y - top) \div CELL
ColAt(x, left) == (x - left) \div CELL

\* What the next Accumulate appends in lane t of row r.
Product(r, t) == Prod(At(r, call.lda, l), At(l, call.ldb, j + t))

\* The threads of the picture in doc/ do not cross on their way.
FansLegible == Uncrossed(ScalarFan(Illustration)) /\ Uncrossed(VectorFan(Illustration))

\* The elements of A, of B and of C the iteration at work uses.
Products == {Product(r, t) : r \in BlockRows, t \in Lanes}
UsedA == {p[2] : p \in Products}
UsedB == {p[3] : p \in Products}
UsedC == {Store(r, t) : r \in BlockRows, t \in Lanes}

VectorB(d) == Shaded(B_grid(d), "vector")
VectorC(d) == Shaded(C_grid(d), "vector")

CellsShown(d) ==
  /\ Addresses(call.lda, Shaded(A_grid(d), "scalar")) = UsedA
  /\ Addresses(call.ldb, VectorB(d)) = UsedB
  /\ Addresses(call.ldc, VectorC(d)) = UsedC

ThreadShown(d, r) ==
  LET a == ScalarFan(d)[r]
      c == VectorFan(d)[r]
  IN /\ \A t \in Lanes :
          Product(r, t)[2] = At(RowAt(a.y1 + 4 * PX, A_Y), call.lda, ColAt(a.x1, A_X))
     /\ RowAt(a.y2, B_Y(d)) = l /\ c.y1 = a.y2
     /\ r > 0 => ScalarFan(d)[r - 1].y2 < a.y2
     /\ RowAt(c.y2, C_Y) = r /\ RowAt(c.y2, A_Y) = r

BracketsShown(d) ==
  /\ ColAt(Bracket_A(d)[1], A_X) = l
  /\ \A rc \in VectorB(d) : B_X(d) + rc[2] * CELL \in Bracket_B(d)[1] .. Bracket_B(d)[2] - CELL
  /\ \A rc \in VectorC(d) : C_X(d) + rc[2] * CELL \in Bracket_C(d)[1] .. Bracket_C(d)[2] - CELL

\* The array picture of the iteration at work shows exactly what it does: the
\* scalar cells of A, the one shared row of vector cells of B and the cells of
\* C are those it uses; the thread of row r leaves A's cell of that row, passes
\* B inside row l, in the order of the rows, and ends in row r of C, which lies
\* level with row r of A (gen_opt_gemm_blocked_arrays_svg.py:7-19, 46-60,
\* 222-243).
HourglassDrawn ==
  FansLegible /\ ((pc = "reduce" /\ l < call.k) =>
    /\ CellsShown(Shown) /\ BracketsShown(Shown)
    /\ \A r \in BlockRows : ThreadShown(Shown, r))

FlowLegible == Legible(nodes(N_LANES), 1260, 900) /\ NoLooseEnds(nodes(N_LANES), elbows(N_LANES))

BlockNodes == nodes(BLOCK)
BlockElbows == elbows(BLOCK)

\* The dataflow picture is the tile at work: the accumulator of each row starts
\* from that row of C, is fed by its own element of A and by the one load of B,
\* and goes straight to the store of its row
\* (gen_opt_gemm_blocked_dataflow_svg.py:8-19, 127-167).
SharedLoadDrawn ==
  FlowLegible /\ (pc = "reduce" => \A r \in BlockRows :
    /\ {z \in DOMAIN BlockNodes : Joined(BlockNodes, BlockElbows, z, <<"fma", r>>)}
         = {<<"a", r>>, Shared}
    /\ Joined(BlockNodes, BlockElbows, <<"init", r>>, <<"a", r>>)
    /\ {z \in DOMAIN BlockNodes : Joined(BlockNodes, BlockElbows, z, <<"store", r>>)}
         = {<<"fma", r>>}
    /\ \A t \in Lanes :
         /\ vc[r][t][1] = Old(Store(InitRow(r), t))
         /\ l < call.k => Product(r, t)[2] = At(ARow(r), call.lda, l)
         /\ Store(r, t) = At(StoreRow(r), call.ldc, j + t))
=============================================================================
