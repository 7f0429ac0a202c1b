------------------------------ MODULE OptDrawing ------------------------------
(***************************************************************************)
(* The two pictures of opt_gemm that doc/ shows, as the generators         *)
(* gen_opt_gemm_arrays_svg.py and gen_opt_gemm_dataflow_svg.py draw them,  *)
(* laid over the kernel: in each state of OptGemm the picture of the tile  *)
(* at work must show what the next iteration of the kernel does.           *)
(***************************************************************************)
EXTENDS OptGemm, Diagrams

-----------------------------------------------------------------------------
(* gen_opt_gemm_arrays_svg.py                                              *)

\* The sizes and the tile the script draws, and those of the kernel's state.
Illustration ==
  [M |-> 10, K |-> 12, N |-> 16, ROW_I |-> 4, L0 |-> 2, L_SPAN |-> 8, J0 |-> 6, J_SPAN |-> 4]

Shown ==
  [M |-> call.m, K |-> call.k, N |-> call.n, ROW_I |-> i, L0 |-> l, L_SPAN |-> UNROLL,
   J0 |-> j, J_SPAN |-> vl]

\* The canvas layout: the three grids side by side.
A_X == 60 * PX
A_Y == 300 * PX
B_X(d) == A_X + d.K * CELL + 150 * PX
B_Y == 190 * PX
C_X(d) == B_X(d) + d.N * CELL + 150 * PX
C_Y == 300 * PX

NoRow  == -1
NoBand == <<0, 0>>

\* matrix_grid: the class of each cell; the explicit set wins over the band,
\* the band over the row.
matrix_grid(rows, cols, row_hi, col_lo_hi, row_band, cell_vector) ==
  [rc \in (0 .. rows - 1) \X (0 .. cols - 1) |->
     IF rc \in cell_vector THEN "vector"
     ELSE IF Within(rc[1], row_band) THEN "l-band"
     ELSE IF rc[1] # row_hi THEN "plain"
     ELSE IF Within(rc[2], col_lo_hi) THEN "scalar" ELSE "row-i"]

L_Rows(d) == d.L0 .. d.L0 + d.L_SPAN - 1
J_Cols(d) == d.J0 .. d.J0 + d.J_SPAN - 1

A_grid(d) == matrix_grid(d.M, d.K, d.ROW_I, <<d.L0, d.L_SPAN>>, NoBand, {})
B_grid(d) == matrix_grid(d.K, d.N, NoRow, NoBand, <<d.L0, d.L_SPAN>>, L_Rows(d) \X J_Cols(d))

C_grid(d) == matrix_grid(d.M, d.N, d.ROW_I, NoBand, NoBand, {d.ROW_I} \X J_Cols(d))

\* bracket_h and bracket_v: where the brackets l..l+7 and j:j+vl begin and end.
Bracket_A(d) == <<A_X + d.L0 * CELL, A_X + (d.L0 + d.L_SPAN) * CELL>>
Bracket_B(d) == <<B_X(d) + d.J0 * CELL, B_X(d) + (d.J0 + d.J_SPAN) * CELL>>
Bracket_C(d) == <<C_X(d) + d.J0 * CELL, C_X(d) + (d.J0 + d.J_SPAN) * CELL>>

\* Mutant: every arrow leaves the first cell of the segment.
ScalarFan_first(d) ==
  [n \in 0 .. d.L_SPAN - 1 |->
     Arrow(A_X + d.L0 * CELL + CELL \div 2, A_Y + d.ROW_I * CELL - 4 * PX,
           B_X(d) - 14 * PX, B_Y + (d.L0 + n) * CELL + CELL \div 2)]

\* A's scalar cells to B's rows, from the top of each cell.
ScalarFan(d) ==
  [n \in 0 .. d.L_SPAN - 1 |->
     Arrow(A_X + (d.L0 + n) * CELL + CELL \div 2, A_Y + d.ROW_I * CELL - 4 * PX,
           B_X(d) - 14 * PX, B_Y + (d.L0 + n) * CELL + CELL \div 2)]

\* B's rows into the row of C, spread over its height.
VectorFan(d) ==
  [n \in 0 .. d.L_SPAN - 1 |->
     Arrow(B_X(d) + d.N * CELL, B_Y + (d.L0 + n) * CELL + CELL \div 2,
           C_X(d) - 14 * PX,
           C_Y + d.ROW_I * CELL + ((2 * n + 1) * CELL) \div (2 * d.L_SPAN))]

\* The index label of A's n-th cell: a digit around the middle of the cell.
IndexLabel(d, n) ==
  [x |-> A_X + (d.L0 + n) * CELL + CELL \div 2 - 3 * PX,
   top |-> A_Y + d.ROW_I * CELL + CELL \div 2 - 4 * PX, w |-> 6 * PX, h |-> 8 * PX]

-----------------------------------------------------------------------------
(* gen_opt_gemm_dataflow_svg.py                                            *)

N_LANES == 8
LANE_H  == 52
DrawnLanes == 0 .. N_LANES - 1

lane_y == [q \in DrawnLanes |-> (130 + q * 80) * PX]
lane_pair_y(a, b) == (a + b) \div 2
l1_y == [p \in 0 .. 3 |-> lane_pair_y(lane_y[2 * p], lane_y[2 * p + 1])]
l2_y == [p \in 0 .. 1 |-> lane_pair_y(l1_y[2 * p], l1_y[2 * p + 1])]
l3_y == lane_pair_y(l2_y[0], l2_y[1])

\* The boxes: <<column, lane>>.
LaneNodes == {"init", "a", "b", "fma"} \X DrawnLanes
TreeNodes == ({"L1"} \X (0 .. 3)) \cup ({"L2"} \X (0 .. 1)) \cup {<<"L3", 0>>, <<"store", 0>>}

\* Where each column begins and how wide it is.
ColumnX ==
  [init |-> <<96, 172>>, a |-> <<300, 150>>, b |-> <<486, 190>>, fma |-> <<712, 190>>,
   L1 |-> <<986, 116>>, L2 |-> <<1156, 116>>, L3 |-> <<1326, 116>>, store |-> <<1512, 168>>]

HeightOf(col) ==
  CASE col \in {"L1", "L2"} -> 46 [] col = "L3" -> 50 [] col = "store" -> 54 [] OTHER -> LANE_H

RowOf(z) ==
  CASE z[1] = "L1" -> l1_y[z[2]] [] z[1] = "L2" -> l2_y[z[2]]
    [] z[1] \in {"L3", "store"} -> l3_y [] OTHER -> lane_y[z[2]]

nodes ==
  [z \in LaneNodes \cup TreeNodes |->
     Node(ColumnX[z[1]][1], RowOf(z), ColumnX[z[1]][2], HeightOf(z[1]))]

\* elbow(): a line from the right end of one column to the left end of another.
Elbow(from, y1, to, y2) ==
  << <<(ColumnX[from][1] + ColumnX[from][2]) * PX, y1>>, <<ColumnX[to][1] * PX, y2>> >>

\* Mutant: the second input of a pair is the first again.
PairOf_first(p) == {2 * p}
PairOf(p) == {2 * p, 2 * p + 1}

\* The elbows within the lanes, the three levels of the tree, and the store.
lane_flow ==
  UNION {{Elbow("init", lane_y[q], "a", lane_y[q]), Elbow("a", lane_y[q], "b", lane_y[q]),
          Elbow("b", lane_y[q], "fma", lane_y[q])} : q \in DrawnLanes}

reduction_tree ==
  (UNION {{Elbow("fma", lane_y[q], "L1", l1_y[p]) : q \in PairOf(p)} : p \in 0 .. 3})
  \cup (UNION {{Elbow("L1", l1_y[q], "L2", l2_y[p]) : q \in PairOf(p)} : p \in 0 .. 1})
  \cup {Elbow("L2", l2_y[p], "L3", l3_y) : p \in PairOf(0)}

elbows == lane_flow \cup reduction_tree \cup {Elbow("L3", l3_y, "store", l3_y)}

\* What the boxes of lane q say: it starts from C or from 0, and multiplies
\* A[i, l+q] by row l+q of B.
InitText(q) == IF q = 0 THEN "C" ELSE "0"
Operands(q) == [a |-> q, b |-> q]

\* The paths from the fma boxes to a box of the tree, by the columns between.
Column == [L1 |-> "fma", L2 |-> "L1", L3 |-> "L2", store |-> "L3"]

Paths[z \in {w \in DOMAIN nodes : w[1] \notin {"init", "a", "b"}}] ==
  IF z[1] = "fma" THEN {<<z>>}
  ELSE UNION {{Append(p, z) : p \in Paths[w]} :
                w \in {w \in DOMAIN nodes : w[1] = Column[z[1]] /\ Joined(nodes, elbows, w, z)}}

-----------------------------------------------------------------------------
(* Properties                                                              *)

Addresses(ld, cells) == {At(rc[1], ld, rc[2]) : rc \in cells}
Shaded(grid, class) == {rc \in DOMAIN grid : grid[rc] = class}

\* The cell under a point of a grid's area.
RowAt(y, top) == (y - top) \div CELL
ColAt(x, left) == (x - left) \div CELL

\* The fans of the tile drawn in doc/ can be read: the arrows of A that climb to
\* their row of B do not cross each other, nor do B's arrows into C, and no
\* arrow runs through an index label of A.
FansLegible ==
  LET fan == ScalarFan(Illustration)
      climbing == {n \in DOMAIN fan : fan[n].y2 < fan[n].y1}
  IN /\ Uncrossed([n \in climbing |-> fan[n]])
     /\ Uncrossed(VectorFan(Illustration))
     /\ \A n, m \in DOMAIN fan : \A s \in 0 .. SAMPLES :
          Apart(IndexLabel(Illustration, m), Point(Curve(fan[n])[s]))

\* What the eight vfmaccs of the iteration at work add: the product of lane t
\* of accumulator q.
Factor(q, t) == Fmacc(q, l + q)[t][Len(Fmacc(q, l + q)[t])]
FactorsOfA == {Factor(q, t)[2] : q \in Chains, t \in Lanes}
FactorsOfB == {Factor(q, t)[3] : q \in Chains, t \in Lanes}

ScalarA(d) == Shaded(A_grid(d), "scalar")
VectorB(d) == Shaded(B_grid(d), "vector")
VectorC(d) == Shaded(C_grid(d), "vector")

CellsShown(d) ==
  /\ Addresses(call.lda, ScalarA(d)) = FactorsOfA
  /\ Addresses(call.ldb, VectorB(d)) = FactorsOfB
  /\ Addresses(call.ldc, VectorC(d)) = Tile(call.ldc, i)
  /\ Shaded(A_grid(d), "row-i") \cup ScalarA(d) = {i} \X (0 .. call.k - 1)

ArrowsShown(d, q) ==
  LET a == ScalarFan(d)[q]
      c == VectorFan(d)[q]
  IN /\ \A t \in Lanes :
          /\ Factor(q, t)[2] = At(RowAt(a.y1 + 4 * PX, A_Y), call.lda, ColAt(a.x1, A_X))
          /\ Factor(q, t)[3] \div call.ldb = RowAt(a.y2, B_Y)
     /\ c.y1 = a.y2
     /\ RowAt(c.y2, C_Y) = i

BracketsShown(d) ==
  /\ Bracket_A(d) = <<A_X + l * CELL, A_X + (l + CHAINS) * CELL>>
  /\ \A rc \in VectorB(d) : B_X(d) + rc[2] * CELL \in Bracket_B(d)[1] .. Bracket_B(d)[2] - CELL
  /\ \A rc \in VectorC(d) : C_X(d) + rc[2] * CELL \in Bracket_C(d)[1] .. Bracket_C(d)[2] - CELL

\* The array picture of the iteration at work shows exactly what it does: the
\* scalar cells of A and the vector cells of B are those the eight vfmaccs
\* read, arrow n joins the cell of A and the row of B that accumulator n
\* multiplies, every arrow of the reduction ends in the row of C whose vector
\* cells the tile has loaded and will store, and the brackets enclose the
\* shaded cells (gen_opt_gemm_arrays_svg.py:2-14, 241-261).
AccessDrawn ==
  FansLegible /\ ((pc = "reduce" /\ l + UNROLL <= call.k) =>
    /\ CellsShown(Shown) /\ BracketsShown(Shown)
    /\ \A q \in Chains : ArrowsShown(Shown, q))

\* The dataflow picture can be read: no two boxes overlap or leave the canvas,
\* no line is loose, and the boxes of a lane follow each other.
FlowLegible ==
  /\ Legible(nodes, 1720, 900) /\ NoLooseEnds(nodes, elbows)
  /\ \A q \in DrawnLanes : /\ Joined(nodes, elbows, <<"init", q>>, <<"a", q>>)
                           /\ Joined(nodes, elbows, <<"a", q>>, <<"b", q>>)
                           /\ Joined(nodes, elbows, <<"b", q>>, <<"fma", q>>)

StorePaths == Paths[<<"store", 0>>]

\* It is the tile at work: each of the kernel's accumulators has a lane, which
\* starts where the accumulator starts and multiplies what it multiplies, and
\* reaches the store along one path of the reduction tree; the tree has no
\* other input (gen_opt_gemm_dataflow_svg.py:7-14, 134-196).
FlowDrawn ==
  FlowLegible /\ (pc = "reduce" => \A t \in Lanes :
    /\ DOMAIN LaneSum(t) = {p[1][2] : p \in StorePaths}
    /\ Cardinality(StorePaths) = CHAINS
    /\ \A q \in Chains :
         /\ (vc[q][t][1] = Zero) <=> (InitText(q) = "0")
         /\ l + UNROLL <= call.k =>
              Fmacc(q, l + q)[t] = Append(vc[q][t], Prod(At(i, call.lda, l + Operands(q).a),
                                                         At(l + Operands(q).b, call.ldb, j + t))))
=============================================================================
