------------------------- MODULE BlockedGemm_proofs -------------------------
(***************************************************************************)
(* opt_gemm_blocked is correct for every set of shapes, every vector       *)
(* length and every block height: all cells are computed in the order of   *)
(* scalar_gemm.  The two pictures doc/ draws of it show, at any time, what *)
(* the tile at work does.                                                  *)
(***************************************************************************)
EXTENDS BlockedDrawing, KernelLemmas

\* The facts about the arguments every step needs.
LEMMA CallType ==
  ASSUME TypeOK
  PROVE  /\ call \in Shapes /\ call.m = BLOCK /\ BlockRows = Rows(call)
         /\ call.m \in Nat /\ call.n \in Nat /\ call.k \in Nat /\ call.ldc \in Nat
         /\ VLMAX \in Nat \ {0} /\ BLOCK \in Nat \ {0}
BY BlockAssumption, ShapeType DEF TypeOK, BlockRows, Rows

\* A tile is never empty and never reaches beyond the last column.
LEMMA TileVlBounds ==
  ASSUME NEW avl \in Nat \ {0}
  PROVE  TileVl(avl) \in 1 .. VLMAX /\ TileVl(avl) <= avl
BY BlockAssumption DEF TileVl

\* The invariant holds when opt_gemm_blocked is called.
LEMMA InitIndInv == Init => IndInv
<1> SUFFICES ASSUME Init PROVE IndInv
  OBVIOUS
<1>1. call \in Shapes /\ VLMAX \in Nat \ {0} /\ call.m = BLOCK
      /\ call.n \in Nat /\ call.k \in Nat
  BY BlockAssumption, ShapeType DEF Init
<1>2. TypeOK
  <2>1. DOMAIN vc = BlockRows /\ \A r \in BlockRows : DOMAIN vc[r] = Lanes
    BY DEF Init, Lanes
  <2> QED BY <1>1, <2>1 DEF Init, TypeOK
<1>3. LaneInv /\ (pc = "done" => j = call.n)
  BY DEF Init, LaneInv
<1>4. ColumnInv
  <2>1. ASSUME NEW r \in BlockRows, NEW c \in Cols(call)
        PROVE  C[At(r, call.ldc, c)] =
                 IF c < j THEN Reference(call, r, c) ELSE <<Old(At(r, call.ldc, c))>>
    <3>1. At(r, call.ldc, c) \in CAddr(call) /\ ~ (c < j)
      BY <1>1, <1>2, CallType, BlockCells DEF Init, Cols
    <3> QED BY <3>1 DEF Init
  <2> QED BY <2>1 DEF Init, ColumnInv
<1> QED BY <1>2, <1>3, <1>4 DEF IndInv

\* Every step of the kernel keeps it.
LEMMA NextIndInv == IndInv /\ [Next]_vars => IndInv'
<1> SUFFICES ASSUME IndInv, [Next]_vars PROVE IndInv'
  OBVIOUS
<1>t. /\ call \in Shapes /\ call.m = BLOCK /\ BlockRows = Rows(call)
      /\ call.m \in Nat /\ call.n \in Nat /\ call.k \in Nat
      /\ VLMAX \in Nat \ {0}
      /\ j \in 0 .. call.n /\ l \in 0 .. call.k /\ vl \in 0 .. VLMAX
      /\ TypeOK /\ LaneInv /\ ColumnInv
  BY CallType DEF IndInv, TypeOK
<1>1. CASE TileEnter
  <2>0. PICK w : w = TileVl(call.n - j)
    OBVIOUS
  <2>1. vl' = w /\ w \in 1 .. VLMAX /\ j + w <= call.n
    BY <1>1, <1>t, <2>0, TileVlBounds DEF TileEnter
  <2>2. vc' = [r \in BlockRows |-> [t \in 0 .. w - 1 |-> Append(C[At(r, call.ldc, j + t)], Beta)]]
    BY <1>1, <2>1 DEF TileEnter
  <2>3. TypeOK'
    <3>1. DOMAIN vc' = BlockRows /\ \A r \in BlockRows : DOMAIN vc'[r] = Lanes'
      BY <2>1, <2>2 DEF Lanes
    <3> QED BY <1>1, <1>t, <2>1, <3>1 DEF TileEnter, TypeOK
  <2>4. LaneInv'
    <3> SUFFICES ASSUME NEW r \in BlockRows, NEW t \in 0 .. w - 1
                 PROVE  vc'[r][t] = SubSeq(Reference(call, r, j + t), 1, l' + 2)
      <4>1. call' = call /\ j' = j
        BY <1>1 DEF TileEnter
      <4> QED BY <2>1, <4>1 DEF LaneInv, Lanes
    <3>1. j + t \in Cols(call) /\ ~ (j + t < j)
      <4>1. j \in Nat /\ t \in Nat /\ w \in Nat /\ t < w /\ call.n \in Nat
        BY <1>t, <2>1
      <4> QED BY <2>1, <4>1 DEF Cols
    <3>0. l' + 2 = 1 + 1
      BY <1>1 DEF TileEnter
    <3>2. C[At(r, call.ldc, j + t)] = <<Old(At(r, call.ldc, j + t))>>
      BY <1>t, <3>1 DEF ColumnInv
    <3>3. <<Old(At(r, call.ldc, j + t))>> = SubSeq(Reference(call, r, j + t), 1, 1)
      BY <1>t, FirstPrefix
    <3>4. Reference(call, r, j + t)[1 + 1] = Beta
      BY <1>t DEF Reference
    <3>5. Append(SubSeq(Reference(call, r, j + t), 1, 1), Reference(call, r, j + t)[1 + 1])
            = SubSeq(Reference(call, r, j + t), 1, 1 + 1)
      BY <1>t, AppendPrefix
    <3> QED BY <2>2, <3>0, <3>2, <3>3, <3>4, <3>5
  <2>5. ColumnInv'
    BY <1>1, <1>t DEF TileEnter, ColumnInv
  <2> QED BY <1>1, <2>3, <2>4, <2>5 DEF TileEnter, IndInv
<1>2. CASE Accumulate
  <2>1. vc' = [r \in BlockRows |-> [t \in Lanes |->
                 Append(vc[r][t], Prod(At(r, call.lda, l), At(l, call.ldb, j + t)))]]
    BY <1>2 DEF Accumulate
  <2>2. Lanes' = Lanes
    BY <1>2 DEF Accumulate, Lanes
  <2>3. TypeOK'
    <3>1. DOMAIN vc' = BlockRows /\ \A r \in BlockRows : DOMAIN vc'[r] = Lanes'
      BY <2>1, <2>2
    <3>2. bLoads' \in [BAddr(call) -> Nat]
      BY <1>2, <1>t DEF Accumulate, TypeOK
    <3> QED BY <1>2, <1>t, <3>1, <3>2 DEF Accumulate, TypeOK
  <2>4. LaneInv'
    <3> SUFFICES ASSUME NEW r \in BlockRows, NEW t \in Lanes
                 PROVE  vc'[r][t] = SubSeq(Reference(call, r, j + t), 1, (l + 1) + 2)
      BY <1>2, <1>t, <2>2 DEF Accumulate, LaneInv
    <3>1. vc[r][t] = SubSeq(Reference(call, r, j + t), 1, l + 2)
      BY <1>2, <1>t DEF Accumulate, LaneInv
    <3>2. Reference(call, r, j + t)[(l + 2) + 1] = Prod(At(r, call.lda, l), At(l, call.ldb, j + t))
      <4>1. Reference(call, r, j + t)[l + 3]
              = Prod(At(r, call.lda, (l + 3) - 3), At((l + 3) - 3, call.ldb, j + t))
        BY <1>2, <1>t DEF Accumulate, Reference
      <4> QED BY <1>t, <4>1
    <3>3. Append(SubSeq(Reference(call, r, j + t), 1, l + 2),
                 Reference(call, r, j + t)[(l + 2) + 1])
            = SubSeq(Reference(call, r, j + t), 1, (l + 2) + 1)
      <4>1. l + 2 \in Nat /\ l + 2 < call.k + 2
        BY <1>2, <1>t DEF Accumulate
      <4> QED BY <1>t, <4>1, AppendPrefix
    <3> QED BY <1>t, <2>1, <3>1, <3>2, <3>3
  <2>5. ColumnInv'
    BY <1>2, <1>t DEF Accumulate, ColumnInv
  <2> QED BY <1>2, <2>3, <2>4, <2>5 DEF Accumulate, IndInv
<1>3. CASE TileStore
  <2>1. l = call.k /\ j + vl <= call.n /\ j + vl \in 0 .. call.n
    BY <1>3, <1>t DEF TileStore, LaneInv
  <2>2. ASSUME NEW r \in BlockRows, NEW t \in Lanes
        PROVE  j + t \in Cols(call) /\ Store(r, t) \in CAddr(call) /\ Store(r, t) \in Block(call)
    <3>1. j + t \in Cols(call)
      BY <1>t, <2>1 DEF Cols, Lanes
    <3> QED BY <1>t, <3>1, BlockCells DEF Store
  <2>3. ASSUME NEW r \in BlockRows, NEW t \in Lanes
        PROVE  C'[Store(r, t)] = vc[r][t]
    <3> DEFINE x == Store(r, t)
               p == CHOOSE p \in BlockRows \X Lanes : x = Store(p[1], p[2])
    <3>1. x \in CAddr(call)
      BY <2>2
    <3>2. p \in BlockRows \X Lanes /\ x = Store(p[1], p[2])
      <4>1. <<r, t>> \in BlockRows \X Lanes /\ x = Store(<<r, t>>[1], <<r, t>>[2])
        OBVIOUS
      <4> QED BY <4>1
    <3> HIDE DEF p
    <3>3. p[1] \in BlockRows /\ p[2] \in Lanes
      BY <3>2
    <3>4. At(p[1], call.ldc, j + p[2]) = At(r, call.ldc, j + t)
      BY <3>2 DEF Store
    <3>5. p[1] = r /\ j + p[2] = j + t
      BY <1>t, <2>2, <3>3, <3>4, BlockCells
    <3>6. p[2] = t
      BY <1>t, <3>3, <3>5 DEF Lanes
    <3>7. C'[x] = vc[p[1]][p[2]]
      BY <1>3, <3>1 DEF TileStore, p
    <3> QED BY <3>5, <3>6, <3>7
  <2>4. ASSUME NEW x \in CAddr(call), \A r \in BlockRows, t \in Lanes : x # Store(r, t)
        PROVE  C'[x] = C[x]
    BY <1>3, <2>4 DEF TileStore
  <2>5. TypeOK'
    <3>1. Lanes' = Lanes /\ DOMAIN C' = CAddr(call)
      BY <1>3 DEF TileStore, Lanes
    <3> QED BY <1>3, <1>t, <2>1, <3>1 DEF TileStore, TypeOK
  <2>6. ColumnInv'
    <3>1. ASSUME NEW r \in BlockRows, NEW c \in Cols(call)
          PROVE  C'[At(r, call.ldc, c)] =
                   IF c < j + vl THEN Reference(call, r, c) ELSE <<Old(At(r, call.ldc, c))>>
      <4> DEFINE x == At(r, call.ldc, c)
      <4>1. CASE c >= j /\ c < j + vl
        <5>1. c - j \in Lanes /\ j + (c - j) = c
          BY <1>t, <4>1 DEF Lanes, Cols
        <5>2. C'[x] = vc[r][c - j]
          BY <2>3, <5>1 DEF Store
        <5>3. vc[r][c - j] = SubSeq(Reference(call, r, c), 1, call.k + 2)
          BY <1>3, <1>t, <2>1, <5>1 DEF TileStore, LaneInv
        <5> QED BY <1>t, <4>1, <5>2, <5>3, WholePrefix
      <4>2. CASE ~ (c >= j /\ c < j + vl)
        <5>1. x \in CAddr(call)
          BY <1>t, BlockCells
        <5>2. ASSUME NEW r2 \in BlockRows, NEW t \in Lanes, x = Store(r2, t)
              PROVE  FALSE
          <6>1. c = j + t
            BY <1>t, <2>2, <5>2, BlockCells DEF Store
          <6> QED BY <1>t, <4>2, <6>1 DEF Lanes
        <5>3. C'[x] = C[x]
          BY <2>4, <5>1, <5>2
        <5>4. c < j + vl <=> c < j
          BY <1>t, <4>2 DEF Cols
        <5> QED BY <1>t, <5>3, <5>4 DEF ColumnInv
      <4> QED BY <4>1, <4>2
    <3>2. ASSUME NEW x \in CAddr(call) \ Block(call)
          PROVE  C'[x] = <<Old(x)>>
      <4>1. C'[x] = C[x]
        BY <2>2, <2>4
      <4> QED BY <1>t, <4>1 DEF ColumnInv
    <3>3. call' = call /\ j' = j + vl
      BY <1>3 DEF TileStore
    <3> QED BY <3>1, <3>2, <3>3 DEF ColumnInv
  <2>7. LaneInv' /\ (pc = "done" => j = call.n)'
    BY <1>3 DEF TileStore, LaneInv
  <2> QED BY <2>5, <2>6, <2>7 DEF IndInv
<1>4. CASE TileExit
  <2>1. TypeOK'
    BY <1>4, <1>t DEF TileExit, TypeOK, Lanes
  <2>2. LaneInv' /\ ColumnInv' /\ (pc = "done" => j = call.n)'
    BY <1>4, <1>t DEF TileExit, LaneInv, ColumnInv
  <2> QED BY <2>1, <2>2 DEF IndInv
<1>5. CASE UNCHANGED vars
  BY <1>5 DEF vars, IndInv, TypeOK, LaneInv, ColumnInv, Lanes
<1> QED BY <1>1, <1>2, <1>3, <1>4, <1>5 DEF Next

\* opt_gemm_blocked keeps its inductive invariant for every set of shapes,
\* vector length and block height.
THEOREM Invariance == Spec => []IndInv
<1>1. Init => IndInv
  BY InitIndInv
<1>2. IndInv /\ [Next]_vars => IndInv'
  BY NextIndInv
<1> QED BY <1>1, <1>2, PTL DEF Spec

\* At the return no column is left, so every cell has its result.
LEMMA IndInvCorrect == IndInv => Correct
<1> SUFFICES ASSUME IndInv, pc = "done", NEW r \in Rows(call), NEW c \in Cols(call)
             PROVE  C[At(r, call.ldc, c)] = Reference(call, r, c)
  BY DEF Correct
<1>1. r \in BlockRows /\ c < j
  BY CallType DEF IndInv, Cols
<1> QED BY <1>1 DEF IndInv, ColumnInv

\* Whenever opt_gemm_blocked returns (gemm.c:435), every cell of C has been
\* computed in the order of scalar_gemm: its result is scalar_gemm's.
THEOREM Correctness == Spec => []Correct
<1>1. IndInv => Correct
  BY IndInvCorrect
<1> QED BY <1>1, Invariance, PTL

-----------------------------------------------------------------------------
\* Columns j .. j + vl - 1 of one row of B: what an iteration loads.
LEMMA TileOfB ==
  ASSUME IndInv, pc = "reduce", NEW p \in 0 .. call.k - 1, NEW p2 \in 0 .. call.k - 1,
         NEW c \in 0 .. call.ldb - 1
  PROVE  At(p, call.ldb, c) \in {At(p2, call.ldb, j + t) : t \in Lanes}
           <=> p = p2 /\ j <= c /\ c < j + vl
<1>1. /\ call.ldb \in Nat /\ call.n <= call.ldb /\ call.n \in Nat /\ call.k \in Nat
      /\ j \in Nat /\ vl \in Nat /\ p \in Nat /\ p2 \in Nat /\ c \in Nat /\ c < call.ldb
  BY CallType, ShapeType DEF IndInv, TypeOK
<1>2. j + vl <= call.n
  BY DEF IndInv, LaneInv
<1>3. ASSUME NEW t \in Lanes, At(p, call.ldb, c) = At(p2, call.ldb, j + t)
      PROVE  p = p2 /\ j <= c /\ c < j + vl
  <2>1. j + t \in Nat /\ j + t < call.ldb /\ j <= j + t /\ j + t < j + vl
    BY <1>1, <1>2 DEF Lanes
  <2>2. p = p2 /\ c = j + t
    BY <1>1, <1>3, <2>1, AtInjective
  <2> QED BY <2>1, <2>2
<1>4. ASSUME p = p2, j <= c, c < j + vl
      PROVE  c - j \in Lanes /\ j + (c - j) = c
  BY <1>1, <1>4 DEF Lanes
<1> QED BY <1>3, <1>4

\* The counts start at 0, and every step keeps them in step with the loops.
LEMMA InitLoaded == Init => LoadedOnce
<1> SUFFICES ASSUME Init PROVE LoadedOnce
  OBVIOUS
<1>1. /\ call \in Shapes /\ call.k \in Nat /\ call.ldb \in Nat
  BY ShapeType DEF Init
<1>2. ASSUME NEW p \in 0 .. call.k - 1, NEW c \in 0 .. call.ldb - 1
      PROVE  bLoads[At(p, call.ldb, c)] = 0 /\ ~ (c < j)
  <2>1. At(p, call.ldb, c) \in BAddr(call)
    BY <1>1, AtInRange DEF BAddr
  <2>2. bLoads = [y \in BAddr(call) |-> 0] /\ j = 0 /\ c \in Nat
    BY <1>1 DEF Init
  <2> QED BY <2>1, <2>2
<1> QED BY <1>2 DEF LoadedOnce, Init

\* No step loads a row of B twice for one l.
LEMMA NextLoaded == IndInv /\ LoadedOnce /\ [Next]_vars => LoadedOnce'
<1> SUFFICES ASSUME IndInv, LoadedOnce, [Next]_vars PROVE LoadedOnce'
  OBVIOUS
<1>n. /\ call \in Shapes /\ call.k \in Nat /\ call.n \in Nat /\ call.ldb \in Nat
      /\ j \in Nat /\ l \in 0 .. call.k /\ vl \in Nat /\ VLMAX \in Nat
  BY CallType, ShapeType DEF IndInv, TypeOK
<1>1. CASE TileEnter
  <2>1. /\ pc = "tile" /\ pc' = "reduce" /\ l' = 0
        /\ call' = call /\ j' = j /\ bLoads' = bLoads
    BY <1>1 DEF TileEnter
  <2>2. \A p \in 0 .. call.k - 1 : ~ (p < 0)
    BY <1>n
  <2> QED BY <2>1, <2>2 DEF LoadedOnce
<1>2. CASE Accumulate
  <2>1. /\ pc = "reduce" /\ pc' = "reduce" /\ l < call.k /\ l' = l + 1
        /\ call' = call /\ j' = j /\ vl' = vl
        /\ bLoads' = [y \in BAddr(call) |->
                        IF y \in {At(l, call.ldb, j + t) : t \in Lanes}
                        THEN bLoads[y] + 1 ELSE bLoads[y]]
    BY <1>2 DEF Accumulate
  <2>2. ASSUME NEW p \in 0 .. call.k - 1, NEW c \in 0 .. call.ldb - 1
        PROVE  bLoads'[At(p, call.ldb, c)] =
                 IF c < j \/ (c < j + vl /\ p < l + 1) THEN 1 ELSE 0
    <3>1. At(p, call.ldb, c) \in BAddr(call)
      BY <1>n, AtInRange DEF BAddr
    <3>2. l \in 0 .. call.k - 1
      BY <1>n, <2>1
    <3>3. bLoads'[At(p, call.ldb, c)] =
            IF p = l /\ j <= c /\ c < j + vl
            THEN bLoads[At(p, call.ldb, c)] + 1 ELSE bLoads[At(p, call.ldb, c)]
      BY <2>1, <3>1, <3>2, TileOfB
    <3>4. bLoads[At(p, call.ldb, c)] = IF c < j \/ (c < j + vl /\ p < l) THEN 1 ELSE 0
      BY <2>1 DEF LoadedOnce
    <3>5. p \in Int /\ c \in Int /\ l \in Int /\ (c < j => c < j + vl)
      BY <1>n
    <3>6. CASE p = l /\ j <= c /\ c < j + vl
      <4>1. bLoads[At(p, call.ldb, c)] = 0
        BY <1>n, <3>4, <3>5, <3>6
      <4>2. c < j + vl /\ p < l + 1
        BY <3>5, <3>6
      <4> QED BY <3>3, <3>6, <4>1, <4>2
    <3>7. CASE ~ (p = l /\ j <= c /\ c < j + vl)
      <4>1. (c < j \/ (c < j + vl /\ p < l)) <=> (c < j \/ (c < j + vl /\ p < l + 1))
        BY <1>n, <3>5, <3>7
      <4> QED BY <3>3, <3>4, <3>7, <4>1
    <3> QED BY <3>6, <3>7
  <2> SUFFICES ASSUME NEW p \in 0 .. call.k - 1, NEW c \in 0 .. call.ldb - 1
               PROVE  bLoads'[At(p, call.ldb, c)] =
                        IF c < j \/ (c < j + vl /\ p < l + 1) THEN 1 ELSE 0
    BY <2>1 DEF LoadedOnce
  <2> QED BY <2>2
<1>3. CASE TileStore
  <2>1. /\ pc = "reduce" /\ pc' = "tile" /\ l = call.k
        /\ call' = call /\ j' = j + vl /\ bLoads' = bLoads
    BY <1>3, <1>n DEF TileStore
  <2>2. ASSUME NEW p \in 0 .. call.k - 1, NEW c \in 0 .. call.ldb - 1
        PROVE  bLoads[At(p, call.ldb, c)] = IF c < j + vl THEN 1 ELSE 0
    <3>1. p < l /\ (c < j => c < j + vl)
      BY <1>n, <2>1
    <3> QED BY <2>1, <3>1 DEF LoadedOnce
  <2> QED BY <2>1, <2>2 DEF LoadedOnce
<1>4. CASE TileExit
  BY <1>4 DEF TileExit, LoadedOnce
<1>5. CASE UNCHANGED vars
  BY <1>5 DEF vars, LoadedOnce
<1> QED BY <1>1, <1>2, <1>3, <1>4, <1>5 DEF Next

\* "B[l,:] is loaded exactly once per l" (gemm.c:259), at any time and for
\* every shape, vector length and block height.
THEOREM LoadedOnceAlways == Spec => []LoadedOnce
<1>1. Init => LoadedOnce
  BY InitLoaded
<1>2. IndInv /\ LoadedOnce /\ [Next]_vars => LoadedOnce'
  BY NextLoaded
<1> QED BY <1>1, <1>2, Invariance, PTL DEF Spec

-----------------------------------------------------------------------------
\* The contract's copy of the operators of GemmValues.
LEMMA SameSums ==
  ASSUME NEW v, NEW ref
  PROVE  Contract!SumsTo(v, ref) = SumsTo(v, ref)
BY DEF Contract!SumsTo, SumsTo, Contract!Places, Places, Contract!Zero, Zero

\* Its reference is the order of scalar_gemm.
LEMMA SameReference ==
  ASSUME NEW s, NEW r, NEW c
  PROVE  Contract!Reference(s, r, c) = Reference(s, r, c)
BY DEF Contract!Reference, Reference, Contract!At, At, Contract!Old, Old,
       Contract!Beta, Beta, Contract!Prod, Prod

\* Its block of C is the one a call addresses.
LEMMA SameBlock ==
  ASSUME NEW s
  PROVE  /\ Contract!Block(s) = Block(s) /\ Contract!CAddr(s) = CAddr(s)
         /\ Contract!Rows(s) = Rows(s) /\ Contract!Cols(s) = Cols(s)
BY DEF Contract!Block, Block, Contract!CAddr, CAddr, Contract!Rows, Rows,
       Contract!Cols, Cols, Contract!At, At

\* A call of opt_gemm_blocked begins as the contract does.
LEMMA ContractInit == Init => Contract!Init
BY SameBlock DEF Init, Contract!Init, Contract!Old, Old

\* A step that is not the return leaves the padding alone: it is Work.
LEMMA ContractWork ==
  ASSUME IndInv, IndInv', UNCHANGED call, pc # "done", pc' # "done"
  PROVE  Contract!Work
<1>1. /\ \A x \in CAddr(call) \ Block(call) : C[x] = <<Old(x)>> /\ C'[x] = <<Old(x)>>
      /\ CAddr(call') = CAddr(call)
  BY DEF IndInv, ColumnInv
<1> QED BY <1>1, SameBlock DEF Contract!Work

\* The exit of the tile loop returns with the result in place.
LEMMA ContractReturn ==
  ASSUME IndInv, IndInv', TileExit
  PROVE  Contract!Return
<1>1. call' = call /\ C' = C /\ pc # "done" /\ pc' = "done" /\ call \in Shapes
  BY DEF TileExit, IndInv, TypeOK
<1>2. ASSUME NEW r \in Rows(call), NEW c \in Cols(call)
      PROVE  SumsTo([q \in {0} |-> C[At(r, call.ldc, c)]], Reference(call, r, c))
  <2>1. Correct'
    BY IndInvCorrect, PTL
  <2>2. C[At(r, call.ldc, c)] = Reference(call, r, c)
    BY <1>1, <2>1 DEF Correct
  <2> QED BY <1>1, <2>2, ReferenceSums
<1>3. ASSUME NEW r \in Rows(call), NEW c \in Cols(call)
      PROVE  At(r, call.ldc, c) \in CAddr(call)
  BY <1>1, BlockCells
<1>4. \A r \in Rows(call), c \in Cols(call) :
        Contract!SumsTo([x \in CAddr(call) |-> [q \in {0} |-> C[x]]][At(r, call.ldc, c)],
                        Contract!Reference(call, r, c))
  BY <1>2, <1>3, SameSums, SameReference
<1> QED BY <1>1, <1>4, SameBlock DEF Contract!Return, Contract!At, At

\* Every step is one of the contract's or leaves what it sees alone.
LEMMA ContractStep == IndInv /\ IndInv' /\ [Next]_vars => [Contract!Next]_(Contract!vars)
<1> SUFFICES ASSUME IndInv, IndInv', [Next]_vars
             PROVE  Contract!Next \/ UNCHANGED Contract!vars
  OBVIOUS
<1>1. CASE TileExit
  BY <1>1, ContractReturn DEF Contract!Next
<1>2. CASE Next /\ ~ TileExit
  <2>1. UNCHANGED call /\ pc # "done" /\ pc' # "done"
    BY <1>2 DEF Next, TileEnter, Accumulate, TileStore
  <2> QED BY <2>1, ContractWork DEF Contract!Next
<1>3. CASE UNCHANGED vars
  BY <1>3 DEF vars, Contract!vars
<1> QED BY <1>1, <1>2, <1>3

\* opt_gemm_blocked implements the contract of a GEMM kernel for every set of
\* shapes, vector length and block height: each result cell sums the right
\* operations exactly once, and no cell outside the block ever changes.
THEOREM Refinement == Spec => ImplementsContract
<1>1. Init => Contract!Init
  BY ContractInit
<1>2. IndInv /\ IndInv' /\ [Next]_vars => [Contract!Next]_(Contract!vars)
  BY ContractStep
<1> QED BY <1>1, <1>2, Invariance, PTL DEF Spec, ImplementsContract, Contract!Spec

-----------------------------------------------------------------------------
(* The dataflow picture (gen_opt_gemm_blocked_dataflow_svg.py).  A box is  *)
(* known by its column and its row, a line by the sides of the boxes it    *)
(* joins: no two sides of boxes coincide, so a line joins one pair.        *)

\* Where a column of boxes begins and ends, and the columns with one box a row.
LeftOf(c)  == ColumnX[c][1] * PX
RightOf(c) == (ColumnX[c][1] + ColumnX[c][2]) * PX
PerRow == {"init", "a", "fma", "store"}

\* The columns' sides, left to right: no two coincide.
LEMMA ColumnEnds ==
  /\ LeftOf("init") = 5600 /\ RightOf("init") = 20800
  /\ LeftOf("a") = 24000 /\ RightOf("a") = 36000
  /\ LeftOf("b") = 39200 /\ RightOf("b") = 55200
  /\ LeftOf("fma") = 60000 /\ RightOf("fma") = 76800
  /\ LeftOf("store") = 80800 /\ RightOf("store") = 95200
BY DEF LeftOf, RightOf, ColumnX, PX

\* Columns have whole places and widths.
LEMMA ColumnNumbers ==
  ASSUME NEW c \in PerRow \cup {"b"}
  PROVE  ColumnX[c][1] \in Nat /\ ColumnX[c][2] \in Nat
BY DEF PerRow, ColumnX

\* The rows of boxes are evenly spaced.
LEMMA RowHeight ==
  ASSUME NEW q \in Int
  PROVE  row_y(q) = 13600 + q * 3200 /\ row_y(q) \in Int
BY DEF row_y, PX

\* The shared box of B sits halfway down them.
LEMMA MidHeight ==
  ASSUME NEW n \in Nat
  PROVE  mid_y(n) = 13600 + (n - 1) * 1600 /\ mid_y(n) \in Int
BY DEF mid_y, row_y, PX

\* The box of a column in a row.
LEMMA RowNode ==
  ASSUME NEW n, NEW c \in PerRow, NEW q \in 0 .. n - 1
  PROVE  /\ <<c, q>> \in DOMAIN nodes(n)
         /\ nodes(n)[<<c, q>>] = Node(ColumnX[c][1], row_y(q), ColumnX[c][2], 26)
<1>1. <<c, q>> \in ({"init", "a", "fma", "store"} \X (0 .. n - 1)) \cup {Shared}
  BY DEF PerRow
<1>2. <<c, q>> # Shared /\ <<c, q>>[1] = c /\ <<c, q>>[2] = q
  BY DEF Shared, PerRow
<1> QED BY <1>1, <1>2 DEF nodes

\* The one box of B.
LEMMA SharedNode ==
  ASSUME NEW n
  PROVE  /\ Shared \in DOMAIN nodes(n)
         /\ nodes(n)[Shared] = Node(ColumnX["b"][1], mid_y(n), ColumnX["b"][2], 74)
BY DEF nodes

\* There are no other boxes.
LEMMA NodesOnly ==
  ASSUME NEW n, NEW z \in DOMAIN nodes(n)
  PROVE  z = Shared \/ \E c \in PerRow, q \in 0 .. n - 1 : z = <<c, q>>
BY DEF nodes, PerRow

\* Where lines leave and enter the box of a column in a row.
LEMMA RowEnds ==
  ASSUME NEW n \in Nat, NEW c \in PerRow, NEW q \in 0 .. n - 1
  PROVE  /\ Left(nodes(n)[<<c, q>>]) = <<LeftOf(c), row_y(q)>>
         /\ Right(nodes(n)[<<c, q>>]) = <<RightOf(c), row_y(q)>>
<1>1. ColumnX[c][1] \in Int /\ ColumnX[c][2] \in Int /\ row_y(q) \in Int
  BY ColumnNumbers, RowHeight
<1>2. PICK x, w, y : x = ColumnX[c][1] /\ w = ColumnX[c][2] /\ y = row_y(q)
  OBVIOUS
<1>3. nodes(n)[<<c, q>>] = Node(x, y, w, 26)
  BY <1>2, RowNode
<1>4. Left(Node(x, y, w, 26)) = <<x * PX, y>> /\ Right(Node(x, y, w, 26)) = <<(x + w) * PX, y>>
  <2>1. x \in Int /\ w \in Int /\ y \in Int /\ 26 \in Int
    BY <1>1, <1>2
  <2> QED BY <2>1, BoxEnds
<1> QED BY <1>2, <1>3, <1>4 DEF LeftOf, RightOf

\* Where lines leave and enter the box of B.
LEMMA SharedEnds ==
  ASSUME NEW n \in Nat
  PROVE  /\ Left(nodes(n)[Shared]) = <<LeftOf("b"), mid_y(n)>>
         /\ Right(nodes(n)[Shared]) = <<RightOf("b"), mid_y(n)>>
<1>1. ColumnX["b"][1] \in Int /\ ColumnX["b"][2] \in Int /\ mid_y(n) \in Int
  BY ColumnNumbers, MidHeight
<1>2. PICK x \in Int, w \in Int, y \in Int : x = ColumnX["b"][1] /\ w = ColumnX["b"][2] /\ y = mid_y(n)
  BY <1>1
<1>3. nodes(n)[Shared] = Node(x, y, w, 74)
  BY <1>2, SharedNode
<1>4. Left(Node(x, y, w, 74)) = <<x * PX, y>> /\ Right(Node(x, y, w, 74)) = <<(x + w) * PX, y>>
  BY BoxEnds
<1> QED BY <1>2, <1>3, <1>4 DEF LeftOf, RightOf

\* The lines drawn: from init to a, a to fma, b to fma and fma to store.
LEMMA Lines ==
  ASSUME NEW n, NEW line
  PROVE  line \in elbows(n) <=>
           \E q \in 0 .. n - 1 :
             \/ line = << <<RightOf("init"), row_y(q)>>, <<LeftOf("a"), row_y(q)>> >>
             \/ line = << <<RightOf("a"), row_y(q)>>, <<LeftOf("fma"), row_y(q)>> >>
             \/ line = << <<RightOf("b"), mid_y(n)>>, <<LeftOf("fma"), row_y(q)>> >>
             \/ line = << <<RightOf("fma"), row_y(q)>>, <<LeftOf("store"), row_y(q)>> >>
<1>1. line \in elbows(n) <=>
        \E q \in 0 .. n - 1 :
          line \in {Elbow("init", row_y(q), "a", row_y(q)), Elbow("a", row_y(q), "fma", row_y(q)),
                    Elbow("b", mid_y(n), "fma", row_y(q)), Elbow("fma", row_y(q), "store", row_y(q))}
  BY DEF elbows
<1>2. ASSUME NEW from, NEW to, NEW y1, NEW y2
      PROVE  Elbow(from, y1, to, y2) = << <<RightOf(from), y1>>, <<LeftOf(to), y2>> >>
  BY DEF Elbow, LeftOf, RightOf
<1> QED BY <1>1, <1>2, Zenon

\* Different rows of boxes are at different heights.
LEMMA RowsDiffer ==
  ASSUME NEW q1 \in Int, NEW q2 \in Int, row_y(q1) = row_y(q2)
  PROVE  q1 = q2
BY RowHeight

\* An fma box is joined to its row's box of A and to the shared box of B alone.
LEMMA FmaInputs ==
  ASSUME NEW n \in Nat, NEW r \in 0 .. n - 1
  PROVE  {z \in DOMAIN nodes(n) : Joined(nodes(n), elbows(n), z, <<"fma", r>>)} = {<<"a", r>>, Shared}
<1>0. Left(nodes(n)[<<"fma", r>>]) = <<LeftOf("fma"), row_y(r)>>
  BY RowEnds DEF PerRow
<1>1. ASSUME NEW z \in DOMAIN nodes(n), Joined(nodes(n), elbows(n), z, <<"fma", r>>)
      PROVE  z \in {<<"a", r>>, Shared}
  <2>1. PICK x, y : Right(nodes(n)[z]) = <<x, y>> /\ (z = Shared \/ \E c \in PerRow, q \in 0 .. n - 1 :
                       z = <<c, q>> /\ x = RightOf(c) /\ y = row_y(q))
    BY NodesOnly, RowEnds, SharedEnds
  <2>2. << <<x, y>>, <<LeftOf("fma"), row_y(r)>> >> \in elbows(n)
    BY <1>0, <1>1, <2>1 DEF Joined
  <2>3. PICK q \in 0 .. n - 1 :
             \/ << <<x, y>>, <<LeftOf("fma"), row_y(r)>> >> = << <<RightOf("init"), row_y(q)>>, <<LeftOf("a"), row_y(q)>> >>
             \/ << <<x, y>>, <<LeftOf("fma"), row_y(r)>> >> = << <<RightOf("a"), row_y(q)>>, <<LeftOf("fma"), row_y(q)>> >>
             \/ << <<x, y>>, <<LeftOf("fma"), row_y(r)>> >> = << <<RightOf("b"), mid_y(n)>>, <<LeftOf("fma"), row_y(q)>> >>
             \/ << <<x, y>>, <<LeftOf("fma"), row_y(r)>> >> = << <<RightOf("fma"), row_y(q)>>, <<LeftOf("store"), row_y(q)>> >>
    BY <2>2, Lines
  <2>4. row_y(r) = row_y(q) /\ ((x = RightOf("a") /\ y = row_y(q)) \/ x = RightOf("b"))
    BY <2>3, ColumnEnds
  <2>5. q = r
    BY <2>4, RowsDiffer
  <2>6. CASE z = Shared
    BY <2>6
  <2>7. ASSUME NEW c \in PerRow, NEW p \in 0 .. n - 1, z = <<c, p>>, x = RightOf(c), y = row_y(p)
        PROVE  z = <<"a", r>>
    <3>1. c = "a"
      BY <2>4, <2>7, ColumnEnds DEF PerRow
    <3>2. p = q
      BY <2>4, <2>7, <3>1, ColumnEnds, RowsDiffer
    <3> QED BY <2>5, <2>7, <3>1, <3>2
  <2> QED BY <2>1, <2>6, <2>7
<1>2. Joined(nodes(n), elbows(n), <<"a", r>>, <<"fma", r>>) /\ <<"a", r>> \in DOMAIN nodes(n)
  <2>1. Right(nodes(n)[<<"a", r>>]) = <<RightOf("a"), row_y(r)>> /\ <<"a", r>> \in DOMAIN nodes(n)
    BY RowEnds, RowNode DEF PerRow
  <2> QED BY <1>0, <2>1, Lines DEF Joined
<1>3. Joined(nodes(n), elbows(n), Shared, <<"fma", r>>) /\ Shared \in DOMAIN nodes(n)
  <2>1. Right(nodes(n)[Shared]) = <<RightOf("b"), mid_y(n)>> /\ Shared \in DOMAIN nodes(n)
    BY SharedEnds, SharedNode
  <2> QED BY <1>0, <2>1, Lines DEF Joined
<1> QED BY <1>1, <1>2, <1>3

\* A store box is joined to its row's fma alone, the load of C to the row's a.
LEMMA StoreInputs ==
  ASSUME NEW n \in Nat, NEW r \in 0 .. n - 1
  PROVE  /\ {z \in DOMAIN nodes(n) : Joined(nodes(n), elbows(n), z, <<"store", r>>)} = {<<"fma", r>>}
         /\ Joined(nodes(n), elbows(n), <<"init", r>>, <<"a", r>>)
<1>0. Left(nodes(n)[<<"store", r>>]) = <<LeftOf("store"), row_y(r)>>
  BY RowEnds DEF PerRow
<1>1. ASSUME NEW z \in DOMAIN nodes(n), Joined(nodes(n), elbows(n), z, <<"store", r>>)
      PROVE  z = <<"fma", r>>
  <2>1. PICK x, y : /\ Right(nodes(n)[z]) = <<x, y>>
                    /\ \/ z = Shared /\ x = RightOf("b")
                       \/ \E c \in PerRow, q \in 0 .. n - 1 : z = <<c, q>> /\ x = RightOf(c) /\ y = row_y(q)
    BY NodesOnly, RowEnds, SharedEnds
  <2>2. << <<x, y>>, <<LeftOf("store"), row_y(r)>> >> \in elbows(n)
    BY <1>0, <1>1, <2>1 DEF Joined
  <2>3. PICK q \in 0 .. n - 1 :
             \/ << <<x, y>>, <<LeftOf("store"), row_y(r)>> >> = << <<RightOf("init"), row_y(q)>>, <<LeftOf("a"), row_y(q)>> >>
             \/ << <<x, y>>, <<LeftOf("store"), row_y(r)>> >> = << <<RightOf("a"), row_y(q)>>, <<LeftOf("fma"), row_y(q)>> >>
             \/ << <<x, y>>, <<LeftOf("store"), row_y(r)>> >> = << <<RightOf("b"), mid_y(n)>>, <<LeftOf("fma"), row_y(q)>> >>
             \/ << <<x, y>>, <<LeftOf("store"), row_y(r)>> >> = << <<RightOf("fma"), row_y(q)>>, <<LeftOf("store"), row_y(q)>> >>
    BY <2>2, Lines
  <2>4. row_y(r) = row_y(q) /\ x = RightOf("fma") /\ y = row_y(q)
    BY <2>3, ColumnEnds
  <2>5. q = r
    BY <2>4, RowsDiffer
  <2>6. z # Shared
    <3>1. CASE z = Shared
      BY <2>1, <2>4, <3>1, ColumnEnds DEF Shared, PerRow
    <3> QED BY <3>1
  <2>7. ASSUME NEW c \in PerRow, NEW p \in 0 .. n - 1, z = <<c, p>>, x = RightOf(c), y = row_y(p)
        PROVE  z = <<"fma", r>>
    <3>1. c = "fma"
      BY <2>4, <2>7, ColumnEnds DEF PerRow
    <3>2. p = q
      <4>1. row_y(p) = row_y(q) /\ p \in Int /\ q \in Int
        BY <2>4, <2>7
      <4> QED BY <4>1, RowsDiffer
    <3> QED BY <2>5, <2>7, <3>1, <3>2
  <2> QED BY <2>1, <2>6, <2>7
<1>2. Joined(nodes(n), elbows(n), <<"fma", r>>, <<"store", r>>) /\ <<"fma", r>> \in DOMAIN nodes(n)
  <2>1. Right(nodes(n)[<<"fma", r>>]) = <<RightOf("fma"), row_y(r)>> /\ <<"fma", r>> \in DOMAIN nodes(n)
    BY RowEnds, RowNode DEF PerRow
  <2> QED BY <1>0, <2>1, Lines DEF Joined
<1>3. Joined(nodes(n), elbows(n), <<"init", r>>, <<"a", r>>)
  <2>1. /\ Right(nodes(n)[<<"init", r>>]) = <<RightOf("init"), row_y(r)>>
        /\ Left(nodes(n)[<<"a", r>>]) = <<LeftOf("a"), row_y(r)>>
    BY RowEnds DEF PerRow
  <2> QED BY <2>1, Lines DEF Joined
<1> QED BY <1>1, <1>2, <1>3

\* No line is loose.
LEMMA EndsMeet ==
  ASSUME NEW n \in Nat
  PROVE  NoLooseEnds(nodes(n), elbows(n))
<1> SUFFICES ASSUME NEW line \in elbows(n)
             PROVE  \E u, v \in DOMAIN nodes(n) : line = <<Right(nodes(n)[u]), Left(nodes(n)[v])>>
  BY DEF NoLooseEnds
<1>1. PICK q \in 0 .. n - 1 :
             \/ line = << <<RightOf("init"), row_y(q)>>, <<LeftOf("a"), row_y(q)>> >>
             \/ line = << <<RightOf("a"), row_y(q)>>, <<LeftOf("fma"), row_y(q)>> >>
             \/ line = << <<RightOf("b"), mid_y(n)>>, <<LeftOf("fma"), row_y(q)>> >>
             \/ line = << <<RightOf("fma"), row_y(q)>>, <<LeftOf("store"), row_y(q)>> >>
  BY Lines
<1>2. \A c \in PerRow : /\ <<c, q>> \in DOMAIN nodes(n)
                        /\ Left(nodes(n)[<<c, q>>]) = <<LeftOf(c), row_y(q)>>
                        /\ Right(nodes(n)[<<c, q>>]) = <<RightOf(c), row_y(q)>>
  BY RowNode, RowEnds
<1>3. Shared \in DOMAIN nodes(n) /\ Right(nodes(n)[Shared]) = <<RightOf("b"), mid_y(n)>>
  BY SharedNode, SharedEnds
<1>4. "init" \in PerRow /\ "a" \in PerRow /\ "fma" \in PerRow /\ "store" \in PerRow
  BY DEF PerRow
<1> QED BY <1>1, <1>2, <1>3, <1>4

\* No two boxes overlap, and on the canvas there is room for 16 rows.
LEMMA BoxesApart ==
  ASSUME NEW n \in 1 .. 16
  PROVE  Legible(nodes(n), 1260, 900)
<1>1. ASSUME NEW c \in PerRow, NEW q \in 0 .. n - 1
      PROVE  LET box == nodes(n)[<<c, q>>] IN
               /\ box.x = LeftOf(c) /\ box.x + box.w = RightOf(c)
               /\ box.top = 12560 + q * 3200 /\ box.h = 2080 /\ box.w \in Int
  <2>1. PICK x, w, y : x = ColumnX[c][1] /\ w = ColumnX[c][2] /\ y = row_y(q)
    OBVIOUS
  <2>2. nodes(n)[<<c, q>>] = Node(x, y, w, 26)
    BY <2>1, RowNode
  <2>3. x \in Int /\ w \in Int /\ y = 13600 + q * 3200 /\ q \in Int
    BY <2>1, ColumnNumbers, RowHeight
  <2>4. LeftOf(c) = x * 80 /\ RightOf(c) = (x + w) * 80
    BY <2>1 DEF LeftOf, RightOf, PX
  <2>5. /\ Node(x, y, w, 26).x = x * 80 /\ Node(x, y, w, 26).w = w * 80
        /\ Node(x, y, w, 26).top = y - (26 * 80) \div 2 /\ Node(x, y, w, 26).h = 26 * 80
    BY DEF Node, PX
  <2>6. (26 * 80) \div 2 = 1040 /\ 26 * 80 = 2080
    OBVIOUS
  <2> QED BY <2>2, <2>3, <2>4, <2>5, <2>6
<1>2. LET box == nodes(n)[Shared] IN
        /\ box.x = 39200 /\ box.w = 16000
        /\ box.top = 13600 + (n - 1) * 1600 - 2960 /\ box.h = 5920
  <2>1. PICK y : y = mid_y(n)
    OBVIOUS
  <2>2. nodes(n)[Shared] = Node(490, y, 200, 74)
    BY <2>1, SharedNode DEF ColumnX
  <2>3. y = 13600 + (n - 1) * 1600
    BY <2>1, MidHeight
  <2>5. /\ Node(490, y, 200, 74).x = 490 * 80 /\ Node(490, y, 200, 74).w = 200 * 80
        /\ Node(490, y, 200, 74).top = y - (74 * 80) \div 2 /\ Node(490, y, 200, 74).h = 74 * 80
    BY DEF Node, PX
  <2>6. (74 * 80) \div 2 = 2960 /\ 74 * 80 = 5920
    OBVIOUS
  <2> QED BY <2>2, <2>3, <2>5, <2>6
<1>3. ASSUME NEW c \in PerRow, NEW q \in 0 .. n - 1, NEW d \in PerRow, NEW p \in 0 .. n - 1,
             <<c, q>> # <<d, p>>
      PROVE  Apart(nodes(n)[<<c, q>>], nodes(n)[<<d, p>>])
  <2>1. CASE c = d
    <3>1. q # p
      BY <1>3, <2>1
    <3> QED BY <1>1, <3>1 DEF Apart
  <2>2. CASE c # d
    <3>1. RightOf(c) < LeftOf(d) \/ RightOf(d) < LeftOf(c)
      BY <2>2, ColumnEnds DEF PerRow
    <3> QED BY <1>1, <3>1 DEF Apart
  <2> QED BY <2>1, <2>2
<1>4. ASSUME NEW c \in PerRow, NEW q \in 0 .. n - 1
      PROVE  Apart(nodes(n)[<<c, q>>], nodes(n)[Shared]) /\ Apart(nodes(n)[Shared], nodes(n)[<<c, q>>])
  <2>1. RightOf(c) < 39200 \/ 39200 + 16000 < LeftOf(c)
    BY ColumnEnds DEF PerRow
  <2> QED BY <1>1, <1>2, <2>1 DEF Apart
<1>5. ASSUME NEW c \in PerRow, NEW q \in 0 .. n - 1
      PROVE  Inside(nodes(n)[<<c, q>>], Canvas(1260, 900))
  <2>1. 0 <= LeftOf(c) /\ RightOf(c) <= 1260 * 80
    BY ColumnEnds DEF PerRow
  <2>2. 0 <= 12560 + q * 3200 /\ 12560 + q * 3200 + 2080 <= 900 * 80
    OBVIOUS
  <2> QED BY <1>1, <2>1, <2>2 DEF Inside, Canvas, PX
<1>6. Inside(nodes(n)[Shared], Canvas(1260, 900))
  BY <1>2 DEF Inside, Canvas, PX
<1>7. ASSUME NEW u \in DOMAIN nodes(n), NEW v \in DOMAIN nodes(n), u # v
      PROVE  Apart(nodes(n)[u], nodes(n)[v])
  BY <1>3, <1>4, <1>7, NodesOnly
<1>8. \A u \in DOMAIN nodes(n) : Inside(nodes(n)[u], Canvas(1260, 900))
  BY <1>5, <1>6, NodesOnly
<1> QED BY <1>7, <1>8 DEF Legible

\* SharedLoadDrawn, part by part: the picture is that of any tile of up to 16
\* rows, and LaneInv says what its accumulators have started from.
LEMMA SharedLoadShown == TypeOK /\ LaneInv => SharedLoadDrawn
<1> SUFFICES ASSUME TypeOK, LaneInv PROVE SharedLoadDrawn
  OBVIOUS
<1>1. FlowLegible
  <2>1. 16 \in Nat /\ 16 \in 1 .. 16
    OBVIOUS
  <2> QED BY <2>1, BoxesApart, EndsMeet DEF FlowLegible, N_LANES
<1>2. ASSUME pc = "reduce", NEW r \in BlockRows, NEW t \in Lanes
      PROVE  /\ vc[r][t][1] = Old(Store(InitRow(r), t))
             /\ l < call.k => Product(r, t)[2] = At(ARow(r), call.lda, l)
             /\ Store(r, t) = At(StoreRow(r), call.ldc, j + t)
  <2>1. vc[r][t] = SubSeq(Reference(call, r, j + t), 1, l + 2)
    BY <1>2 DEF LaneInv
  <2>2. call.k \in Nat /\ l \in 0 .. call.k
    BY ShapeType DEF TypeOK
  <2>3. vc[r][t][1] = Old(At(r, call.ldc, j + t))
    <3>1. Reference(call, r, j + t)[1] = Old(At(r, call.ldc, j + t))
      BY <2>2 DEF Reference
    <3>2. SubSeq(Reference(call, r, j + t), 1, l + 2)
            = [x \in 1 .. l + 2 |-> Reference(call, r, j + t)[x]]
      BY <2>2 DEF Reference
    <3> QED BY <2>1, <2>2, <3>1, <3>2
  <2> QED BY <2>3 DEF InitRow, ARow, StoreRow, Store, Product, Prod
<1>3. ASSUME NEW r \in BlockRows
      PROVE  /\ {z \in DOMAIN BlockNodes : Joined(BlockNodes, BlockElbows, z, <<"fma", r>>)}
                  = {<<"a", r>>, Shared}
             /\ Joined(BlockNodes, BlockElbows, <<"init", r>>, <<"a", r>>)
             /\ {z \in DOMAIN BlockNodes : Joined(BlockNodes, BlockElbows, z, <<"store", r>>)}
                  = {<<"fma", r>>}
  BY BlockAssumption, FmaInputs, StoreInputs DEF BlockNodes, BlockElbows, BlockRows
<1> QED BY <1>1, <1>2, <1>3 DEF SharedLoadDrawn

\* The dataflow picture of doc/ shows what the tile at work does, in every call
\* (gen_opt_gemm_blocked_dataflow_svg.py:127-167, gemm.c:292-343).
THEOREM SharedLoadPicture == Spec => []SharedLoadDrawn
<1>1. IndInv => SharedLoadDrawn
  BY SharedLoadShown DEF IndInv
<1> QED BY <1>1, Invariance, PTL

-----------------------------------------------------------------------------
(* The array picture (gen_opt_gemm_blocked_arrays_svg.py).                 *)

\* Where the drawn arrows begin and end.
LEMMA ScalarArrow ==
  ASSUME NEW d, NEW r \in DrawnRows(d)
  PROVE  /\ ScalarFan(d)[r].x1 = A_X + d.L * CELL + CELL \div 2
         /\ ScalarFan(d)[r].y1 = A_Y + r * CELL - 4 * PX
         /\ ScalarFan(d)[r].x2 = B_X(d) - 14 * PX
         /\ ScalarFan(d)[r].y2 = lane_y(d, r)
         /\ VectorFan(d)[r].x1 = B_X(d) + d.N * CELL
         /\ VectorFan(d)[r].y1 = lane_y(d, r)
         /\ VectorFan(d)[r].x2 = C_X(d) - 14 * PX
         /\ VectorFan(d)[r].y2 = C_Y + r * CELL + CELL \div 2
BY DEF ScalarFan, VectorFan, Arrow

\* Both fans of the picture in doc/ are such fans.
LEMMA PictureFans == FansLegible
<1> DEFINE d == Illustration
<1>0. d.M = 16 /\ d.K = 12 /\ d.N = 16 /\ d.L = 5 /\ d.J0 = 6 /\ d.J_SPAN = 4
  BY DEF Illustration
<1> HIDE DEF d
<1>1. PX = 80 /\ CELL = 1920 /\ A_X = 5600 /\ A_Y = 18400 /\ C_Y = 18400 /\ CELL \div 2 = 960
  BY DEF PX, CELL, A_X, A_Y, C_Y
<1>2. B_X(d) = 39840 /\ C_X(d) = 81760
  BY <1>0, <1>1 DEF B_X, C_X
<1>3. B_Y(d) = 23200
  <2>1. (16 * 1920) \div 2 = 15360
    OBVIOUS
  <2> QED BY <1>0, <1>1, <2>1 DEF B_Y
<1>4. DrawnRows(d) = 0 .. 15 /\ DOMAIN ScalarFan(d) = 0 .. 15 /\ DOMAIN VectorFan(d) = 0 .. 15
  BY <1>0 DEF DrawnRows, ScalarFan, VectorFan
<1>5. /\ \A r \in 0 .. 15 : lane_y(d, r) = 32800 + ((2 * r + 1) * CELL) \div (2 * 16)
      /\ \A r \in 0 .. 15 : lane_y(d, r) \in Int
      /\ \A q, r \in 0 .. 15 : q < r => lane_y(d, q) <= lane_y(d, r)
  <2>1. \A r \in 0 .. 15 : lane_y(d, r) = 32800 + ((2 * r + 1) * CELL) \div (2 * 16)
    BY <1>0, <1>1, <1>3 DEF lane_y
  <2>2. \A q, r \in 0 .. 15 : q <= r => ((2 * q + 1) * 1920) \div (2 * 16) <= ((2 * r + 1) * 1920) \div (2 * 16)
    OBVIOUS
  <2>3. \A r \in 0 .. 15 : ((2 * r + 1) * 1920) \div (2 * 16) \in Int
    OBVIOUS
  <2> QED BY <1>1, <2>1, <2>2, <2>3
<1>6. Uncrossed(ScalarFan(d))
  <2>1. \A r \in 0 .. 15 : /\ ScalarFan(d)[r].x1 = 16160 /\ ScalarFan(d)[r].x2 = 38720
                          /\ ScalarFan(d)[r].y1 = 18400 + r * 1920 - 320 /\ ScalarFan(d)[r].y2 = lane_y(d, r)
    BY <1>0, <1>1, <1>2, <1>4, ScalarArrow
  <2>2. Smaller(40 * PX, ((38720 - 16160) * 7) \div 20) = 3200
    BY <1>1 DEF Smaller
  <2>3. \A r \in 0 .. 15 : ScalarFan(d)[r].y1 \in Int /\ ScalarFan(d)[r].y2 \in Int
    BY <1>5, <2>1
  <2>4. \A q, r \in 0 .. 15 : q < r => /\ ScalarFan(d)[q].y1 <= ScalarFan(d)[r].y1
                                       /\ ScalarFan(d)[q].y2 <= ScalarFan(d)[r].y2
    BY <1>5, <2>1
  <2>5. PICK arrows : arrows = ScalarFan(d)
    OBVIOUS
  <2>6. Uncrossed(arrows)
    <3>1. DOMAIN arrows = 0 .. 15 /\ DOMAIN arrows \subseteq Int
      BY <1>4, <2>5
    <3>2. PICK X1 \in Int, X2 \in Int, f \in Nat : X1 = 16160 /\ X2 = 38720 /\ f = 3200 /\ X1 + f <= X2 - f
      OBVIOUS
    <3>0. \A n \in DOMAIN arrows : /\ arrows[n].x1 = 16160 /\ arrows[n].x2 = 38720
                                  /\ arrows[n].y1 \in Int /\ arrows[n].y2 \in Int
      BY <2>1, <2>3, <2>5, <3>1
    <3>3. \A n \in DOMAIN arrows : /\ arrows[n].x1 = X1 /\ arrows[n].x2 = X2 /\ FanStep(arrows[n]) = f
                                  /\ arrows[n].y1 \in Int /\ arrows[n].y2 \in Int
      BY <2>2, <3>0, <3>2 DEF FanStep
    <3>4. \A n, m \in DOMAIN arrows : n < m =>
            arrows[n].y1 <= arrows[m].y1 /\ arrows[n].y2 <= arrows[m].y2
      BY <2>4, <2>5, <3>1
    <3>5. FanBetween(arrows, X1, X2, f)
      <4>1. DOMAIN arrows \subseteq Int /\ X1 + f <= X2 - f
        BY <3>1, <3>2
      <4> QED BY <3>3, <3>4, <4>1, Zenon DEF FanBetween
    <3> QED BY <3>5, FanDrawn
  <2> QED BY <2>5, <2>6
<1>7. Uncrossed(VectorFan(d))
  <2>1. \A r \in 0 .. 15 : /\ VectorFan(d)[r].x1 = 70560 /\ VectorFan(d)[r].x2 = 80640
                          /\ VectorFan(d)[r].y1 = lane_y(d, r) /\ VectorFan(d)[r].y2 = 18400 + r * 1920 + 960
    BY <1>0, <1>1, <1>2, <1>4, ScalarArrow
  <2>2. Smaller(40 * PX, ((80640 - 70560) * 7) \div 20) = 3200
    BY <1>1 DEF Smaller
  <2>3. \A r \in 0 .. 15 : VectorFan(d)[r].y1 \in Int /\ VectorFan(d)[r].y2 \in Int
    BY <1>5, <2>1
  <2>4. \A q, r \in 0 .. 15 : q < r => /\ VectorFan(d)[q].y1 <= VectorFan(d)[r].y1
                                       /\ VectorFan(d)[q].y2 <= VectorFan(d)[r].y2
    BY <1>5, <2>1
  <2>5. PICK arrows : arrows = VectorFan(d)
    OBVIOUS
  <2>6. Uncrossed(arrows)
    <3>1. DOMAIN arrows = 0 .. 15 /\ DOMAIN arrows \subseteq Int
      BY <1>4, <2>5
    <3>2. PICK X1 \in Int, X2 \in Int, f \in Nat : X1 = 70560 /\ X2 = 80640 /\ f = 3200 /\ X1 + f <= X2 - f
      OBVIOUS
    <3>0. \A n \in DOMAIN arrows : /\ arrows[n].x1 = 70560 /\ arrows[n].x2 = 80640
                                  /\ arrows[n].y1 \in Int /\ arrows[n].y2 \in Int
      BY <2>1, <2>3, <2>5, <3>1
    <3>3. \A n \in DOMAIN arrows : /\ arrows[n].x1 = X1 /\ arrows[n].x2 = X2 /\ FanStep(arrows[n]) = f
                                  /\ arrows[n].y1 \in Int /\ arrows[n].y2 \in Int
      BY <2>2, <3>0, <3>2 DEF FanStep
    <3>4. \A n, m \in DOMAIN arrows : n < m =>
            arrows[n].y1 <= arrows[m].y1 /\ arrows[n].y2 <= arrows[m].y2
      BY <2>4, <2>5, <3>1
    <3>5. FanBetween(arrows, X1, X2, f)
      <4>1. DOMAIN arrows \subseteq Int /\ X1 + f <= X2 - f
        BY <3>1, <3>2
      <4> QED BY <3>3, <3>4, <4>1, Zenon DEF FanBetween
    <3> QED BY <3>5, FanDrawn
  <2> QED BY <2>5, <2>6
<1> QED BY <1>6, <1>7 DEF FansLegible, d

\* What is shaded for the tile at work: column l of A, the tile's columns of
\* row l of B, and the tile of C.
LEMMA TileCells ==
  ASSUME TypeOK, pc = "reduce", l < call.k, j + vl <= call.n
  PROVE  /\ Shaded(A_grid(Shown), "scalar") = BlockRows \X {l}
         /\ Shaded(B_grid(Shown), "vector") = {l} \X J_Cols(Shown)
         /\ Shaded(C_grid(Shown), "vector") = BlockRows \X J_Cols(Shown)
         /\ J_Cols(Shown) = {j + t : t \in Lanes}
<1> DEFINE d == Shown
<1>0. d.M = BLOCK /\ d.K = call.k /\ d.N = call.n /\ d.L = l /\ d.J0 = j /\ d.J_SPAN = vl
  BY DEF Shown
<1>1. DrawnRows(d) = BlockRows /\ J_Cols(d) = j .. j + vl - 1
  BY <1>0 DEF DrawnRows, J_Cols, BlockRows
<1>2. call.k \in Nat /\ call.n \in Nat /\ l \in Nat /\ j \in Nat /\ vl \in Nat /\ BLOCK \in Nat
  BY BlockAssumption, ShapeType DEF TypeOK
<1> HIDE DEF d
<1>3. \A rows, cols, vector, scalar, rc :
        /\ rc \in Shaded(matrix_grid(rows, cols, vector, scalar), "scalar")
             <=> rc \in (0 .. rows - 1) \X (0 .. cols - 1) /\ rc \notin vector /\ rc \in scalar
        /\ rc \in Shaded(matrix_grid(rows, cols, vector, scalar), "vector")
             <=> rc \in (0 .. rows - 1) \X (0 .. cols - 1) /\ rc \in vector
  BY DEF Shaded, matrix_grid
<1>4. /\ BlockRows \X {l} \subseteq (0 .. BLOCK - 1) \X (0 .. call.k - 1)
      /\ {l} \X (j .. j + vl - 1) \subseteq (0 .. call.k - 1) \X (0 .. call.n - 1)
      /\ BlockRows \X (j .. j + vl - 1) \subseteq (0 .. BLOCK - 1) \X (0 .. call.n - 1)
  BY <1>2 DEF BlockRows
<1>5. Shaded(A_grid(d), "scalar") = BlockRows \X {l}
  BY <1>0, <1>1, <1>3, <1>4 DEF A_grid
<1>6. Shaded(B_grid(d), "vector") = {l} \X J_Cols(d)
  BY <1>0, <1>1, <1>3, <1>4 DEF B_grid
<1>7. Shaded(C_grid(d), "vector") = BlockRows \X J_Cols(d)
  BY <1>0, <1>1, <1>3, <1>4 DEF C_grid
<1>8. J_Cols(d) = {j + t : t \in Lanes}
  <2>1. ASSUME NEW c \in j .. j + vl - 1 PROVE c - j \in Lanes /\ c = j + (c - j)
    BY <1>2 DEF Lanes
  <2>2. \A t \in Lanes : j + t \in j .. j + vl - 1
    BY <1>2 DEF Lanes
  <2> QED BY <1>1, <2>1, <2>2
<1> QED BY <1>5, <1>6, <1>7, <1>8 DEF d

\* The addresses of the cells of rows R and columns S.
LEMMA PairAddresses ==
  ASSUME NEW ld, NEW R, NEW S
  PROVE  /\ \A r \in R, c \in S : At(r, ld, c) \in Addresses(ld, R \X S)
         /\ \A x \in Addresses(ld, R \X S) : \E r \in R, c \in S : x = At(r, ld, c)
<1>1. ASSUME NEW r \in R, NEW c \in S
      PROVE  At(r, ld, c) \in Addresses(ld, R \X S)
  <2>1. <<r, c>> \in R \X S /\ <<r, c>>[1] = r /\ <<r, c>>[2] = c
    OBVIOUS
  <2>2. \A rc \in R \X S : At(rc[1], ld, rc[2]) \in Addresses(ld, R \X S)
    BY DEF Addresses
  <2> QED BY <2>1, <2>2
<1>2. ASSUME NEW x \in Addresses(ld, R \X S)
      PROVE  \E r \in R, c \in S : x = At(r, ld, c)
  <2>1. PICK rc \in R \X S : x = At(rc[1], ld, rc[2])
    BY <1>2 DEF Addresses
  <2>2. rc[1] \in R /\ rc[2] \in S
    BY <2>1
  <2> QED BY <2>1, <2>2
<1> QED BY <1>1, <1>2

\* The shaded cells are the elements in use.
LEMMA TileUse ==
  ASSUME vl \in Nat, vl > 0, BLOCK \in Nat \ {0}, NEW J,
         \A t \in Lanes : j + t \in J, \A c \in J : \E t \in Lanes : c = j + t
  PROVE  /\ Addresses(call.lda, BlockRows \X {l}) = UsedA
         /\ Addresses(call.ldb, {l} \X J) = UsedB
         /\ Addresses(call.ldc, BlockRows \X J) = UsedC
<1>1. 0 \in Lanes /\ 0 \in BlockRows
  BY DEF Lanes, BlockRows
<1>2. \A r, t : Product(r, t)[2] = At(r, call.lda, l) /\ Product(r, t)[3] = At(l, call.ldb, j + t)
  BY DEF Product, Prod
<1>3. PICK R, P : R = BlockRows /\ P = Products
  OBVIOUS
<1>4. /\ \A r \in R, t \in Lanes : Product(r, t) \in P
      /\ \A p \in P : \E r \in R, t \in Lanes : p = Product(r, t)
  BY <1>3 DEF Products
<1>5. Addresses(call.lda, BlockRows \X {l}) = UsedA
  <2>1. PICK ld, Q, G, H : ld = call.lda /\ Q = {l} /\ G = Addresses(ld, R \X Q) /\ H = UsedA
    OBVIOUS
  <2>2. /\ \A r \in R, c \in Q : At(r, ld, c) \in G
        /\ \A x \in G : \E r \in R, c \in Q : x = At(r, ld, c)
    BY <2>1, PairAddresses
  <2>3. (\A p \in P : p[2] \in H) /\ (\A x \in H : \E p \in P : x = p[2])
    <3>1. H = {p[2] : p \in P}
      BY <1>3, <2>1, Zenon DEF UsedA
    <3> QED BY <3>1
  <2>4. ASSUME NEW x \in G PROVE x \in H
    <3>0. PICK r \in R, c \in Q : x = At(r, ld, c)
      BY <2>2
    <3>1. x = At(r, ld, l)
      BY <2>1, <3>0
    <3>2. Product(r, 0) \in P /\ Product(r, 0)[2] = x
      BY <1>1, <1>2, <1>4, <2>1, <3>1
    <3> QED BY <2>3, <3>2
  <2>5. ASSUME NEW x \in H PROVE x \in G
    <3>1. PICK r \in R, t \in Lanes : x = Product(r, t)[2]
      BY <1>4, <2>3
    <3>2. x = At(r, ld, l) /\ l \in Q
      BY <1>2, <2>1, <3>1
    <3> QED BY <2>2, <3>2
  <2>6. G = H
    BY <2>4, <2>5
  <2> QED BY <1>3, <2>1, <2>6
<1>6. Addresses(call.ldb, {l} \X J) = UsedB
  <2>1. PICK ld, Q, G, H : ld = call.ldb /\ Q = {l} /\ G = Addresses(ld, Q \X J) /\ H = UsedB
    OBVIOUS
  <2>2. /\ \A r \in Q, c \in J : At(r, ld, c) \in G
        /\ \A x \in G : \E r \in Q, c \in J : x = At(r, ld, c)
    BY <2>1, PairAddresses
  <2>3. (\A p \in P : p[3] \in H) /\ (\A x \in H : \E p \in P : x = p[3])
    <3>1. H = {p[3] : p \in P}
      BY <1>3, <2>1, Zenon DEF UsedB
    <3> QED BY <3>1
  <2>4. ASSUME NEW x \in G PROVE x \in H
    <3>1. PICK t \in Lanes : x = At(l, ld, j + t)
      BY <2>1, <2>2
    <3>2. Product(0, t) \in P /\ Product(0, t)[3] = x
      BY <1>1, <1>2, <1>3, <1>4, <2>1, <3>1
    <3> QED BY <2>3, <3>2
  <2>5. ASSUME NEW x \in H PROVE x \in G
    <3>1. PICK r \in R, t \in Lanes : x = Product(r, t)[3]
      BY <1>4, <2>3
    <3>2. x = At(l, ld, j + t) /\ l \in Q /\ j + t \in J
      BY <1>2, <2>1, <3>1
    <3> QED BY <2>2, <3>2
  <2>6. G = H
    BY <2>4, <2>5
  <2> QED BY <2>1, <2>6
<1>7. Addresses(call.ldc, BlockRows \X J) = UsedC
  <2>1. PICK ld, G, H : ld = call.ldc /\ G = Addresses(ld, R \X J) /\ H = UsedC
    OBVIOUS
  <2>2. /\ \A r \in R, c \in J : At(r, ld, c) \in G
        /\ \A x \in G : \E r \in R, c \in J : x = At(r, ld, c)
    <3>1. /\ \A r \in R, c \in J : At(r, ld, c) \in Addresses(ld, R \X J)
          /\ \A x \in Addresses(ld, R \X J) : \E r \in R, c \in J : x = At(r, ld, c)
      BY PairAddresses
    <3>2. G = Addresses(ld, R \X J)
      BY <2>1
    <3> QED BY <3>1, <3>2, Zenon
  <2>3. /\ \A r \in R, t \in Lanes : At(r, ld, j + t) \in H
        /\ \A x \in H : \E r \in R, t \in Lanes : x = At(r, ld, j + t)
    BY <1>3, <2>1 DEF UsedC, Store
  <2>4. \A x \in G : x \in H
    BY <2>2, <2>3
  <2>5. \A x \in H : x \in G
    BY <2>2, <2>3
  <2>6. G = H
    BY <2>4, <2>5
  <2> QED BY <1>3, <2>1, <2>6
<1> QED BY <1>5, <1>6, <1>7

\* HourglassDrawn, part by part: the threads by the cells and lanes they pass,
\* the cells by the elements in use, the brackets by the tile's columns.
LEMMA HourglassShown ==
  ASSUME BLOCK <= CELL, TypeOK, LaneInv, pc = "reduce" => vl > 0
  PROVE  HourglassDrawn
<1> SUFFICES ASSUME pc = "reduce", l < call.k
             PROVE  /\ CellsShown(Shown) /\ BracketsShown(Shown)
                    /\ \A r \in BlockRows : ThreadShown(Shown, r)
  BY PictureFans DEF HourglassDrawn
<1>2. /\ call.k \in Nat /\ call.n \in Nat /\ l \in Nat /\ j \in Nat /\ vl \in Nat /\ vl > 0
      /\ BLOCK \in Nat \ {0} /\ BLOCK <= CELL
      /\ j + vl <= call.n
  BY BlockAssumption, ShapeType DEF TypeOK, LaneInv
<1>4. \A r, t : Product(r, t)[2] = At(r, call.lda, l)
  BY DEF Product, Prod
<1> DEFINE d == Shown
<1>8. d.M = BLOCK /\ d.K = call.k /\ d.N = call.n /\ d.L = l /\ d.J0 = j /\ d.J_SPAN = vl
  BY DEF Shown
<1>9. DrawnRows(d) = BlockRows
  BY <1>8 DEF DrawnRows, BlockRows
<1> HIDE DEF d
<1>10. /\ PX = 80 /\ CELL = 1920 /\ A_X = 5600 /\ A_Y = 18400 /\ C_Y = 18400 /\ CELL \div 2 = 960
  BY DEF PX, CELL, A_X, A_Y, C_Y
<1>11. /\ B_X(d) = 16800 + call.k * 1920 /\ C_X(d) = 28000 + call.k * 1920 + call.n * 1920
  BY <1>2, <1>8, <1>10 DEF B_X, C_X
<1>12. B_Y(d) \in Int
  <2>1. (BLOCK * 1920) \div 2 \in Int
    BY <1>2
  <2> QED BY <1>2, <1>8, <1>10, <2>1 DEF B_Y
<1>13. \A x \in Int, y \in Nat : y < 1920 => (x * 1920 + y) \div 1920 = x
  OBVIOUS
<1>14. ASSUME NEW r \in BlockRows
       PROVE  ThreadShown(d, r)
  <2>0. r \in Int /\ r \in 0 .. BLOCK - 1
    BY <1>2 DEF BlockRows
  <2>1. /\ ScalarFan(d)[r].x1 = 5600 + l * 1920 + 960 /\ ScalarFan(d)[r].y1 = 18400 + r * 1920 - 320
        /\ ScalarFan(d)[r].y2 = lane_y(d, r)
        /\ VectorFan(d)[r].y1 = lane_y(d, r) /\ VectorFan(d)[r].y2 = 18400 + r * 1920 + 960
    BY <1>8, <1>9, <1>10, ScalarArrow
  <2>2. RowAt(ScalarFan(d)[r].y1 + 4 * PX, A_Y) = r
    <3>1. (18400 + r * 1920 - 320 + 4 * 80) - 18400 = r * 1920 + 0
      BY <2>0
    <3> QED BY <1>10, <1>13, <2>0, <2>1, <3>1 DEF RowAt
  <2>3. ColAt(ScalarFan(d)[r].x1, A_X) = l
    <3>1. ScalarFan(d)[r].x1 - A_X = l * 1920 + 960
      BY <1>2, <1>10, <2>1
    <3> QED BY <1>2, <1>10, <1>13, <3>1 DEF ColAt
  <2>4. /\ RowAt(VectorFan(d)[r].y2, C_Y) = r /\ RowAt(VectorFan(d)[r].y2, A_Y) = r
    <3>1. VectorFan(d)[r].y2 - 18400 = r * 1920 + 960
      BY <2>0, <2>1
    <3> QED BY <1>10, <1>13, <2>0, <3>1 DEF RowAt
  <2>few. PICK m \in Nat \ {0} : m = BLOCK /\ m <= 1920 /\ r \in 0 .. m - 1
    BY <1>2, <1>10, <2>0
  <2>5. PICK f \in Nat : f = LaneAt(BLOCK, r) /\ f < 1920
    BY <2>few, LaneAtBounds
  <2>6. lane_y(d, r) = B_Y(d) + l * 1920 + f
    BY <1>8, <1>10, <2>5 DEF lane_y, LaneAt
  <2>7. RowAt(ScalarFan(d)[r].y2, B_Y(d)) = l
    <3>1. PICK y \in Int, z \in Int : y = ScalarFan(d)[r].y2 /\ z = B_Y(d) /\ y = z + l * 1920 + f
      BY <1>2, <1>12, <2>1, <2>6
    <3>2. y - z = l * 1920 + f
      BY <1>2, <3>1
    <3>3. (l * 1920 + f) \div 1920 = l
      BY <1>2, <1>13, <2>5
    <3> QED BY <1>10, <3>1, <3>2, <3>3 DEF RowAt
  <2>8. ASSUME r > 0 PROVE ScalarFan(d)[r - 1].y2 < ScalarFan(d)[r].y2
    <3>1. r - 1 \in BlockRows
      BY <1>2, <2>0, <2>8 DEF BlockRows
    <3>2. ScalarFan(d)[r - 1].y2 = lane_y(d, r - 1)
      <4>1. r - 1 \in DrawnRows(d)
        BY <1>9, <3>1
      <4> QED BY <4>1, ScalarArrow
    <3>3. PICK g \in Nat : g = LaneAt(BLOCK, r - 1) /\ g < f
      <4>1. PICK q \in 0 .. m - 1 : q = r - 1 /\ q < r
        BY <2>few, <3>1 DEF BlockRows
      <4>2. LaneAt(m, q) \in Nat /\ LaneAt(m, q) < 1920
        BY LaneAtBounds
      <4>3. LaneAt(m, q) < LaneAt(m, r)
        BY <2>few, <4>1, LaneAtGrows
      <4> QED BY <2>few, <2>5, <4>1, <4>2, <4>3
    <3>4. lane_y(d, r - 1) = B_Y(d) + l * 1920 + g
      BY <1>8, <1>10, <3>3 DEF lane_y, LaneAt
    <3> QED BY <1>2, <1>12, <2>1, <2>6, <3>2, <3>3, <3>4
  <2> QED BY <1>4, <2>1, <2>2, <2>3, <2>4, <2>7, <2>8 DEF ThreadShown
<1>15. ColAt(Bracket_A(d)[1], A_X) = l
  <2>1. Bracket_A(d)[1] - A_X = l * 1920 + 0
    BY <1>2, <1>8, <1>10 DEF Bracket_A
  <2> QED BY <1>2, <1>10, <1>13, <2>1 DEF ColAt
<1>16. PICK J : J = J_Cols(Shown)
  OBVIOUS
<1>17. /\ Shaded(A_grid(d), "scalar") = BlockRows \X {l}
       /\ VectorB(d) = {l} \X J /\ VectorC(d) = BlockRows \X J
       /\ J = {j + t : t \in Lanes}
  BY <1>2, <1>16, TileCells DEF d, VectorB, VectorC
<1>18. CellsShown(d)
  <2>1. /\ Addresses(call.lda, BlockRows \X {l}) = UsedA
        /\ Addresses(call.ldb, {l} \X J) = UsedB
        /\ Addresses(call.ldc, BlockRows \X J) = UsedC
    <3>1. (\A t \in Lanes : j + t \in J) /\ \A c \in J : \E t \in Lanes : c = j + t
      BY <1>17
    <3> QED BY <1>2, <3>1, TileUse
  <2> QED BY <1>17, <2>1 DEF CellsShown
<1>19. ASSUME NEW c \in J
       PROVE  /\ B_X(d) + c * CELL \in Bracket_B(d)[1] .. Bracket_B(d)[2] - CELL
              /\ C_X(d) + c * CELL \in Bracket_C(d)[1] .. Bracket_C(d)[2] - CELL
  <2>1. c \in Int /\ j <= c /\ c <= j + vl - 1
    BY <1>2, <1>17 DEF Lanes
  <2>2. PICK x \in Int, y \in Int : x = B_X(d) /\ y = C_X(d)
    BY <1>2, <1>11
  <2>3. /\ Bracket_B(d)[1] = x + j * 1920 /\ Bracket_B(d)[2] = x + (j + vl) * 1920
        /\ Bracket_C(d)[1] = y + j * 1920 /\ Bracket_C(d)[2] = y + (j + vl) * 1920
    BY <1>8, <1>10, <2>2 DEF Bracket_B, Bracket_C
  <2> QED BY <1>2, <1>10, <2>1, <2>2, <2>3
<1>20. BracketsShown(d)
  <2>1. \A R, rc : rc \in R \X J => rc[2] \in J
    OBVIOUS
  <2> QED BY <1>15, <1>17, <1>19, <2>1 DEF BracketsShown
<1> QED BY <1>14, <1>18, <1>20 DEF d

\* The array picture of doc/, drawn for the tile at work, shows the elements of
\* A, B and C it uses and joins those that are multiplied, in every call; while
\* each row has a lane of its own in a cell of B (the code has 16 rows, and room
\* for CELL), the threads pass B in their order
\* (gen_opt_gemm_blocked_arrays_svg.py:46-60, 222-243, gemm.c:292-343).
THEOREM HourglassPicture ==
  ASSUME BLOCK <= CELL
  PROVE  Spec => []HourglassDrawn
<1>1. IndInv => HourglassDrawn
  BY HourglassShown DEF IndInv, LaneInv
<1> QED BY <1>1, Invariance, PTL
=============================================================================
