-------------------------- MODULE ScalarGemm_proofs --------------------------
(***************************************************************************)
(* scalar_gemm is correct for every set of shapes.                         *)
(***************************************************************************)
EXTENDS ScalarGemm, KernelLemmas

\* Applying the next operation of its reference to C[i * ldc + j] extends the
\* prefix in that cell by one and leaves every other cell as it is.
LEMMA ApplyStep ==
  ASSUME IndInv, UNCHANGED call, i \in Rows(call), j \in Cols(call),
         Applied(i, j) \in 0 .. call.k,
         Apply(Reference(call, i, j)[Applied(i, j) + 2]),
         \A r \in Rows(call), c \in Cols(call) :
           Applied(r, c)' = IF r = i /\ c = j THEN Applied(r, c) + 1 ELSE Applied(r, c)
  PROVE  DOMAIN C' = CAddr(call) /\ PrefixInv' /\ FrameInv'
<1> DEFINE here == At(i, call.ldc, j)
           op   == Reference(call, i, j)[Applied(i, j) + 2]
<1>1. call \in Shapes /\ DOMAIN C = CAddr(call) /\ PrefixInv /\ FrameInv
  BY DEF IndInv, TypeOK
<1>2. here \in CAddr(call) /\ here \in Block(call)
  BY <1>1, BlockCells
<1>3. C' = [C EXCEPT ![here] = Append(@, op)]
  BY DEF Apply
<1>4. DOMAIN C' = CAddr(call)
  BY <1>1, <1>3
<1>5. C'[here] = Append(C[here], op)
  BY <1>1, <1>2, <1>3
<1>6. \A x \in CAddr(call) : x # here => C'[x] = C[x]
  BY <1>1, <1>3
<1>7. C'[here] = SubSeq(Reference(call, i, j), 1, Applied(i, j) + 2)
  <2>1. C[here] = SubSeq(Reference(call, i, j), 1, Applied(i, j) + 1)
    BY <1>1 DEF PrefixInv
  <2>2. call.k \in Nat /\ Applied(i, j) + 1 \in Nat /\ Applied(i, j) + 1 < call.k + 2
        /\ (Applied(i, j) + 1) + 1 = Applied(i, j) + 2
    BY <1>1, ShapeType
  <2>3. Append(SubSeq(Reference(call, i, j), 1, Applied(i, j) + 1),
               Reference(call, i, j)[(Applied(i, j) + 1) + 1])
          = SubSeq(Reference(call, i, j), 1, (Applied(i, j) + 1) + 1)
    BY <1>1, <2>2, AppendPrefix
  <2> QED BY <1>5, <2>1, <2>2, <2>3
<1>8. ASSUME NEW r \in Rows(call), NEW c \in Cols(call)
      PROVE  C'[At(r, call.ldc, c)] = SubSeq(Reference(call, r, c), 1, Applied(r, c)' + 1)
  <2>1. CASE r = i /\ c = j
    <3>1. Applied(r, c)' + 1 = Applied(i, j) + 2
      BY <2>1
    <3> QED BY <1>7, <2>1, <3>1
  <2>2. CASE ~ (r = i /\ c = j)
    <3>1. At(r, call.ldc, c) # here /\ At(r, call.ldc, c) \in CAddr(call)
      BY <1>1, <2>2, BlockCells
    <3>2. Applied(r, c)' = Applied(r, c)
      BY <2>2
    <3> QED BY <1>1, <1>6, <3>1, <3>2 DEF PrefixInv
  <2> QED BY <2>1, <2>2
<1>9. PrefixInv'
  BY <1>8 DEF PrefixInv
<1>10. FrameInv'
  BY <1>1, <1>2, <1>6 DEF FrameInv
<1> QED BY <1>4, <1>9, <1>10

\* A step that applies no operation keeps the chains if it moves no cell's
\* progress.
LEMMA QuietStep ==
  ASSUME IndInv, UNCHANGED <<call, C>>,
         \A r \in Rows(call), c \in Cols(call) : Applied(r, c)' = Applied(r, c)
  PROVE  DOMAIN C' = CAddr(call) /\ PrefixInv' /\ FrameInv'
BY DEF IndInv, TypeOK, PrefixInv, FrameInv

LEMMA InitIndInv == Init => IndInv
<1> SUFFICES ASSUME Init PROVE IndInv
  OBVIOUS
<1>1. call \in Shapes /\ call.m \in Nat /\ call.n \in Nat /\ call.k \in Nat
  BY ShapeType DEF Init
<1>2. TypeOK
  BY <1>1 DEF Init, TypeOK
<1>3. LoopInv
  BY DEF Init, LoopInv
<1>4. PrefixInv
  <2> SUFFICES ASSUME NEW r \in Rows(call), NEW c \in Cols(call)
               PROVE  C[At(r, call.ldc, c)] = SubSeq(Reference(call, r, c), 1, Applied(r, c) + 1)
    BY DEF PrefixInv
  <2>1. Applied(r, c) + 1 = 1
    BY <1>1 DEF Init, Applied, Rows
  <2>2. C[At(r, call.ldc, c)] = <<Old(At(r, call.ldc, c))>>
    BY <1>1, BlockCells DEF Init
  <2> QED BY <1>1, <2>1, <2>2, FirstPrefix
<1>5. FrameInv
  BY DEF Init, FrameInv
<1> QED BY <1>2, <1>3, <1>4, <1>5 DEF IndInv

\* One case per action; in each, the progress Applied of every cell after the
\* step, then the chains by ApplyStep or QuietStep.
LEMMA NextIndInv == IndInv /\ [Next]_vars => IndInv'
<1> SUFFICES ASSUME IndInv, [Next]_vars PROVE IndInv'
  OBVIOUS
<1>t. /\ call \in Shapes /\ call.m \in Nat /\ call.n \in Nat /\ call.k \in Nat
      /\ i \in 0 .. call.m /\ j \in 0 .. call.n /\ l \in 0 .. call.k
      /\ TypeOK /\ LoopInv
  BY ShapeType DEF IndInv, TypeOK
<1>a. \A r \in Nat, x \in Nat : At(r, call.lda, x) \in Nat
  BY <1>t, ShapeType DEF At
<1>1. CASE RowEnter
  <2>1. TypeOK' /\ LoopInv'
    BY <1>1, <1>t DEF RowEnter, TypeOK, LoopInv
  <2>2. \A r \in Rows(call), c \in Cols(call) : Applied(r, c)' = Applied(r, c)
    BY <1>1, <1>t DEF RowEnter, Applied, Rows, Cols
  <2>3. UNCHANGED <<call, C>>
    BY <1>1 DEF RowEnter
  <2> QED BY <2>1, <2>2, <2>3, QuietStep DEF IndInv
<1>2. CASE RowExit
  <2>1. TypeOK' /\ LoopInv'
    BY <1>2, <1>t DEF RowExit, TypeOK, LoopInv
  <2>2. \A r \in Rows(call), c \in Cols(call) : Applied(r, c)' = Applied(r, c)
    BY <1>2, <1>t DEF RowExit, Applied, Rows, Cols
  <2>3. UNCHANGED <<call, C>>
    BY <1>2 DEF RowExit
  <2> QED BY <2>1, <2>2, <2>3, QuietStep DEF IndInv
<1>3. CASE ScaleCell
  <2>1. i \in Rows(call) /\ j \in Cols(call) /\ UNCHANGED call
    BY <1>3, <1>t DEF ScaleCell, LoopInv, Rows, Cols
  <2>2. Applied(i, j) = 0
    BY <1>3, <1>t DEF ScaleCell, Applied
  <2>3. Reference(call, i, j)[Applied(i, j) + 2] = Beta
    BY <1>t, <2>2 DEF Reference
  <2>4. \A r \in Rows(call), c \in Cols(call) :
          Applied(r, c)' = IF r = i /\ c = j THEN Applied(r, c) + 1 ELSE Applied(r, c)
    BY <1>3, <1>t DEF ScaleCell, Applied, Rows, Cols
  <2>5. Apply(Reference(call, i, j)[Applied(i, j) + 2])
    BY <1>3, <2>3 DEF ScaleCell
  <2>6. DOMAIN C' = CAddr(call) /\ PrefixInv' /\ FrameInv'
    BY <1>t, <2>1, <2>2, <2>4, <2>5, ApplyStep
  <2>7. TypeOK' /\ LoopInv'
    BY <1>3, <1>t, <2>6 DEF ScaleCell, TypeOK, LoopInv
  <2> QED BY <2>6, <2>7 DEF IndInv
<1>4. CASE ScaleExit
  <2>1. TypeOK' /\ LoopInv'
    BY <1>4, <1>t DEF ScaleExit, TypeOK, LoopInv
  <2>2. \A r \in Rows(call), c \in Cols(call) : Applied(r, c)' = Applied(r, c)
    BY <1>4, <1>t DEF ScaleExit, Applied, Rows, Cols
  <2>3. UNCHANGED <<call, C>>
    BY <1>4 DEF ScaleExit
  <2> QED BY <2>1, <2>2, <2>3, QuietStep DEF IndInv
<1>5. CASE LoadA
  <2>0. At(i, call.lda, l) \in Nat
    <3>1. i \in Nat /\ l \in Nat
      BY <1>t
    <3> QED BY <3>1, <1>a
  <2>1. TypeOK' /\ LoopInv'
    BY <1>5, <1>t, <2>0 DEF LoadA, TypeOK, LoopInv
  <2>2. \A r \in Rows(call), c \in Cols(call) : Applied(r, c)' = Applied(r, c)
    BY <1>5, <1>t DEF LoadA, Applied, Rows, Cols
  <2>3. UNCHANGED <<call, C>>
    BY <1>5 DEF LoadA
  <2> QED BY <2>1, <2>2, <2>3, QuietStep DEF IndInv
<1>6. CASE AccCell
  <2>1. i \in Rows(call) /\ j \in Cols(call) /\ UNCHANGED call
    BY <1>6, <1>t DEF AccCell, LoopInv, Rows, Cols
  <2>2. Applied(i, j) = l + 1 /\ l < call.k
    BY <1>6, <1>t DEF AccCell, Applied, LoopInv
  <2>3. Reference(call, i, j)[Applied(i, j) + 2] = Prod(temp_a, At(l, call.ldb, j))
    <3>1. Reference(call, i, j)[l + 3]
            = Prod(At(i, call.lda, (l + 3) - 3), At((l + 3) - 3, call.ldb, j))
      BY <1>t, <2>2 DEF Reference
    <3>2. (l + 3) - 3 = l /\ Applied(i, j) + 2 = l + 3 /\ temp_a = At(i, call.lda, l)
      BY <1>6, <1>t, <2>2 DEF AccCell, LoopInv
    <3> QED BY <3>1, <3>2
  <2>4. \A r \in Rows(call), c \in Cols(call) :
          Applied(r, c)' = IF r = i /\ c = j THEN Applied(r, c) + 1 ELSE Applied(r, c)
    BY <1>6, <1>t DEF AccCell, Applied, Rows, Cols
  <2>5. Apply(Reference(call, i, j)[Applied(i, j) + 2])
    BY <1>6, <2>3 DEF AccCell
  <2>6. DOMAIN C' = CAddr(call) /\ PrefixInv' /\ FrameInv'
    BY <1>t, <2>1, <2>2, <2>4, <2>5, ApplyStep
  <2>7. TypeOK' /\ LoopInv'
    BY <1>6, <1>t, <2>6 DEF AccCell, TypeOK, LoopInv
  <2> QED BY <2>6, <2>7 DEF IndInv
<1>7. CASE AccExit
  <2>1. TypeOK' /\ LoopInv'
    BY <1>7, <1>t DEF AccExit, TypeOK, LoopInv
  <2>2. \A r \in Rows(call), c \in Cols(call) : Applied(r, c)' = Applied(r, c)
    BY <1>7, <1>t DEF AccExit, Applied, Rows, Cols
  <2>3. UNCHANGED <<call, C>>
    BY <1>7 DEF AccExit
  <2> QED BY <2>1, <2>2, <2>3, QuietStep DEF IndInv
<1>8. CASE LoadExit
  <2>1. TypeOK' /\ LoopInv'
    BY <1>8, <1>t DEF LoadExit, TypeOK, LoopInv
  <2>2. \A r \in Rows(call), c \in Cols(call) : Applied(r, c)' = Applied(r, c)
    BY <1>8, <1>t DEF LoadExit, Applied, LoopInv, Rows, Cols
  <2>3. UNCHANGED <<call, C>>
    BY <1>8 DEF LoadExit
  <2> QED BY <2>1, <2>2, <2>3, QuietStep DEF IndInv
<1>9. CASE UNCHANGED vars
  BY <1>9 DEF vars, IndInv, TypeOK, LoopInv, PrefixInv, FrameInv, Applied
<1> QED BY <1>1, <1>2, <1>3, <1>4, <1>5, <1>6, <1>7, <1>8, <1>9 DEF Next

\* scalar_gemm keeps its inductive invariant for every set of shapes: types,
\* loop positions, and each cell a prefix of its reference computation.
THEOREM Invariance == Spec => []IndInv
<1>1. Init => IndInv
  BY InitIndInv
<1>2. IndInv /\ [Next]_vars => IndInv'
  BY NextIndInv
<1> QED BY <1>1, <1>2, PTL DEF Spec

LEMMA IndInvCorrect == IndInv => Correct
<1> SUFFICES ASSUME IndInv, pc = "done", NEW r \in Rows(call), NEW c \in Cols(call)
             PROVE  C[At(r, call.ldc, c)] = Reference(call, r, c)
  BY DEF Correct
<1>1. call \in Shapes /\ call.m \in Nat /\ call.k \in Nat
  BY ShapeType DEF IndInv, TypeOK
<1>2. Applied(r, c) + 1 = call.k + 2
  BY <1>1 DEF IndInv, LoopInv, Applied, Rows
<1>3. C[At(r, call.ldc, c)] = SubSeq(Reference(call, r, c), 1, call.k + 2)
  BY <1>2 DEF IndInv, PrefixInv
<1>4. SubSeq(Reference(call, r, c), 1, call.k + 2) = Reference(call, r, c)
  BY <1>1, WholePrefix
<1> QED BY <1>3, <1>4

\* Whenever scalar_gemm returns (gemm.c:81), every C[i*ldc+j] of the block is
\* the scaled old content plus the k products in the order of l.
THEOREM Correctness == Spec => []Correct
<1>1. IndInv => Correct
  BY IndInvCorrect
<1> QED BY <1>1, Invariance, PTL

-----------------------------------------------------------------------------
\* The contract's copy of the operators of GemmValues.
LEMMA SameSums ==
  ASSUME NEW v, NEW ref
  PROVE  Contract!SumsTo(v, ref) = SumsTo(v, ref)
BY DEF Contract!SumsTo, SumsTo, Contract!Places, Places, Contract!Zero, Zero

LEMMA SameReference ==
  ASSUME NEW s, NEW r, NEW c
  PROVE  Contract!Reference(s, r, c) = Reference(s, r, c)
BY DEF Contract!Reference, Reference, Contract!At, At, Contract!Old, Old,
       Contract!Beta, Beta, Contract!Prod, Prod

LEMMA SameBlock ==
  ASSUME NEW s
  PROVE  /\ Contract!Block(s) = Block(s) /\ Contract!CAddr(s) = CAddr(s)
         /\ Contract!Rows(s) = Rows(s) /\ Contract!Cols(s) = Cols(s)
BY DEF Contract!Block, Block, Contract!CAddr, CAddr, Contract!Rows, Rows,
       Contract!Cols, Cols, Contract!At, At

LEMMA ContractInit == Init => Contract!Init
BY SameBlock DEF Init, Contract!Init, Contract!Old, Old

\* A step that is not the return leaves the padding alone: it is Work.
LEMMA ContractWork ==
  ASSUME IndInv, IndInv', UNCHANGED call, pc # "done", pc' # "done"
  PROVE  Contract!Work
BY SameBlock DEF IndInv, TypeOK, FrameInv, Contract!Work

\* The last exit of the row loop returns with the result in place.
LEMMA ContractReturn ==
  ASSUME IndInv, IndInv', RowExit
  PROVE  Contract!Return
<1>1. call' = call /\ C' = C /\ pc # "done" /\ pc' = "done" /\ call \in Shapes
  BY DEF RowExit, IndInv, TypeOK
<1>2. ASSUME NEW r \in Rows(call), NEW c \in Cols(call)
      PROVE  SumsTo([q \in {0} |-> C[At(r, call.ldc, c)]], Reference(call, r, c))
  <2>1. Correct'
    BY IndInvCorrect, PTL
  <2>2. C[At(r, call.ldc, c)] = Reference(call, r, c)
    BY <1>1, <2>1 DEF Correct
  <2> QED BY <1>1, <2>2, ReferenceSums
<1>3. ASSUME NEW r \in Rows(call), NEW c \in Cols(call)
      PROVE  At(r, call.ldc, c) \in CAddr(call)
  BY <1>1, BlockCells
<1>4. \A r \in Rows(call), c \in Cols(call) :
        Contract!SumsTo([x \in CAddr(call) |-> [q \in {0} |-> C[x]]][At(r, call.ldc, c)],
                        Contract!Reference(call, r, c))
  BY <1>2, <1>3, SameSums, SameReference
<1> QED BY <1>1, <1>4, SameBlock DEF Contract!Return, Contract!At, At

LEMMA ContractStep == IndInv /\ IndInv' /\ [Next]_vars => [Contract!Next]_(Contract!vars)
<1> SUFFICES ASSUME IndInv, IndInv', [Next]_vars
             PROVE  Contract!Next \/ UNCHANGED Contract!vars
  OBVIOUS
<1>1. CASE RowExit
  BY <1>1, ContractReturn DEF Contract!Next
<1>2. CASE Next /\ ~ RowExit
  <2>1. UNCHANGED call /\ pc # "done" /\ pc' # "done"
    BY <1>2 DEF Next, RowEnter, ScaleCell, ScaleExit, LoadA, AccCell, AccExit, LoadExit
  <2> QED BY <2>1, ContractWork DEF Contract!Next
<1>3. CASE UNCHANGED vars
  BY <1>3 DEF vars, Contract!vars
<1> QED BY <1>1, <1>2, <1>3

\* scalar_gemm implements the contract of a GEMM kernel for every set of
\* shapes: each result cell sums the right operations exactly once, and no
\* cell outside the block ever changes.
THEOREM Refinement == Spec => ImplementsContract
<1>1. Init => Contract!Init
  BY ContractInit
<1>2. IndInv /\ IndInv' /\ [Next]_vars => [Contract!Next]_(Contract!vars)
  BY ContractStep
<1> QED BY <1>1, <1>2, Invariance, PTL DEF Spec, ImplementsContract, Contract!Spec
=============================================================================
