----------------------------- MODULE ScalarGemm -----------------------------
(***************************************************************************)
(* scalar_gemm of src/src/gemm.c, one action per iteration and per exit of *)
(* each of its four loops.  Every C[i*ldc+j] is updated in memory, so a    *)
(* cell holds the chain of operations applied to it so far.                *)
(***************************************************************************)
EXTENDS GemmValues

VARIABLES call,     \* the arguments
          pc,       \* "row", "scale", "load", "acc" or "done"
          i, j, l,  \* the loop counters
          temp_a,   \* alpha * A[temp_a]: the address A was read at
          C         \* chain of each cell

vars == <<call, pc, i, j, l, temp_a, C>>

Init ==
  /\ call \in Shapes
  /\ pc = "row"
  /\ i = 0 /\ j = 0 /\ l = 0 /\ temp_a = 0
  /\ C = [x \in CAddr(call) |-> <<Old(x)>>]

\* Mutant: a row of C is taken to be n cells long.
ApplyDense(op) == C' = [C EXCEPT ![At(i, call.n, j)] = Append(@, op)]

\* Apply an operation to C[i * ldc + j].
Apply(op) == C' = [C EXCEPT ![At(i, call.ldc, j)] = Append(@, op)]

\* for (int i = 0; i < m; ++i)
RowEnter ==
  /\ pc = "row" /\ i < call.m
  /\ pc' = "scale" /\ j' = 0
  /\ UNCHANGED <<call, i, l, temp_a, C>>

RowExit ==
  /\ pc = "row" /\ i >= call.m
  /\ pc' = "done"
  /\ UNCHANGED <<call, i, j, l, temp_a, C>>

\* for (int j = 0; j < n; ++j) C[i * ldc + j] *= beta
ScaleCell ==
  /\ pc = "scale" /\ j < call.n
  /\ Apply(Beta)
  /\ j' = j + 1
  /\ UNCHANGED <<call, pc, i, l, temp_a>>

ScaleExit ==
  /\ pc = "scale" /\ j >= call.n
  /\ pc' = "load" /\ l' = 0
  /\ UNCHANGED <<call, i, j, temp_a, C>>

\* Mutant: A is read with the stride of B.
LoadAStride ==
  /\ pc = "load" /\ l < call.k
  /\ temp_a' = At(i, call.ldb, l)
  /\ pc' = "acc" /\ j' = 0
  /\ UNCHANGED <<call, i, l, C>>

\* for (int l = 0; l < k; ++l) temp_a = alpha * A[i * lda + l]
LoadA ==
  /\ pc = "load" /\ l < call.k
  /\ temp_a' = At(i, call.lda, l)
  /\ pc' = "acc" /\ j' = 0
  /\ UNCHANGED <<call, i, l, C>>

\* for (int j = 0; j < n; ++j) C[i * ldc + j] += temp_a * B[l * ldb + j]
AccCell ==
  /\ pc = "acc" /\ j < call.n
  /\ Apply(Prod(temp_a, At(l, call.ldb, j)))
  /\ j' = j + 1
  /\ UNCHANGED <<call, pc, i, l, temp_a>>

AccExit ==
  /\ pc = "acc" /\ j >= call.n
  /\ pc' = "load" /\ l' = l + 1
  /\ UNCHANGED <<call, i, j, temp_a, C>>

\* Mutant: the loop over l leaves an iteration early.
LoadExitEarly ==
  /\ pc = "load" /\ l + 1 >= call.k
  /\ pc' = "row" /\ i' = i + 1
  /\ UNCHANGED <<call, j, l, temp_a, C>>

LoadExit ==
  /\ pc = "load" /\ l >= call.k
  /\ pc' = "row" /\ i' = i + 1
  /\ UNCHANGED <<call, j, l, temp_a, C>>

Next == \/ RowEnter \/ RowExit \/ ScaleCell \/ ScaleExit
        \/ LoadA \/ AccCell \/ AccExit \/ LoadExit

Spec == Init /\ [][Next]_vars /\ WF_vars(Next)

-----------------------------------------------------------------------------
\* Type invariant.
TypeOK ==
  /\ call \in Shapes
  /\ pc \in {"row", "scale", "load", "acc", "done"}
  /\ i \in 0 .. call.m
  /\ j \in 0 .. call.n
  /\ l \in 0 .. call.k
  /\ temp_a \in Nat
  /\ DOMAIN C = CAddr(call)

\* How many operations C[r * ldc + c] has received: all of them in a row
\* above i, none in a row below, and in row i what the loops have reached.
Applied(r, c) ==
  IF r < i THEN call.k + 1
  ELSE IF r > i THEN 0
  ELSE CASE pc = "scale" -> IF c < j THEN 1 ELSE 0
         [] pc = "load"  -> l + 1
         [] pc = "acc"   -> IF c < j THEN l + 2 ELSE l + 1
         [] OTHER        -> 0

\* Between any two statements of scalar_gemm (gemm.c:67-80), each cell holds
\* exactly the prefix of its reference computation the loops have reached:
\* no update is applied twice, skipped or applied to a neighbour, and none
\* precedes the scaling by beta.
PrefixInv ==
  \A r \in Rows(call), c \in Cols(call) :
    C[At(r, call.ldc, c)] = SubSeq(Reference(call, r, c), 1, Applied(r, c) + 1)

\* The cells of C between the end of a row of the block and the next row
\* (ldc > n) keep their content: the flat index i*ldc+j never strays.
FrameInv ==
  \A x \in CAddr(call) \ Block(call) : C[x] = <<Old(x)>>

\* Where the loops are: inside a body its guard held, and "temp_a" is the
\* element of A that belongs to row i and step l.
LoopInv ==
  /\ pc \in {"scale", "load", "acc"} => i < call.m
  /\ pc = "acc" => l < call.k /\ temp_a = At(i, call.lda, l)
  /\ pc = "done" => i = call.m

\* The inductive invariant the proofs use.
IndInv == TypeOK /\ LoopInv /\ PrefixInv /\ FrameInv

\* When scalar_gemm returns, C[i*ldc+j] is beta*C + the k products added in
\* the order of l, the result C_ref snapshots as the reference (gemm.c:608).
Correct ==
  pc = "done" => \A r \in Rows(call), c \in Cols(call) :
                   C[At(r, call.ldc, c)] = Reference(call, r, c)

\* scalar_gemm (gemm.c:62-81) implements the contract of a GEMM kernel: a
\* cell of the contract is the sum of one chain.
Contract == INSTANCE GemmContract
              WITH returned <- (pc = "done"),
                   C <- [x \in CAddr(call) |-> [q \in {0} |-> C[x]]]
ImplementsContract == Contract!Spec
=============================================================================
