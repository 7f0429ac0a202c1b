---------------------------- MODULE GemmContract ----------------------------
(***************************************************************************)
(* What a GEMM kernel promises its caller: C = alpha*(A*B) + beta*C.       *)
(* Until it returns it may leave anything in the block of C it computes,   *)
(* it never touches a cell outside the block, and when it returns every    *)
(* cell of the block sums the scaled old content and each of its k         *)
(* products exactly once.  scalar_gemm, opt_gemm and opt_gemm_blocked each *)
(* implement this.                                                         *)
(***************************************************************************)
EXTENDS GemmValues

VARIABLES call,        \* the arguments of the call
          returned,    \* has the kernel returned?
          C            \* the array C, one sum per cell

vars == <<call, returned, C>>

Init == /\ call \in Shapes
        /\ returned = FALSE
        /\ C = [x \in CAddr(call) |-> [q \in {0} |-> <<Old(x)>>]]

\* The kernel is at work on the block.
Work == /\ ~returned
        /\ UNCHANGED <<call, returned>>
        /\ DOMAIN C' = CAddr(call)
        /\ \A x \in CAddr(call) \ Block(call) : C'[x] = C[x]

\* The kernel returns, and the result is there.
Return == /\ ~returned
          /\ \A r \in Rows(call), c \in Cols(call) :
               SumsTo(C[At(r, call.ldc, c)], Reference(call, r, c))
          /\ returned' = TRUE
          /\ UNCHANGED <<call, C>>

Next == Work \/ Return

Spec == Init /\ [][Next]_vars
=============================================================================
