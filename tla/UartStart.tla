------------------------------ MODULE UartStart ------------------------------
(***************************************************************************)
(* The path from main's return to the end of the program in start_uart.S.  *)
(* What follows the call of main in memory is uart_putc, whose ret goes to *)
(* wherever ra points.  One action per stretch of straight-line code.      *)
(***************************************************************************)
EXTENDS Naturals

CONSTANT Statuses    \* what main may return, in a0

VARIABLES pc,     \* "_start", "main", "uart_putc", "_exit" or "ended"
          ra,     \* where a ret goes
          a0,
          thre,   \* is the transmit holding register empty?
          sent    \* the bytes sent, as a set

vars == <<pc, ra, a0, thre, sent>>

Init ==
  /\ pc = "_start" /\ ra = "reset" /\ a0 = 0
  /\ thre = TRUE /\ sent = {}

\* call main: the return address is what comes after the call.
_start ==
  /\ pc = "_start"
  /\ pc' = "main" /\ ra' = "uart_putc"
  /\ UNCHANGED <<a0, thre, sent>>

main ==
  /\ pc = "main"
  /\ a0' \in Statuses
  /\ pc' = ra
  /\ UNCHANGED <<ra, thre, sent>>

\* Poll until the holding register is empty, send the byte, ret.
uart_putc ==
  /\ pc = "uart_putc" /\ thre
  /\ sent' = sent \cup {a0 % 256}
  /\ thre' = FALSE
  /\ pc' = ra
  /\ UNCHANGED <<ra, a0>>

\* m5_exit
_exit ==
  /\ pc = "_exit"
  /\ pc' = "ended"
  /\ UNCHANGED <<ra, a0, thre, sent>>

\* The UART has sent its byte.
Transmitted ==
  /\ ~thre
  /\ thre' = TRUE
  /\ UNCHANGED <<pc, ra, a0, sent>>

Next == _start \/ main \/ uart_putc \/ _exit \/ Transmitted

\* The processor runs on, main returns, and the UART drains.
Spec == /\ Init /\ [][Next]_vars
        /\ WF_vars(_start) /\ WF_vars(main) /\ WF_vars(uart_putc) /\ WF_vars(_exit)
        /\ WF_vars(Transmitted)

-----------------------------------------------------------------------------
\* "fall through to _exit" (start_uart.S:46): once main has returned, the
\* program reaches _exit and the simulation ends.
FallsThroughToExit == <>(pc = "ended")
=============================================================================
