------------------------------ MODULE SemiStart ------------------------------
(***************************************************************************)
(* start_semi.S: from reset to main, the trap handler, _exit, and the      *)
(* _sbrk newlib's malloc grows the heap with, in the memory the linker     *)
(* script lays out: .data, .bss, heap and stack next to each other in RAM. *)
(* _write has a module of its own, SemiWrite.                              *)
(*                                                                         *)
(* Memory is counted in doublewords: every bound the linker script exports *)
(* is 8-byte aligned, and every access here is an ld or an sd.  main is    *)
(* the environment: it may ask for heap, return or abort.  Any instruction *)
(* may trap, those of _exit and of the handler itself included.            *)
(***************************************************************************)
EXTENDS Integers, FiniteSets

CONSTANTS Layouts,     \* the sizes of .data, .bss, heap and stack
          Statuses,    \* what main may return
          Causes,      \* what a trap may report
          Increments,  \* what malloc may pass to _sbrk
          ADDRESSES    \* the size of the address space: 2^64

ASSUME LayoutAssumption ==
  /\ Layouts \subseteq [data : Nat \ {0}, bss : Nat \ {0}, heap : Nat, stack : Nat]
  /\ Increments \subseteq Int /\ ADDRESSES \in Nat
  /\ \A s \in Layouts : 2 * (s.data + s.bss + s.heap + s.stack) < ADDRESSES
  /\ \A n \in Increments : 2 * n \in -ADDRESSES .. ADDRESSES - 1

VARIABLES lay,       \* the layout
          heap_ptr,  \* where in .bss the word _heap_ptr lies
          pc,        \* "reset", "bss", "data", "main", "exit", "trap",
                     \* "trap_exit" or "halted"
          from, to,  \* t0 and t1 (a0) of the boot loops
          ram,       \* the content of each word
          owned,     \* the words malloc has obtained from _sbrk
          sp,        \* the stack pointer of this code, not of main's frames
          a0,        \* the status main returns, or the cause of a trap
          console    \* what the simulator shows: "trap" and "exit" records

vars == <<lay, heap_ptr, pc, from, to, ram, owned, sp, a0, console>>

\* The linker script: section after section.
_data_start == 0
_data_end   == lay.data
_bss_start  == _data_end
_bss_end    == _bss_start + lay.bss
_heap_start == _bss_end
_heap_end   == _heap_start + lay.heap
_stack_top  == _heap_end + lay.stack

RAM == _data_start .. _stack_top - 1

\* The content of a word: nothing in particular, the initial value of the
\* a-th word of .data (which the loader puts at _data_load), or a number.
Junk       == <<"junk">>
Initial(a) == <<"initial", a>>
Number(x)  == <<"number", x>>

\* trap_msg is in .data.
trap_msg == _data_start

Init ==
  /\ lay \in Layouts
  /\ heap_ptr \in _bss_start .. _bss_end - 1
  /\ pc = "reset"
  /\ from = 0 /\ to = 0 /\ sp = 0 /\ a0 = 0
  /\ ram = [a \in RAM |-> Junk]
  /\ owned = {}
  /\ console = {}

-----------------------------------------------------------------------------
\* Stack, global pointer, mtvec, mstatus; then on to .bss unless it is empty.
StartData ==
  /\ from' = 0 /\ to' = _data_start
  /\ pc' = IF _data_start = _data_end THEN "main" ELSE "data"

_start ==
  /\ pc = "reset"
  /\ IF _bss_start = _bss_end
     THEN StartData
     ELSE from' = 0 /\ to' = _bss_start /\ pc' = "bss"
  /\ sp' = _stack_top
  /\ UNCHANGED <<lay, heap_ptr, ram, owned, a0, console>>

\* Mutant: bleu.
AgainClosed(x, end) == x <= end

\* bltu: does a loop whose pointer is now x, with the bound end, go on?
Again(x, end) == x < end

\* .Lbss_loop
ZeroBss ==
  /\ pc = "bss"
  /\ ram' = [ram EXCEPT ![to] = Number(0)]
  /\ IF Again(to + 1, _bss_end)
     THEN to' = to + 1 /\ UNCHANGED <<from, pc>>
     ELSE StartData
  /\ UNCHANGED <<lay, heap_ptr, owned, sp, a0, console>>

\* .Ldata_loop
CopyData ==
  /\ pc = "data"
  /\ ram' = [ram EXCEPT ![to] = Initial(from)]
  /\ to' = to + 1 /\ from' = from + 1
  /\ pc' = IF Again(to + 1, _data_end) THEN "data" ELSE "main"
  /\ UNCHANGED <<lay, heap_ptr, owned, sp, a0, console>>

-----------------------------------------------------------------------------
\* _sbrk(n).  malloc gives back only what it got, from the end.
Break == IF ram[heap_ptr] = Number(0) THEN _heap_start ELSE ram[heap_ptr][2]

\* Mutant: the check against _heap_end is gone.
FitsAlways(t2) == TRUE

Fits(t2) == t2 <= _heap_end

_sbrk(n) ==
  LET t1 == Break
      t2 == (t1 + n) % ADDRESSES
  IN  /\ pc = "main"
      /\ -n <= Cardinality(owned)
      /\ IF Fits(t2)
         THEN /\ ram' = [ram EXCEPT ![heap_ptr] = Number(t2)]
              /\ owned' = IF n >= 0 THEN owned \cup (t1 .. t1 + n - 1)
                          ELSE owned \ (t1 + n .. t1 - 1)
         ELSE UNCHANGED <<ram, owned>>
      /\ UNCHANGED <<lay, heap_ptr, pc, from, to, sp, a0, console>>

\* main returns, and _start falls through to _exit with its result in a0.
Return ==
  /\ pc = "main"
  /\ a0' \in Statuses
  /\ pc' = "exit"
  /\ UNCHANGED <<lay, heap_ptr, from, to, ram, owned, sp, console>>

\* abort() ends in _kill, which exits with 0 in a0.
_kill ==
  /\ pc = "main"
  /\ a0' = 0
  /\ pc' = "exit"
  /\ UNCHANGED <<lay, heap_ptr, from, to, ram, owned, sp, console>>

\* The memory with n words from s on, which wraps, overwritten.
Stored(s, n) == [a \in RAM |-> IF (a - s) % ADDRESSES < n THEN Junk ELSE ram[a]]

\* SYS_EXIT with the block {ADP_STOPPED_APP_EXIT, status}; the simulator ends.
_exit ==
  /\ pc = "exit"
  /\ ram' = Stored(sp - 2, 2)
  /\ console' = console \cup {[kind |-> "exit", status |-> a0]}
  /\ pc' = "halted"
  /\ UNCHANGED <<lay, heap_ptr, from, to, owned, sp, a0>>

-----------------------------------------------------------------------------
\* The stack pointer the handler may find: anywhere in the stack if main was
\* at work, and the exit blocks move it by 16 bytes.
Interrupted ==
  IF pc = "main" THEN {s \in _heap_end .. _stack_top : (_stack_top - s) % 2 = 0}
  ELSE IF pc \in {"exit", "trap_exit"} THEN {sp, sp - 2} ELSE {sp}

\* An exception, at any instruction from the csrw of mtvec on: also in _exit,
\* and in the handler, which has not moved mtvec and is entered again, 32
\* bytes further down.  Its four stores may have happened by then; the stack
\* never comes back up, so they reach the heap, .bss and .data in the end.
Trap ==
  /\ pc \in {"bss", "data", "main", "exit", "trap", "trap_exit"}
  /\ a0' \in Causes
  /\ \E s \in Interrupted : sp' = (s - 4) % ADDRESSES
  /\ \/ ram' = ram
     \/ pc = "trap" /\ ram' = Stored(sp, 4)
     \/ pc \in {"exit", "trap_exit"} /\ ram' = Stored(sp - 2, 2)
  /\ pc' = "trap"
  /\ UNCHANGED <<lay, heap_ptr, from, to, owned, console>>

\* Mutant: the hex fields keep their zeros.
TrapPrintBlank ==
  /\ pc = "trap"
  /\ ram' = Stored(sp, 4)
  /\ console' = console \cup {[kind |-> "trap", text |-> ram'[trap_msg], cause |-> 0]}
  /\ pc' = "trap_exit"
  /\ UNCHANGED <<lay, heap_ptr, from, to, owned, sp, a0>>

\* a0 .. a3 are saved, the three hex fields are written into trap_msg and
\* SYS_WRITE0 shows it: the text around them is what .data holds there.
TrapPrint ==
  /\ pc = "trap"
  /\ ram' = Stored(sp, 4)
  /\ console' = console \cup {[kind |-> "trap", text |-> ram'[trap_msg], cause |-> a0]}
  /\ pc' = "trap_exit"
  /\ UNCHANGED <<lay, heap_ptr, from, to, owned, sp, a0>>

\* Mutant: the handler starts over.
TrapExitLoops ==
  /\ pc = "trap_exit"
  /\ pc' = "trap"
  /\ UNCHANGED <<lay, heap_ptr, from, to, ram, owned, sp, a0, console>>

\* SYS_EXIT with the block {ADP_STOPPED_APP_EXIT, 0}
TrapExit ==
  /\ pc = "trap_exit"
  /\ ram' = Stored(sp - 2, 2)
  /\ console' = console \cup {[kind |-> "exit", status |-> 0]}
  /\ pc' = "halted"
  /\ UNCHANGED <<lay, heap_ptr, from, to, owned, sp, a0>>

Boot == _start \/ ZeroBss \/ CopyData
End  == _exit \/ TrapPrint \/ TrapExit

Next == \/ Boot \/ End
        \/ Return \/ _kill \/ Trap
        \/ \E n \in Increments : _sbrk(n)

\* The code of this file, where each instruction is executed or traps: which
\* of the two is left open, and a handler may trap for ever.
OwnCode == Boot \/ End \/ (pc # "main" /\ Trap)

\* The processor goes on with this code; main may take for ever.
Spec == Init /\ [][Next]_vars /\ WF_vars(OwnCode)

-----------------------------------------------------------------------------
\* Type invariant.
TypeOK ==
  /\ lay \in Layouts
  /\ heap_ptr \in _bss_start .. _bss_end - 1
  /\ pc \in {"reset", "bss", "data", "main", "exit", "trap", "trap_exit", "halted"}
  /\ from \in 0 .. lay.data
  /\ to \in RAM \cup {_stack_top}
  /\ DOMAIN ram = RAM
  /\ owned \subseteq RAM
  /\ sp \in 0 .. ADDRESSES - 1
  /\ a0 \in Statuses \cup Causes \cup {0}

\* What the boot loops have made of the word a, when .bss is zero below z and
\* .data is copied below d.
Word(a, z, d) == IF a < d THEN Initial(a)
                 ELSE IF a \in _bss_start .. z - 1 THEN Number(0) ELSE Junk

BootInv ==
  /\ pc = "reset" => \A a \in RAM : ram[a] = Word(a, _bss_start, 0)
  /\ pc = "bss"   => /\ to \in _bss_start .. _bss_end - 1
                     /\ \A a \in RAM : ram[a] = Word(a, to, 0)
  /\ pc = "data"  => /\ from = to /\ to \in _data_start .. _data_end - 1
                     /\ \A a \in RAM : ram[a] = Word(a, _bss_end, to)
  /\ pc \in {"reset", "bss", "data"} => owned = {}

\* _heap_ptr is zero until the first _sbrk and the break from then on.
BreakInv ==
  pc = "main" => \E x \in {0} \cup (_heap_start .. _heap_end) : ram[heap_ptr] = Number(x)

\* The last entry of the handler has shown its message, unless .data was not
\* yet copied or the stack has grown down into it.
Shown ==
  ram[trap_msg] = Initial(trap_msg) =>
    [kind |-> "trap", text |-> Initial(trap_msg), cause |-> a0] \in console

\* Nothing is shown before the end, handlers that trap show messages only, and
\* the end is an exit with main's status, or one with 0 after the message.
ConsoleInv ==
  LET Exit(s) == [kind |-> "exit", status |-> s]
  IN  /\ pc \notin {"trap", "trap_exit", "halted"} => console = {}
      /\ pc \in {"trap", "trap_exit"} => \A e \in console : e.kind = "trap"
      /\ pc = "trap_exit" => Shown
      /\ pc = "halted" => \/ console = {Exit(a0)}
                          \/ Shown /\ \A e \in console : e.kind = "trap" \/ e = Exit(0)

\* main starts on the image C promises it, and keeps it but for _heap_ptr:
\* every word of .data has its initial value, every word of .bss is zero,
\* and neither loop went past its section into the heap (start_semi.S:39-60).
Image ==
  pc \in {"main", "exit"} =>
    \A a \in RAM \ {heap_ptr} :
      ram[a] = IF a < _data_end THEN Initial(a)
               ELSE IF a < _bss_end THEN Number(0) ELSE Junk

\* malloc owns exactly the words below the break, all inside the heap, however
\* it grew, shrank and failed to grow: no word is handed out twice and none
\* of .bss or of the stack (start_semi.S:285-301).
HeapInv ==
  pc = "main" => /\ owned = _heap_start .. Break - 1
                 /\ Break \in _heap_start .. _heap_end

\* A trap exits with status 0 like a success, so its message is all there is
\* to tell them apart: a run of main, of _exit or of the handler that ended by
\* a trap has shown the whole message of the last one before the exit, however
\* often the handler was entered again (start_semi.S:177-254).
TrapVisible ==
  \A e \in console :
    /\ e.kind = "exit" /\ e.status # a0      \* not what main returned: a trap
    /\ ram[trap_msg] = Initial(trap_msg)     \* and .data was in place
    => [kind |-> "trap", text |-> Initial(trap_msg), cause |-> a0] \in console

\* The inductive invariant: how far each boot loop has come, word by word, the
\* break and malloc's words together, and what the console can show
\* (start_semi.S:24-95, 177-301).
IndInv == TypeOK /\ BootInv /\ Image /\ BreakInv /\ HeapInv /\ ConsoleInv

\* The boot code reaches main unless it traps; and a trap or an exit ends the
\* simulation, unless traps never stop coming from the handler itself: nothing
\* in it keeps a trap of its own from starting it over, however often
\* (start_semi.S:24-95, 177-271).
Progress ==
  /\ <>(pc \in {"main", "trap"})
  /\ <>[][~ Trap]_vars => (pc \in {"trap", "trap_exit", "exit"} ~> pc = "halted")
=============================================================================
