-------------------------- MODULE Semihosting_proofs --------------------------
(***************************************************************************)
(* start_semi.S.  First the memory image main starts on, the words malloc  *)
(* owns and the message of a trap, for every layout of the linker script.  *)
(* Image is not inductive: it says nothing while the boot loops run.       *)
(* BootInv says how far each has come; HeapInv needs to know that the word *)
(* _heap_ptr holds a break inside the heap (BreakInv), and TrapVisible     *)
(* that nothing is shown before the end (ConsoleInv).                      *)
(*                                                                         *)
(* Then _write, which gives its caller the stack pointer and the saved     *)
(* registers back, for buffers of every length that fits on the stack: the *)
(* copy on the stack, rounded up to 16 bytes, leaves room for the NUL and  *)
(* ends below the frame the registers lie in.  And the simulator, which    *)
(* reads that copy up to its first NUL, shows of each buffer what comes    *)
(* before the buffer's own first NUL, and nothing an earlier call left on  *)
(* the stack.                                                              *)
(***************************************************************************)
EXTENDS SemiStart, SemiWrite, FiniteSetTheorems, SequenceTheorems, WellFoundedInduction, TLAPS

-----------------------------------------------------------------------------
(* Boot, _sbrk, the trap handler and _exit.                                *)

\* The bounds of the linker script are ordered, and none is near the end of
\* the address space.
LEMMA Ordered ==
  ASSUME lay \in Layouts
  PROVE  /\ _data_end \in Nat /\ _bss_end \in Nat /\ _heap_end \in Nat /\ _stack_top \in Nat
         /\ 0 < _data_end /\ _data_end < _bss_end
         /\ _bss_end <= _heap_end /\ _heap_end <= _stack_top
         /\ ADDRESSES \in Nat /\ 2 * _stack_top < ADDRESSES
BY LayoutAssumption
   DEF _data_end, _bss_start, _bss_end, _heap_start, _heap_end, _stack_top

\* A step that keeps the layout keeps its bounds.
LEMMA SameBounds ==
  ASSUME lay' = lay
  PROVE  /\ _data_start' = _data_start /\ _data_end' = _data_end
         /\ _bss_start' = _bss_start /\ _bss_end' = _bss_end
         /\ _heap_start' = _heap_start /\ _heap_end' = _heap_end
         /\ _stack_top' = _stack_top /\ RAM' = RAM /\ trap_msg' = trap_msg
BY DEF _data_start, _data_end, _bss_start, _bss_end, _heap_start, _heap_end, _stack_top,
       RAM, trap_msg

\* The three contents of a word are told apart.
LEMMA Contents ==
  ASSUME NEW y, NEW z
  PROVE  /\ Number(y) = Number(z) => y = z
         /\ Number(y)[2] = y
BY DEF Number

\* Below the middle of the address space the break does not wrap.
LEMMA NoWrap ==
  ASSUME NEW A \in Nat, NEW t \in Nat, NEW n \in Int,
         2 * t < A, 2 * n \in -A .. A - 1, t + n >= 0
  PROVE  (t + n) % A = t + n
<1>1. t + n < A
  OBVIOUS
<1>2. \A y \in Nat, z \in Nat : y < z => y % z = y
  OBVIOUS
<1>. QED
  BY <1>1, <1>2

\* The number of words below the break.
LEMMA Words ==
  ASSUME NEW a \in Int, NEW b \in Int, a <= b
  PROVE  Cardinality(a .. b - 1) = b - a
<1>1. a .. b - 1 = {} \/ a <= b - 1
  OBVIOUS
<1>2. b - 1 \in Int /\ (a > b - 1 => b - a = 0) /\ (b - 1) - a + 1 = b - a
  OBVIOUS
<1>3. Cardinality(a .. b - 1) = IF a > b - 1 THEN 0 ELSE (b - 1) - a + 1
  BY <1>2, FS_Interval
<1>. QED
  BY <1>2, <1>3

-----------------------------------------------------------------------------
LEMMA InitInv == Init => IndInv
<1>. SUFFICES ASSUME Init PROVE IndInv
  OBVIOUS
<1>. USE DEF Init
<1>. lay \in Layouts
  OBVIOUS
<1>1. TypeOK
  BY Ordered DEF TypeOK, RAM, _bss_start, _data_start, _data_end
<1>2. BootInv
  <2>1. \A a \in RAM : ram[a] = Junk /\ ~(a < 0) /\ a \notin _bss_start .. _bss_start - 1
    BY Ordered DEF RAM, _data_start, _bss_start
  <2>. QED
    BY <2>1 DEF BootInv, Word
<1>3. Image /\ BreakInv /\ HeapInv
  BY DEF Image, BreakInv, HeapInv
<1>4. ConsoleInv
  BY DEF ConsoleInv
<1>. QED
  BY <1>1, <1>2, <1>3, <1>4 DEF IndInv

\* Every boot instruction.
LEMMA StartStep == IndInv /\ _start => IndInv'
<1>. SUFFICES ASSUME IndInv, _start PROVE IndInv'
  OBVIOUS
<1>. lay \in Layouts
  BY DEF IndInv, TypeOK
<1>. USE Ordered
<1>1. /\ pc = "reset" /\ pc' = "bss" /\ from' = 0 /\ to' = _bss_start
      /\ sp' = _stack_top
      /\ UNCHANGED <<lay, heap_ptr, ram, owned, a0, console>>
  BY DEF _start, _bss_start
<1>2. TypeOK'
  <2>1. _bss_start \in RAM /\ 0 \in 0 .. lay.data
    BY LayoutAssumption DEF RAM, _bss_start, _data_start, _bss_end, _data_end
  <2>2. _stack_top \in 0 .. ADDRESSES - 1
    OBVIOUS
  <2>. QED
    BY <1>1, <2>1, <2>2, SameBounds DEF IndInv, TypeOK
<1>3. BootInv'
  BY <1>1, SameBounds DEF IndInv, BootInv, Word, _bss_start
<1>4. Image' /\ BreakInv' /\ HeapInv'
  BY <1>1 DEF Image, BreakInv, HeapInv
<1>5. ConsoleInv'
  BY <1>1 DEF IndInv, ConsoleInv
<1>. QED
  BY <1>2, <1>3, <1>4, <1>5 DEF IndInv

LEMMA ZeroBssStep == IndInv /\ ZeroBss => IndInv'
<1>. SUFFICES ASSUME IndInv, ZeroBss PROVE IndInv'
  OBVIOUS
<1>1. /\ pc = "bss" /\ ram' = [ram EXCEPT ![to] = Number(0)]
      /\ UNCHANGED <<lay, heap_ptr, owned, sp, a0, console>>
  BY DEF ZeroBss
<1>2. lay \in Layouts /\ DOMAIN ram = RAM
  BY DEF IndInv, TypeOK
<1>3. to \in _bss_start .. _bss_end - 1
  BY <1>1 DEF IndInv, BootInv
<1>4. to \in RAM /\ to + 1 \in RAM \cup {_stack_top} /\ 0 \in RAM
  BY <1>2, <1>3, Ordered DEF RAM, _bss_start, _data_start
<1>5. \A a \in RAM : ram'[a] = Word(a, to + 1, 0)
  <2>. SUFFICES ASSUME NEW a \in RAM PROVE ram'[a] = Word(a, to + 1, 0)
    OBVIOUS
  <2>1. ram[a] = Word(a, to, 0)
    BY <1>1 DEF IndInv, BootInv
  <2>2. a \in Int /\ to \in Int /\ _bss_start \in Nat /\ ~(a < 0)
    BY <1>2, <1>3, Ordered DEF RAM, _data_start, _bss_start
  <2>3. CASE a = to
    <3>1. ram'[a] = Number(0)
      BY <1>1, <1>2, <2>3
    <3>. QED
      BY <1>3, <2>2, <2>3, <3>1 DEF Word
  <2>4. CASE a # to
    <3>1. ram'[a] = ram[a]
      BY <1>1, <1>2, <2>4
    <3>2. a \in _bss_start .. to <=> a \in _bss_start .. to - 1
      BY <2>2, <2>4
    <3>3. to + 1 - 1 = to
      BY <2>2
    <3>. QED
      BY <2>1, <2>2, <3>1, <3>2, <3>3 DEF Word
  <2>. QED
    BY <2>3, <2>4
<1>6. \/ pc' = "bss" /\ to' = to + 1 /\ from' = from /\ to + 1 \in _bss_start .. _bss_end - 1
      \/ pc' = "data" /\ to' = 0 /\ from' = 0 /\ to + 1 = _bss_end
  BY <1>2, <1>3, Ordered DEF ZeroBss, StartData, Again, _data_start, _bss_start
<1>7. TypeOK'
  <2>1. from' \in 0 .. lay.data /\ to' \in RAM \cup {_stack_top}
    BY <1>2, <1>4, <1>6, LayoutAssumption DEF IndInv, TypeOK
  <2>2. DOMAIN ram' = RAM
    BY <1>1, <1>2
  <2>3. pc' \in {"bss", "data"}
    BY <1>6
  <2>. QED
    BY <1>1, <2>1, <2>2, <2>3, SameBounds DEF IndInv, TypeOK
<1>8. BootInv'
  <2>1. CASE pc' = "bss"
    BY <1>1, <1>5, <1>6, <2>1, SameBounds DEF IndInv, BootInv, Word
  <2>2. CASE pc' = "data"
    <3>1. 0 \in _data_start .. _data_end - 1
      BY <1>2, Ordered DEF _data_start
    <3>. QED
      BY <1>1, <1>5, <1>6, <2>2, <3>1, SameBounds DEF IndInv, BootInv, Word
  <2>. QED
    BY <1>6, <2>1, <2>2
<1>9. Image' /\ BreakInv' /\ HeapInv'
  BY <1>6 DEF Image, BreakInv, HeapInv
<1>10. ConsoleInv'
  BY <1>1, <1>6 DEF IndInv, ConsoleInv
<1>. QED
  BY <1>7, <1>8, <1>9, <1>10 DEF IndInv

\* The last word copied completes the image, and _heap_ptr, in .bss, is zero.
LEMMA CopyDataStep == IndInv /\ CopyData => IndInv'
<1>. SUFFICES ASSUME IndInv, CopyData PROVE IndInv'
  OBVIOUS
<1>1. /\ pc = "data" /\ ram' = [ram EXCEPT ![to] = Initial(from)]
      /\ to' = to + 1 /\ from' = from + 1
      /\ pc' = IF to + 1 < _data_end THEN "data" ELSE "main"
      /\ UNCHANGED <<lay, heap_ptr, owned, sp, a0, console>>
  BY DEF CopyData, Again
<1>2. lay \in Layouts /\ DOMAIN ram = RAM /\ heap_ptr \in _bss_start .. _bss_end - 1
  BY DEF IndInv, TypeOK
<1>3. from = to /\ to \in _data_start .. _data_end - 1 /\ owned = {}
  BY <1>1 DEF IndInv, BootInv
<1>4. to \in RAM /\ to + 1 \in RAM
  BY <1>2, <1>3, Ordered DEF RAM, _data_start
<1>5. \A a \in RAM : ram'[a] = Word(a, _bss_end, to + 1)
  <2>. SUFFICES ASSUME NEW a \in RAM PROVE ram'[a] = Word(a, _bss_end, to + 1)
    OBVIOUS
  <2>1. ram[a] = Word(a, _bss_end, to)
    BY <1>1 DEF IndInv, BootInv
  <2>2. a \in Int /\ to \in Int
    BY <1>2, <1>3, Ordered DEF RAM, _data_start
  <2>3. CASE a = to
    <3>1. ram'[a] = Initial(a) /\ a < to + 1
      BY <1>1, <1>2, <1>3, <2>2, <2>3
    <3>. QED
      BY <3>1 DEF Word
  <2>4. CASE a # to
    <3>1. ram'[a] = ram[a] /\ (a < to + 1 <=> a < to)
      BY <1>1, <1>2, <2>2, <2>4
    <3>. QED
      BY <2>1, <3>1 DEF Word
  <2>. QED
    BY <2>3, <2>4
<1>6. TypeOK'
  <2>1. from' \in 0 .. lay.data
    BY <1>1, <1>2, <1>3, LayoutAssumption DEF _data_start, _data_end
  <2>2. DOMAIN ram' = RAM
    BY <1>1, <1>2
  <2>. QED
    BY <1>1, <1>4, <2>1, <2>2, SameBounds DEF IndInv, TypeOK
<1>7. BootInv'
  <2>1. CASE pc' = "data"
    <3>1. to + 1 \in _data_start .. _data_end - 1
      BY <1>1, <1>2, <1>3, <2>1, Ordered DEF _data_start
    <3>. QED
      BY <1>1, <1>3, <1>5, <2>1, <3>1, SameBounds DEF BootInv, Word
  <2>2. CASE pc' = "main"
    BY <2>2 DEF BootInv
  <2>. QED
    BY <1>1, <2>1, <2>2
<1>8. Image' /\ BreakInv' /\ HeapInv'
  <2>1. CASE pc' = "data"
    BY <2>1 DEF Image, BreakInv, HeapInv
  <2>2. CASE pc' = "main"
    <3>1. to + 1 = _data_end
      BY <1>1, <1>2, <1>3, <2>2, Ordered DEF _data_start
    <3>2. \A a \in RAM : ram'[a] = IF a < _data_end THEN Initial(a)
                                  ELSE IF a < _bss_end THEN Number(0) ELSE Junk
      <4>1. \A a \in RAM : ~(a < _data_end) => (a \in _bss_start .. _bss_end - 1 <=> a < _bss_end)
        BY <1>2, Ordered DEF RAM, _data_start, _bss_start
      <4>. QED
        BY <1>5, <3>1, <4>1 DEF Word
    <3>3. ram'[heap_ptr] = Number(0)
      BY <1>2, <3>2, Ordered DEF RAM, _data_start, _bss_start
    <3>4. Image'
      BY <1>1, <3>2, SameBounds DEF Image
    <3>5. BreakInv'
      BY <1>1, <3>3, SameBounds DEF BreakInv
    <3>6. Break' = _heap_start
      BY <1>1, <3>3, SameBounds DEF Break
    <3>7. HeapInv'
      <4>1. _heap_start .. _heap_start - 1 = {} /\ _heap_start \in _heap_start .. _heap_end
        BY <1>2, Ordered DEF _heap_start
      <4>. QED
        BY <1>1, <1>3, <3>6, <4>1, SameBounds DEF HeapInv
    <3>. QED
      BY <3>4, <3>5, <3>7
  <2>. QED
    BY <1>1, <2>1, <2>2
<1>9. ConsoleInv'
  BY <1>1 DEF IndInv, ConsoleInv
<1>. QED
  BY <1>6, <1>7, <1>8, <1>9 DEF IndInv

\* A request that fits moves the break by n without a wrap, since malloc gives
\* back no more than it owns; one that does not fit changes nothing.
LEMMA SbrkStep == ASSUME NEW n \in Increments, IndInv, _sbrk(n) PROVE IndInv'
<1>. DEFINE t2 == (Break + n) % ADDRESSES
<1>1. /\ pc = "main" /\ pc' = "main" /\ -n <= Cardinality(owned)
      /\ UNCHANGED <<lay, heap_ptr, from, to, sp, a0, console>>
  BY DEF _sbrk
<1>2. lay \in Layouts /\ DOMAIN ram = RAM /\ heap_ptr \in _bss_start .. _bss_end - 1
  BY DEF IndInv, TypeOK
<1>3. heap_ptr \in RAM /\ n \in Int /\ 2 * n \in -ADDRESSES .. ADDRESSES - 1
  BY <1>2, Ordered, LayoutAssumption DEF RAM, _data_start, _bss_start
<1>4. owned = _heap_start .. Break - 1 /\ Break \in _heap_start .. _heap_end
  BY <1>1 DEF IndInv, HeapInv
<1>5. _heap_start \in Nat \ {0} /\ _heap_end \in Nat /\ Break \in Nat /\ 2 * Break < ADDRESSES
  BY <1>2, <1>4, Ordered DEF _heap_start
<1>6. Break + n >= _heap_start
  <2>1. Cardinality(owned) = Break - _heap_start
    BY <1>4, <1>5, Words
  <2>. QED
    BY <1>1, <1>3, <1>5, <2>1
<1>7. t2 = Break + n
  <2>1. ADDRESSES \in Nat
    BY LayoutAssumption
  <2>2. Break + n >= 0
    BY <1>3, <1>5, <1>6
  <2>. QED
    BY <1>3, <1>5, <2>1, <2>2, NoWrap
<1>8. CASE ~Fits(t2)
  <2>1. UNCHANGED vars
    BY <1>1, <1>8 DEF _sbrk, vars
  <2>. QED
    BY <2>1 DEF vars, IndInv, TypeOK, BootInv, Word, Image, BreakInv, HeapInv, ConsoleInv, Shown, Break,
                RAM, trap_msg, _data_start, _data_end, _bss_start, _bss_end, _heap_start,
                _heap_end, _stack_top
<1>9. CASE Fits(t2)
  <2>1. /\ ram' = [ram EXCEPT ![heap_ptr] = Number(t2)]
        /\ owned' = IF n >= 0 THEN owned \cup (Break .. Break + n - 1)
                    ELSE owned \ (Break + n .. Break - 1)
    BY <1>9 DEF _sbrk
  <2>2. t2 \in _heap_start .. _heap_end
    BY <1>3, <1>5, <1>6, <1>7, <1>9 DEF Fits
  <2>3. ram'[heap_ptr] = Number(t2) /\ \A a \in RAM \ {heap_ptr} : ram'[a] = ram[a]
    BY <1>2, <1>3, <2>1
  <2>4. Break' = t2
    <3>1. t2 # 0
      BY <1>5, <2>2
    <3>2. Number(t2) # Number(0) /\ Number(t2)[2] = t2
      BY <3>1, Contents
    <3>. QED
      BY <1>1, <2>3, <3>2 DEF Break
  <2>5. owned' = _heap_start .. t2 - 1
    <3>1. CASE n >= 0
      BY <1>3, <1>4, <1>5, <1>6, <1>7, <2>1, <3>1
    <3>2. CASE ~(n >= 0)
      BY <1>3, <1>4, <1>5, <1>6, <1>7, <2>1, <3>2
    <3>. QED
      BY <3>1, <3>2
  <2>6. TypeOK'
    <3>1. owned' \subseteq RAM
      BY <1>2, <2>2, <2>5, Ordered DEF RAM, _data_start, _heap_start
    <3>2. DOMAIN ram' = RAM
      BY <1>2, <2>1
    <3>. QED
      BY <1>1, <3>1, <3>2, SameBounds DEF IndInv, TypeOK
  <2>7. BootInv'
    BY <1>1 DEF BootInv
  <2>8. Image'
    BY <1>1, <2>3, SameBounds DEF IndInv, Image
  <2>9. BreakInv'
    BY <1>1, <2>2, <2>3, SameBounds DEF BreakInv
  <2>10. HeapInv'
    BY <1>1, <2>2, <2>4, <2>5, SameBounds DEF HeapInv
  <2>11. ConsoleInv'
    BY <1>1 DEF IndInv, ConsoleInv
  <2>. QED
    BY <2>6, <2>7, <2>8, <2>9, <2>10, <2>11 DEF IndInv
<1>. QED
  BY <1>8, <1>9

-----------------------------------------------------------------------------
\* The stack pointer wraps with the address space.
LEMMA Wraps ==
  ASSUME NEW n \in Int, lay \in Layouts
  PROVE  n % ADDRESSES \in 0 .. ADDRESSES - 1
BY Ordered

\* What is stored on the way out destroys a word of trap_msg or leaves it.
LEMMA StoredWords ==
  ASSUME lay \in Layouts, NEW s, NEW n
  PROVE  /\ DOMAIN Stored(s, n) = RAM
         /\ \A a \in RAM : Stored(s, n)[a] \in {Junk, ram[a]}
         /\ trap_msg \in RAM
         /\ Junk # Initial(trap_msg)
<1>1. trap_msg \in RAM
  BY Ordered DEF RAM, trap_msg, _data_start
<1>2. Len(Junk) = 1 /\ Len(Initial(trap_msg)) = 2
  BY DEF Junk, Initial
<1>. QED
  BY <1>1, <1>2 DEF Stored

\* What the steps out of main and of the boot loops have in common: nothing
\* but the type of the memory and what is shown matters from there on.
LEMMA Leave ==
  ASSUME IndInv, UNCHANGED <<lay, heap_ptr, from, to, owned>>,
         pc' \in {"trap", "trap_exit", "halted"},
         a0' \in Statuses \cup Causes \cup {0},
         sp' \in 0 .. ADDRESSES - 1,
         DOMAIN ram' = RAM
  PROVE  TypeOK' /\ BootInv' /\ Image' /\ BreakInv' /\ HeapInv'
<1>1. TypeOK'
  BY SameBounds DEF IndInv, TypeOK
<1>2. BootInv' /\ BreakInv' /\ HeapInv' /\ Image'
  BY DEF BootInv, BreakInv, HeapInv, Image
<1>. QED
  BY <1>1, <1>2

LEMMA ReturnStep == IndInv /\ (Return \/ _kill) => IndInv'
<1>. SUFFICES ASSUME IndInv, Return \/ _kill PROVE IndInv'
  OBVIOUS
<1>1. /\ pc' = "exit" /\ pc = "main"
      /\ a0' \in Statuses \cup Causes \cup {0}
      /\ UNCHANGED <<lay, heap_ptr, from, to, ram, owned, sp, console>>
  BY DEF Return, _kill
<1>2. TypeOK'
  BY <1>1, SameBounds DEF IndInv, TypeOK
<1>3. BootInv' /\ BreakInv' /\ HeapInv'
  BY <1>1 DEF BootInv, BreakInv, HeapInv
<1>4. Image'
  BY <1>1, SameBounds DEF IndInv, Image
<1>5. ConsoleInv'
  BY <1>1 DEF IndInv, ConsoleInv
<1>. QED
  BY <1>2, <1>3, <1>4, <1>5 DEF IndInv

\* A trap shows nothing yet; an earlier entry of the handler may have.
LEMMA TrapStep == IndInv /\ Trap => IndInv'
<1>. SUFFICES ASSUME IndInv, Trap PROVE IndInv'
  OBVIOUS
<1>1. /\ pc' = "trap" /\ pc \in {"bss", "data", "main", "exit", "trap", "trap_exit"}
      /\ a0' \in Statuses \cup Causes \cup {0}
      /\ UNCHANGED <<lay, heap_ptr, from, to, owned, console>>
  BY DEF Trap
<1>2. lay \in Layouts /\ DOMAIN ram = RAM /\ sp \in Int
  BY DEF IndInv, TypeOK
<1>3. sp' \in 0 .. ADDRESSES - 1
  <2>1. PICK s \in Interrupted : sp' = (s - 4) % ADDRESSES
    BY DEF Trap
  <2>2. s \in Int
    BY <1>2, <2>1, Ordered DEF Interrupted
  <2>. QED
    BY <1>2, <2>1, <2>2, Wraps
<1>4. DOMAIN ram' = RAM
  BY <1>2 DEF Trap, Stored
<1>5. ConsoleInv'
  BY <1>1 DEF IndInv, ConsoleInv
<1>. QED
  BY <1>1, <1>3, <1>4, <1>5, Leave DEF IndInv

LEMMA EndStep == IndInv /\ End => IndInv'
<1>. SUFFICES ASSUME IndInv, End PROVE IndInv'
  OBVIOUS
<1>1. /\ pc' \in {"trap_exit", "halted"}
      /\ \E s, n : ram' = Stored(s, n)
      /\ UNCHANGED <<lay, heap_ptr, from, to, owned, sp, a0>>
  BY DEF End, _exit, TrapPrint, TrapExit
<1>2. /\ lay \in Layouts
      /\ a0' \in Statuses \cup Causes \cup {0}
      /\ sp' \in 0 .. ADDRESSES - 1
  BY <1>1 DEF IndInv, TypeOK
<1>3. /\ DOMAIN ram' = RAM /\ trap_msg \in RAM
      /\ trap_msg' = trap_msg
      /\ ram'[trap_msg] \in {Junk, ram[trap_msg]}
      /\ Junk # Initial(trap_msg)
  BY <1>1, <1>2, StoredWords, SameBounds
<1>4. ConsoleInv'
  <2>1. CASE _exit
    BY <2>1 DEF _exit, IndInv, ConsoleInv
  <2>2. CASE TrapPrint
    <3>1. /\ pc = "trap" /\ pc' = "trap_exit" /\ a0' = a0
          /\ console' = console \cup
                          {[kind |-> "trap", text |-> ram'[trap_msg], cause |-> a0]}
      BY <2>2 DEF TrapPrint
    <3>2. \A e \in console' : e.kind = "trap"
      BY <3>1 DEF IndInv, ConsoleInv
    <3>3. Shown'
      BY <1>3, <3>1 DEF Shown
    <3>. QED
      BY <3>1, <3>2, <3>3 DEF ConsoleInv
  <2>3. CASE TrapExit
    <3>1. /\ pc = "trap_exit" /\ pc' = "halted" /\ a0' = a0
          /\ console' = console \cup {[kind |-> "exit", status |-> 0]}
      BY <2>3 DEF TrapExit
    <3>2. Shown /\ \A e \in console : e.kind = "trap"
      BY <3>1 DEF IndInv, ConsoleInv
    <3>3. Shown'
      BY <1>3, <3>1, <3>2 DEF Shown
    <3>. QED
      BY <3>1, <3>2, <3>3 DEF ConsoleInv
  <2>. QED
    BY <2>1, <2>2, <2>3 DEF End
<1>. QED
  BY <1>1, <1>2, <1>3, <1>4, Leave DEF IndInv

LEMMA Inductive == IndInv /\ [Next]_vars => IndInv'
<1>. SUFFICES ASSUME IndInv, [Next]_vars PROVE IndInv'
  OBVIOUS
<1>1. CASE Boot
  BY <1>1, StartStep, ZeroBssStep, CopyDataStep DEF Boot
<1>2. CASE End
  BY <1>2, EndStep
<1>3. CASE Return \/ _kill \/ Trap
  BY <1>3, ReturnStep, TrapStep
<1>4. CASE \E n \in Increments : _sbrk(n)
  BY <1>4, SbrkStep
<1>5. CASE UNCHANGED vars
  BY <1>5 DEF vars, IndInv, TypeOK, BootInv, Word, Image, BreakInv, HeapInv, ConsoleInv, Shown, Break,
              RAM, trap_msg, _data_start, _data_end, _bss_start, _bss_end, _heap_start,
              _heap_end, _stack_top
<1>. QED
  BY <1>1, <1>2, <1>3, <1>4, <1>5 DEF Next

\* Every reachable state of the start-up code satisfies the inductive
\* invariant, for every layout the linker script can produce
\* (start_semi.S:24-95, 177-301).
THEOREM Invariance == Spec => []IndInv
<1>1. Init => IndInv
  BY InitInv
<1>2. IndInv /\ [Next]_vars => IndInv'
  BY Inductive
<1>. QED
  BY <1>1, <1>2, PTL DEF Spec

\* main starts on the image C promises it: .data copied, .bss zero, nothing
\* past them written (start_semi.S:39-60).
THEOREM BootImage == Spec => []Image
<1>1. IndInv => Image
  BY DEF IndInv
<1>. QED
  BY <1>1, Invariance, PTL

\* No word of the heap is handed out twice and none outside it, for every
\* heap and every request below half the address space
\* (start_semi.S:285-301).
THEOREM HeapSafety == Spec => []HeapInv
<1>1. IndInv => HeapInv
  BY DEF IndInv
<1>. QED
  BY <1>1, Invariance, PTL

\* A trap that ends the simulation with status 0 has shown its message first
\* (start_semi.S:235-254).
THEOREM TrapMessage == Spec => []TrapVisible
<1>1. IndInv => TrapVisible
  BY DEF IndInv, ConsoleInv, Shown, TrapVisible
<1>. QED
  BY <1>1, Invariance, PTL

-----------------------------------------------------------------------------
(* _write.                                                                 *)

\* The copy holds the buffer and its NUL, and fits with the frame below TOP.
LEMMA CopyFits ==
  ASSUME NEW count \in Nat
  PROVE  /\ CopySize(count) \in Nat
         /\ count + 1 <= CopySize(count) /\ CopySize(count) <= count + 17
BY DEF CopySize

\* Registers and slots: six of each, eight bytes apart.
LEMMA SavedSlots ==
  /\ DOMAIN Saved = 1 .. 6
  /\ \A n \in 1 .. 6 : Saved[n] \in Regs \ {"sp", "a0", "a1", "a2", "t0", "t1", "t2"}
  /\ \A n, p \in 1 .. 6 : Saved[n] = Saved[p] => n = p
  /\ Range(Saved) = {Saved[n] : n \in 1 .. 6}
  /\ \A n \in 1 .. 6 : Slot(n) \in 0 .. 40
<1>1. DOMAIN Saved = 1 .. 6
  BY DEF Saved
<1>2. /\ Saved[1] = "ra" /\ Saved[2] = "s0" /\ Saved[3] = "s1"
      /\ Saved[4] = "s2" /\ Saved[5] = "s3" /\ Saved[6] = "s4"
  BY DEF Saved
<1>3. \A n \in 1 .. 6 : n = 1 \/ n = 2 \/ n = 3 \/ n = 4 \/ n = 5 \/ n = 6
  OBVIOUS
<1>4. \A n \in 1 .. 6 : Saved[n] \in Regs \ {"sp", "a0", "a1", "a2", "t0", "t1", "t2"}
  BY <1>2, <1>3 DEF Regs
<1>5. \A n, p \in 1 .. 6 : Saved[n] = Saved[p] => n = p
  BY <1>2, <1>3
<1>6. \A n \in 1 .. 6 : Slot(n) \in 0 .. 40
  BY DEF Slot
<1> QED BY <1>1, <1>4, <1>5, <1>6 DEF Range

\* The numbers every step needs.
LEMMA Sizes ==
  ASSUME buffer \in Buffers
  PROVE  /\ TOP \in Nat /\ Len(buffer) \in Nat
         /\ CopySize(Len(buffer)) \in Nat
         /\ Len(buffer) + 1 <= CopySize(Len(buffer))
         /\ 48 + CopySize(Len(buffer)) <= TOP
<1>1. TOP \in Nat /\ Len(buffer) \in Nat /\ Len(buffer) + 65 <= TOP
  <2>1. buffer \in Seq(Bytes) /\ TOP \in Nat /\ Len(buffer) + 65 <= TOP
    BY WriteAssumption
  <2> QED BY <2>1, LenProperties
<1>2. /\ CopySize(Len(buffer)) \in Nat
      /\ Len(buffer) + 1 <= CopySize(Len(buffer)) /\ CopySize(Len(buffer)) <= Len(buffer) + 17
  BY <1>1, CopyFits
<1> QED BY <1>1, <1>2

\* What sd leaves at an address.
LEMMA SdAt ==
  ASSUME NEW m, NEW a \in Int, NEW w, NEW c \in DOMAIN m
  PROVE  /\ DOMAIN Sd(m, a, w) = DOMAIN m
         /\ Sd(m, a, w)[c] = IF c \in a .. a + 7 THEN <<"part", c - a, w>> ELSE m[c]
BY DEF Sd

LEMMA InitSaved == WriteInit => SavedInv
<1> SUFFICES ASSUME WriteInit PROVE SavedInv
  OBVIOUS
<1>1. \A r \in Range(Saved) : r \in Regs /\ r # "sp"
  BY SavedSlots
<1>2. x["sp"] = Num(TOP) /\ \A r \in Range(Saved) : x[r] = Caller(r)
  BY <1>1 DEF WriteInit, Regs
<1>3. /\ label = "caller" /\ DOMAIN mem = 0 .. TOP - 1 /\ DOMAIN x = Regs
  BY DEF WriteInit
<1> QED BY <1>2, <1>3 DEF SavedInv

\* The place of byte c of register number n in the frame.
Place(n, c) == TOP - 48 + Slot(n) + c

\* The slots 1 to k of the frame hold the caller's registers.
FilledTo(m, k) ==
  /\ DOMAIN m = 0 .. TOP - 1
  /\ \A p \in 1 .. 6, c \in 0 .. 7 :
       p <= k => m[Place(p, c)] = <<"part", c, Caller(Saved[p])>>

\* One more store of the prologue fills one more slot.
LEMMA OneMoreFilled ==
  ASSUME TOP \in Nat, 48 <= TOP, NEW m, NEW k \in 0 .. 5, FilledTo(m, k),
         NEW n, n = k + 1, NEW w, w = Caller(Saved[n])
  PROVE  FilledTo(Sd(m, TOP - 48 + Slot(n), w), n)
<1> DEFINE base   == TOP - 48 + Slot(n)
           filled == Sd(m, base, w)
<1>1. n \in 1 .. 6 /\ DOMAIN m = 0 .. TOP - 1
  BY DEF FilledTo
<1>2. base \in Int /\ base \in DOMAIN m /\ Slot(n) = 48 - 8 * n
  BY <1>1, SavedSlots DEF Slot
<1>3. DOMAIN filled = 0 .. TOP - 1
  BY <1>1 DEF Sd
<1>4. ASSUME NEW p \in 1 .. 6, NEW c \in 0 .. 7, p <= n
      PROVE  filled[Place(p, c)] = <<"part", c, Caller(Saved[p])>>
  <2>1. Slot(p) \in 0 .. 40 /\ Slot(p) = 48 - 8 * p
    BY SavedSlots DEF Slot
  <2>2. /\ Place(p, c) \in DOMAIN m
        /\ Place(p, c) \in base .. base + 7 <=> p = n
        /\ p = n => Place(p, c) - base = c
    BY <1>1, <1>2, <2>1 DEF Place
  <2> HIDE DEF base
  <2>3. filled[Place(p, c)] =
          IF Place(p, c) \in base .. base + 7 THEN <<"part", Place(p, c) - base, w>>
          ELSE m[Place(p, c)]
    BY <1>2, <2>2, SdAt
  <2> HIDE DEF filled
  <2>4. CASE p = n
    BY <2>2, <2>3, <2>4
  <2>5. CASE p # n
    <3>1. p <= k
      BY <1>1, <1>4, <2>5
    <3>2. m[Place(p, c)] = <<"part", c, Caller(Saved[p])>>
      BY <3>1 DEF FilledTo
    <3> QED BY <2>2, <2>3, <2>5, <3>2
  <2> QED BY <2>4, <2>5
<1> HIDE DEF filled
<1>5. FilledTo(filled, n)
  BY <1>3, <1>4 DEF FilledTo
<1> QED BY <1>5 DEF filled

\* The prologue fills the frame: each of its stores fills a slot of its own.
LEMMA FrameFilled ==
  ASSUME TOP \in Nat, 48 <= TOP, DOMAIN mem = 0 .. TOP - 1,
         \A r \in Range(Saved) : x[r] = Caller(r)
  PROVE  /\ DOMAIN Frame(TOP - 48) = 0 .. TOP - 1
         /\ \A n \in DOMAIN Saved, c \in 0 .. 7 :
              Frame(TOP - 48)[Place(n, c)] = <<"part", c, Caller(Saved[n])>>
<1> DEFINE m1 == Sd(mem, TOP - 48 + Slot(1), x[Saved[1]])
           m2 == Sd(m1, TOP - 48 + Slot(2), x[Saved[2]])
           m3 == Sd(m2, TOP - 48 + Slot(3), x[Saved[3]])
           m4 == Sd(m3, TOP - 48 + Slot(4), x[Saved[4]])
           m5 == Sd(m4, TOP - 48 + Slot(5), x[Saved[5]])
           m6 == Sd(m5, TOP - 48 + Slot(6), x[Saved[6]])
<1>1. Frame(TOP - 48) = m6
  BY DEF Frame
<1>2. /\ x[Saved[1]] = Caller(Saved[1]) /\ x[Saved[2]] = Caller(Saved[2])
      /\ x[Saved[3]] = Caller(Saved[3]) /\ x[Saved[4]] = Caller(Saved[4])
      /\ x[Saved[5]] = Caller(Saved[5]) /\ x[Saved[6]] = Caller(Saved[6])
  <2>1. \A n \in 1 .. 6 : x[Saved[n]] = Caller(Saved[n])
    BY SavedSlots
  <2> QED BY <2>1
<1>3. /\ 0 \in 0 .. 5 /\ 1 \in 0 .. 5 /\ 2 \in 0 .. 5 /\ 3 \in 0 .. 5 /\ 4 \in 0 .. 5
      /\ 5 \in 0 .. 5 /\ 1 = 0 + 1 /\ 2 = 1 + 1 /\ 3 = 2 + 1 /\ 4 = 3 + 1 /\ 5 = 4 + 1
      /\ 6 = 5 + 1
  OBVIOUS
<1>4. FilledTo(mem, 0)
  BY DEF FilledTo
<1> HIDE DEF m1, m2, m3, m4, m5, m6
<1>5. FilledTo(m1, 1)
  BY <1>2, <1>3, <1>4, OneMoreFilled, Zenon DEF m1
<1>6. FilledTo(m2, 2)
  BY <1>2, <1>3, <1>5, OneMoreFilled, Zenon DEF m2
<1>7. FilledTo(m3, 3)
  BY <1>2, <1>3, <1>6, OneMoreFilled, Zenon DEF m3
<1>8. FilledTo(m4, 4)
  BY <1>2, <1>3, <1>7, OneMoreFilled, Zenon DEF m4
<1>9. FilledTo(m5, 5)
  BY <1>2, <1>3, <1>8, OneMoreFilled, Zenon DEF m5
<1>10. FilledTo(m6, 6)
  BY <1>2, <1>3, <1>9, OneMoreFilled, Zenon DEF m6
<1>11. \A p \in 1 .. 6 : p <= 6
  OBVIOUS
<1> QED BY <1>1, <1>10, <1>11, SavedSlots DEF FilledTo

\* A byte below the frame leaves it whole.
LEMMA FrameUntouched ==
  ASSUME FrameKept, TOP \in Nat, NEW a \in Int, a < TOP - 48, NEW w,
         mem' = [mem EXCEPT ![a] = w]
  PROVE  FrameKept'
<1> SUFFICES ASSUME NEW n \in DOMAIN Saved, NEW c \in 0 .. 7
             PROVE  mem'[TOP - 48 + Slot(n) + c] = <<"part", c, Caller(Saved[n])>>
  BY DEF FrameKept
<1>1. mem[TOP - 48 + Slot(n) + c] = <<"part", c, Caller(Saved[n])>>
  BY DEF FrameKept
<1>2. TOP - 48 + Slot(n) + c # a
  BY SavedSlots
<1> QED BY <1>1, <1>2

LEMMA NextSaved == SavedInv /\ [WriteNext]_writeVars => SavedInv'
<1> SUFFICES ASSUME SavedInv, [WriteNext]_writeVars PROVE SavedInv'
  OBVIOUS
<1>r. \A r \in Range(Saved) :
        r \in Regs \ {"sp", "a0", "a1", "a2", "t0", "t1", "t2"}
  BY SavedSlots
<1>1. ASSUME NEW b \in Buffers, Call(b) PROVE SavedInv'
  <2>1. /\ label = "caller" /\ label' = "save" /\ buffer' = b /\ mem' = mem
        /\ x' = [x EXCEPT !["a0"] = Num(1), !["a1"] = Num(0), !["a2"] = Num(Len(b))]
    BY <1>1 DEF Call
  <2>2. DOMAIN x' = Regs /\ x'["sp"] = Num(TOP) /\ x'["a2"] = Num(Len(b))
    BY <2>1 DEF SavedInv, Regs
  <2>3. \A r \in Range(Saved) : x'[r] = Caller(r)
    BY <1>r, <2>1 DEF SavedInv
  <2> QED BY <2>1, <2>2, <2>3 DEF SavedInv
<1>2. CASE Empty
  <2>1. /\ label = "save" /\ label' = "caller" /\ UNCHANGED <<mem, buffer>>
        /\ x' = [x EXCEPT !["a0"] = Num(0)]
    BY <1>2 DEF Empty
  <2>2. DOMAIN x' = Regs /\ x'["sp"] = Num(TOP)
    BY <2>1 DEF SavedInv, Regs
  <2>3. \A r \in Range(Saved) : x'[r] = Caller(r)
    BY <1>r, <2>1 DEF SavedInv
  <2> QED BY <2>1, <2>2, <2>3 DEF SavedInv
<1>3. CASE Save
  <2>1. /\ label = "save" /\ label' = "alloc" /\ buffer' = buffer /\ buffer \in Buffers
        /\ x["sp"] = Num(TOP) /\ x["a2"] = Num(Len(buffer))
        /\ \A r \in Range(Saved) : x[r] = Caller(r)
    BY <1>3 DEF Save, SavedInv
  <2>2. Value("sp") - 48 = TOP - 48
    BY <2>1 DEF Value, Num
  <2>3. /\ mem' = Frame(TOP - 48)
        /\ x' = [x EXCEPT !["sp"] = Num(TOP - 48), !["s0"] = x["a1"], !["s1"] = x["a2"]]
    BY <1>3, <2>2 DEF Save
  <2>4. DOMAIN x' = Regs /\ x'["sp"] = Num(TOP - 48) /\ x'["s1"] = Num(Len(buffer))
    BY <2>1, <2>3 DEF SavedInv, Regs
  <2>5. DOMAIN mem' = 0 .. TOP - 1 /\ FrameKept'
    <3>1. TOP \in Nat /\ 48 <= TOP /\ DOMAIN mem = 0 .. TOP - 1
      BY <2>1, Sizes DEF SavedInv
    <3> QED BY <2>1, <2>3, <3>1, FrameFilled DEF FrameKept, Place
  <2> QED BY <2>1, <2>4, <2>5 DEF SavedInv
<1>4. CASE Alloc
  <2> DEFINE size == CopySize(Len(buffer))
  <2>1. /\ label = "alloc" /\ label' = "copy" /\ UNCHANGED <<mem, buffer>> /\ buffer \in Buffers
        /\ x["sp"] = Num(TOP - 48) /\ x["s1"] = Num(Len(buffer)) /\ FrameKept
    BY <1>4 DEF Alloc, SavedInv
  <2>2. Value("s1") = Len(buffer) /\ Value("sp") = TOP - 48
    BY <2>1 DEF Value, Num
  <2>3. x' = [x EXCEPT !["t0"] = Num(size), !["sp"] = Num(TOP - 48 - size),
                       !["s2"] = Num(size), !["s3"] = Num(TOP - 48 - size),
                       !["s4"] = x["s1"], !["t1"] = x["s0"], !["t2"] = Num(TOP - 48 - size)]
    BY <1>4, <2>2 DEF Alloc
  <2>4. /\ DOMAIN x' = Regs /\ x'["sp"] = Num(TOP - 48 - size) /\ x'["s2"] = Num(size)
        /\ x'["s4"] = x["s1"] /\ x'["t2"] = Num(TOP - 48 - size)
    BY <2>3 DEF SavedInv, Regs
  <2>5. /\ 0 \in 0 .. Len(buffer) /\ Len(buffer) - 0 = Len(buffer)
        /\ TOP - 48 - size + 0 = TOP - 48 - size
    <3>1. TOP \in Nat /\ size \in Nat /\ Len(buffer) \in Nat
      BY <2>1, Sizes
    <3> HIDE DEF size
    <3> QED BY <3>1
  <2>6. \E k \in 0 .. Len(buffer) :
          x'["s4"] = Num(Len(buffer) - k) /\ x'["t2"] = Num(TOP - 48 - size + k)
    BY <2>1, <2>4, <2>5
  <2>7. FrameKept'
    BY <2>1 DEF FrameKept
  <2> QED BY <2>1, <2>4, <2>6, <2>7 DEF SavedInv
<1>5. CASE Copy
  <2> DEFINE size == CopySize(Len(buffer))
  <2>1. /\ label = "copy" /\ label' = "copy" /\ buffer' = buffer /\ buffer \in Buffers
        /\ x["sp"] = Num(TOP - 48 - size) /\ x["s2"] = Num(size) /\ FrameKept
        /\ Value("s4") # 0
    BY <1>5 DEF Copy, SavedInv
  <2>2. PICK k \in 0 .. Len(buffer) :
          x["s4"] = Num(Len(buffer) - k) /\ x["t2"] = Num(TOP - 48 - size + k)
    BY <2>1 DEF SavedInv
  <2>3. /\ Value("s4") = Len(buffer) - k /\ Value("t2") = TOP - 48 - size + k
        /\ x["s4"][2] = Len(buffer) - k /\ x["t2"][2] = TOP - 48 - size + k
    BY <2>2 DEF Value, Num
  <2>4. /\ k + 1 \in 0 .. Len(buffer) /\ Len(buffer) - k - 1 = Len(buffer) - (k + 1)
        /\ TOP - 48 - size + k + 1 = TOP - 48 - size + (k + 1)
        /\ TOP - 48 - size + k \in Int /\ TOP - 48 - size + k < TOP - 48 /\ TOP \in Nat
    <3>1. /\ TOP \in Nat /\ size \in Nat /\ Len(buffer) \in Nat /\ Len(buffer) + 1 <= size
          /\ 48 + size <= TOP
      BY <2>1, Sizes
    <3>2. Len(buffer) - k # 0
      BY <2>1, <2>3
    <3> HIDE DEF size
    <3> QED BY <3>1, <3>2
  <2>5. mem' = [mem EXCEPT ![TOP - 48 - size + k] = Byte(buffer[Value("t1") + 1])]
    BY <1>5, <2>3 DEF Copy
  <2>6. FrameKept' /\ DOMAIN mem' = DOMAIN mem
    BY <2>1, <2>4, <2>5, FrameUntouched
  <2>7. x' = [x EXCEPT !["t1"] = Num(@[2] + 1), !["t2"] = Num(@[2] + 1),
                       !["s4"] = Num(@[2] - 1)]
    BY <1>5 DEF Copy
  <2>8. /\ DOMAIN x' = Regs /\ x'["sp"] = x["sp"] /\ x'["s2"] = x["s2"]
        /\ x'["t2"] = Num(x["t2"][2] + 1) /\ x'["s4"] = Num(x["s4"][2] - 1)
    BY <2>7 DEF SavedInv, Regs
  <2>9. /\ x'["t2"] = Num(TOP - 48 - size + (k + 1))
        /\ x'["s4"] = Num(Len(buffer) - (k + 1))
    BY <2>3, <2>4, <2>8
  <2> QED BY <2>1, <2>4, <2>6, <2>8, <2>9 DEF SavedInv
<1>6. CASE Terminate
  <2> DEFINE size == CopySize(Len(buffer))
  <2>1. /\ label = "copy" /\ label' = "call" /\ buffer' = buffer /\ buffer \in Buffers
        /\ x["sp"] = Num(TOP - 48 - size) /\ x["s2"] = Num(size) /\ FrameKept
        /\ x' = [x EXCEPT !["a0"] = Num(4), !["a1"] = x["s3"]]
    BY <1>6 DEF Terminate, SavedInv
  <2>2. PICK k \in 0 .. Len(buffer) : x["t2"] = Num(TOP - 48 - size + k)
    BY <2>1 DEF SavedInv
  <2>3. Value("t2") = TOP - 48 - size + k
    BY <2>2 DEF Value, Num
  <2>4. TOP - 48 - size + k \in Int /\ TOP - 48 - size + k < TOP - 48 /\ TOP \in Nat
    <3>1. /\ TOP \in Nat /\ size \in Nat /\ Len(buffer) \in Nat /\ Len(buffer) + 1 <= size
          /\ 48 + size <= TOP
      BY <2>1, Sizes
    <3> HIDE DEF size
    <3> QED BY <3>1
  <2>5. mem' = [mem EXCEPT ![TOP - 48 - size + k] = Byte(Nul)]
    BY <1>6, <2>3 DEF Terminate
  <2>6. FrameKept' /\ DOMAIN mem' = DOMAIN mem
    BY <2>1, <2>4, <2>5, FrameUntouched
  <2>7. DOMAIN x' = Regs /\ x'["sp"] = x["sp"] /\ x'["s2"] = x["s2"]
    BY <2>1 DEF SavedInv, Regs
  <2> QED BY <2>1, <2>6, <2>7 DEF SavedInv
<1>7. CASE SYS_WRITE0
  <2>1. /\ label = "call" /\ label' = "restore" /\ UNCHANGED <<mem, buffer>> /\ FrameKept
        /\ x' = [x EXCEPT !["a0"] = Unknown]
    BY <1>7 DEF SYS_WRITE0, SavedInv
  <2>2. DOMAIN x' = Regs /\ x'["sp"] = x["sp"] /\ x'["s2"] = x["s2"]
    BY <2>1 DEF SavedInv, Regs
  <2>3. FrameKept'
    BY <2>1 DEF FrameKept
  <2> QED BY <2>1, <2>2, <2>3 DEF SavedInv
<1>8. CASE Restore
  <2> DEFINE size == CopySize(Len(buffer))
             frame == Value("sp") + Value("s2")
             saved(r) == Ld(frame + Slot(CHOOSE n \in DOMAIN Saved : Saved[n] = r))
  <2>1. /\ label = "restore" /\ label' = "caller" /\ UNCHANGED <<mem, buffer>> /\ buffer \in Buffers
        /\ x["sp"] = Num(TOP - 48 - size) /\ x["s2"] = Num(size) /\ FrameKept
    BY <1>8 DEF Restore, SavedInv
  <2>2. frame = TOP - 48 /\ frame + 48 = TOP
    <3>1. Value("sp") = TOP - 48 - size /\ Value("s2") = size
      BY <2>1 DEF Value, Num
    <3>2. TOP \in Nat /\ size \in Nat
      BY <2>1, Sizes
    <3> HIDE DEF size
    <3> QED BY <3>1, <3>2
  <2>3. x' = [r \in Regs |-> IF r \in Range(Saved) THEN saved(r)
                             ELSE IF r = "sp" THEN Num(frame + 48)
                             ELSE IF r = "a0" THEN saved("s1") ELSE x[r]]
    BY <1>8 DEF Restore
  <2> HIDE DEF frame
  <2>4. DOMAIN x' = Regs /\ x'["sp"] = Num(TOP)
    <3>1. "sp" \in Regs /\ "sp" \notin Range(Saved)
      BY <1>r DEF Regs
    <3> QED BY <2>2, <2>3, <3>1
  <2>5. ASSUME NEW r \in Range(Saved)
        PROVE  x'[r] = Caller(r)
    <3>1. PICK n \in DOMAIN Saved : Saved[n] = r /\ n = CHOOSE p \in DOMAIN Saved : Saved[p] = r
      BY SavedSlots
    <3>2. TOP \in Nat
      BY <2>1, Sizes
    <3>3. \A c \in 0 .. 7 : mem[frame + Slot(n) + c] = <<"part", c, Caller(r)>>
      BY <2>1, <2>2, <3>1 DEF FrameKept
    <3>4. frame + Slot(n) + 0 = frame + Slot(n)
      BY <2>2, <3>2, SavedSlots
    <3>5. mem[frame + Slot(n)] = <<"part", 0, Caller(r)>>
      BY <3>3, <3>4
    <3>6. Ld(frame + Slot(n)) = Caller(r)
      BY <3>3, <3>5 DEF Ld
    <3> QED BY <1>r, <2>3, <3>1, <3>6
  <2> QED BY <2>1, <2>4, <2>5 DEF SavedInv
<1>9. CASE UNCHANGED writeVars
  BY <1>9 DEF writeVars, SavedInv, FrameKept
<1> QED BY <1>1, <1>2, <1>3, <1>4, <1>5, <1>6, <1>7, <1>8, <1>9 DEF WriteNext

\* The frame with the saved registers stays whole under the copy and its NUL,
\* for buffers of every length (start_semi.S:107-135).
THEOREM FrameWhole == WriteSpec => []SavedInv
<1>1. WriteInit => SavedInv
  BY InitSaved
<1>2. SavedInv /\ [WriteNext]_writeVars => SavedInv'
  BY NextSaved
<1> QED BY <1>1, <1>2, PTL DEF WriteSpec

\* After any number of calls the caller's stack pointer, return address and
\* saved registers are its own, whatever the lengths (start_semi.S:107-157).
THEOREM RegistersSurvive == WriteSpec => []CalleeSaved
<1>1. SavedInv => CalleeSaved
  BY DEF SavedInv, CalleeSaved
<1> QED BY <1>1, FrameWhole, PTL

-----------------------------------------------------------------------------
(* What is shown.                                                          *)

LEMMA LeastOf ==
  ASSUME NEW S \in SUBSET Nat, S # {}
  PROVE  \E n \in S : \A p \in S : n <= p
<1> DEFINE R == {ss \in Nat \X Nat : ss[1] < ss[2]}
<1>1. IsWellFoundedOn(R, Nat)
  BY NatLessThanWellFounded DEF OpToRel
<1>2. PICK n \in S : \A p \in S : ~ (<<p, n>> \in R)
  <2> HIDE DEF R
  <2> QED BY <1>1, WFMin
<1>3. ASSUME NEW p \in S PROVE n <= p
  <2>1. n \in Nat /\ p \in Nat /\ ~ (p < n)
    BY <1>2
  <2> QED BY <2>1
<1> QED BY <1>3

\* A buffer up to its first NUL is a prefix of it, and the NUL ends it.
LEMMA UpToNulFacts ==
  ASSUME NEW b \in Seq(Bytes), NEW u, u = UpToNul(b)
  PROVE  /\ u \in Seq(Bytes) /\ Len(u) \in 0 .. Len(b)
         /\ \A c \in 1 .. Len(u) : u[c] = b[c] /\ b[c] # Nul
         /\ Len(u) < Len(b) => b[Len(u) + 1] = Nul
<1>1. /\ Len(b) \in Nat /\ DOMAIN b = 1 .. Len(b)
      /\ \A c \in 1 .. Len(b) : b[c] \in Bytes
  BY LenProperties, ElementOfSeq
<1>2. CASE \E n \in DOMAIN b : b[n] = Nul
  <2> DEFINE S == {n \in DOMAIN b : b[n] = Nul}
  <2>1. S \in SUBSET Nat /\ S # {}
    BY <1>1, <1>2
  <2>2. PICK n \in S : \A p \in S : n <= p
    BY <2>1, LeastOf
  <2>3. n \in DOMAIN b /\ b[n] = Nul /\ \A p \in 1 .. n - 1 : b[p] # Nul
    BY <1>1, <2>2
  <2>4. PICK z : /\ z = CHOOSE n1 \in DOMAIN b : b[n1] = Nul /\ \A p \in 1 .. n1 - 1 : b[p] # Nul
                 /\ z \in DOMAIN b /\ b[z] = Nul /\ \A p \in 1 .. z - 1 : b[p] # Nul
    BY <2>3
  <2>5. u = SubSeq(b, 1, z - 1)
    BY <1>2, <2>4 DEF UpToNul
  <2>6. z \in 1 .. Len(b) /\ z - 1 \in Int /\ 1 \in Int
        /\ \A i \in 1 .. z - 1 : b[i] \in Bytes
    BY <1>1, <2>4
  <2>7. /\ u \in Seq(Bytes) /\ Len(u) = z - 1
        /\ \A i \in 1 .. z - 1 : u[i] = b[i]
    <3>1. /\ SubSeq(b, 1, z - 1) \in Seq(Bytes)
          /\ Len(SubSeq(b, 1, z - 1)) = IF 1 <= z - 1 THEN z - 1 - 1 + 1 ELSE 0
          /\ \A i \in 1 .. z - 1 - 1 + 1 : SubSeq(b, 1, z - 1)[i] = b[1 + i - 1]
      BY <2>6, SubSeqProperties
    <3>2. z - 1 - 1 + 1 = z - 1 /\ \A i \in 1 .. z - 1 : 1 + i - 1 = i
      BY <2>6
    <3>3. (IF 1 <= z - 1 THEN z - 1 - 1 + 1 ELSE 0) = z - 1
      BY <2>6
    <3> QED BY <2>5, <3>1, <3>2, <3>3
  <2>8. Len(u) + 1 = z
    BY <2>6, <2>7
  <2> QED BY <2>4, <2>6, <2>7, <2>8
<1>3. CASE ~ \E n \in DOMAIN b : b[n] = Nul
  <2>1. u = b
    BY <1>3 DEF UpToNul
  <2> QED BY <1>1, <1>3, <2>1
<1> QED BY <1>2, <1>3

\* The simulator finds the end of the copy's text.
LEMMA EndOfText ==
  ASSUME buffer \in Buffers, Copied(Len(buffer)), mem[Base + Len(buffer)] = Byte(Nul),
         NEW u, u = UpToNul(buffer)
  PROVE  /\ Base + Len(u) = CHOOSE e \in Base .. TOP :
                              /\ e = TOP \/ mem[e] = Byte(Nul)
                              /\ \A c \in Base .. e - 1 : mem[c] # Byte(Nul)
         /\ Base \in Nat
         /\ \A c \in 1 .. Len(u) : mem[Base + c - 1] = Byte(u[c])
<1>1. buffer \in Seq(Bytes) /\ TOP \in Nat /\ Base \in Nat /\ Len(buffer) \in Nat
      /\ Base + Len(buffer) < TOP
  BY WriteAssumption, Sizes DEF Base
<1>2. /\ u \in Seq(Bytes) /\ Len(u) \in 0 .. Len(buffer)
      /\ \A c \in 1 .. Len(u) : u[c] = buffer[c] /\ buffer[c] # Nul
      /\ Len(u) < Len(buffer) => buffer[Len(u) + 1] = Nul
  BY <1>1, UpToNulFacts
<1>3. PICK base \in Nat : base = Base
  BY <1>1
<1>4. \A c \in 0 .. Len(buffer) - 1 : mem[base + c] = Byte(buffer[c + 1])
  BY <1>3 DEF Copied
<1>5. \A c \in 0 .. Len(u) - 1 : mem[base + c] = Byte(u[c + 1]) /\ u[c + 1] # Nul
  BY <1>1, <1>2, <1>4
<1>6. mem[base + Len(u)] = Byte(Nul)
  BY <1>1, <1>2, <1>3, <1>4
<1>7. ASSUME NEW e \in base .. base + Len(u) - 1
      PROVE  mem[e] # Byte(Nul)
  <2>1. e - base \in 0 .. Len(u) - 1 /\ base + (e - base) = e
    BY <1>2
  <2>2. mem[e] = Byte(u[(e - base) + 1]) /\ u[(e - base) + 1] # Nul
    BY <1>5, <2>1
  <2> QED BY <2>2 DEF Byte
<1> DEFINE IsEnd(e) == /\ e = TOP \/ mem[e] = Byte(Nul)
                       /\ \A c \in base .. e - 1 : mem[c] # Byte(Nul)
<1>8. base + Len(u) \in base .. TOP /\ IsEnd(base + Len(u))
  BY <1>1, <1>2, <1>3, <1>6, <1>7
<1>9. ASSUME NEW e \in base .. TOP, IsEnd(e)
      PROVE  e = base + Len(u)
  <2>1. ~ (e < base + Len(u))
    <3>1. SUFFICES ASSUME e < base + Len(u) PROVE FALSE
      OBVIOUS
    <3>2. e \in base .. base + Len(u) - 1 /\ e # TOP
      BY <1>1, <1>2, <1>3, <3>1
    <3> QED BY <1>7, <1>9, <3>2
  <2>2. ~ (base + Len(u) < e)
    <3>1. SUFFICES ASSUME base + Len(u) < e PROVE FALSE
      OBVIOUS
    <3>2. base + Len(u) \in base .. e - 1
      BY <1>1, <1>2, <3>1
    <3> QED BY <1>6, <1>9, <3>2
  <2> QED BY <1>1, <1>2, <2>1, <2>2
<1>10. base + Len(u) = CHOOSE e \in base .. TOP : IsEnd(e)
  BY <1>8, <1>9
<1>11. \A c \in 1 .. Len(u) : mem[base + c - 1] = Byte(u[c])
  <2> SUFFICES ASSUME NEW c \in 1 .. Len(u) PROVE mem[base + c - 1] = Byte(u[c])
    OBVIOUS
  <2>1. c - 1 \in 0 .. Len(u) - 1 /\ base + (c - 1) = base + c - 1 /\ (c - 1) + 1 = c
    BY <1>2
  <2> QED BY <1>5, <2>1
<1> QED BY <1>3, <1>10, <1>11

\* A position inside a text is a position inside what holds the text.
LEMMA Inside ==
  ASSUME NEW low \in Nat, NEW size \in Int, NEW top \in Nat, NEW more \in Nat,
         low + size <= top, NEW c \in 1 .. size
  PROVE  low + c \in 1 .. top /\ low + c \in 1 .. top + more
OBVIOUS

\* What a call prints is appended.
LEMMA OneMoreShown ==
  ASSUME NEW calls \in Seq(Buffers), NEW earlier, calls # <<>>,
         earlier = SubSeq(calls, 1, Len(calls) - 1),
         NEW O, NEW s \in Seq(O), NEW t \in Seq(O), NEW u, u = UpToNul(calls[Len(calls)]),
         Len(t) = Len(u), Len(u) \in Nat, \A c \in 1 .. Len(u) : t[c] = Byte(u[c]),
         Shows(s, earlier)
  PROVE  Shows(s \o t, calls)
<1>0. PICK last : last = Len(calls)
  OBVIOUS
<1>1. /\ last \in Nat \ {0} /\ Len(s) \in Nat /\ Len(t) \in Nat
      /\ Len(s \o t) = Len(s) + Len(t)
      /\ \A i \in 1 .. Len(s) + Len(t) :
           (s \o t)[i] = IF i <= Len(s) THEN s[i] ELSE t[i - Len(s)]
  BY <1>0, EmptySeq, LenProperties, ConcatProperties
<1>2. Len(earlier) = last - 1 /\ \A n \in 1 .. last - 1 : earlier[n] = calls[n]
  <2>1. \A n \in 1 .. last - 1 : calls[n] \in Buffers
    BY <1>0, <1>1, ElementOfSeq
  <2>2. /\ Len(earlier) = IF 1 <= last - 1 THEN last - 1 - 1 + 1 ELSE 0
        /\ \A n \in 1 .. last - 1 - 1 + 1 : earlier[n] = calls[1 + n - 1]
    BY <1>0, <1>1, <2>1, SubSeqProperties
  <2>3. /\ last - 1 - 1 + 1 = last - 1
        /\ (IF 1 <= last - 1 THEN last - 1 - 1 + 1 ELSE 0) = last - 1
    BY <1>1
  <2>4. \A n \in 1 .. last - 1 : 1 + n - 1 = n
    BY <1>1
  <2> QED BY <2>2, <2>3, <2>4
<1>3. PICK cut \in [0 .. Len(earlier) -> 0 .. Len(s)] : CutsOf(s, earlier, cut)
  BY DEF Shows
<1> DEFINE new == [n \in 0 .. last |-> IF n = last THEN Len(s) + Len(t) ELSE cut[n]]
<1>4. new \in [0 .. last -> 0 .. Len(s \o t)]
  <2>1. Len(s) + Len(t) \in 0 .. Len(s \o t)
    BY <1>1
  <2>2. ASSUME NEW n \in 0 .. last, n # last PROVE cut[n] \in 0 .. Len(s \o t)
    <3>1. n \in 0 .. Len(earlier)
      BY <1>1, <1>2, <2>2
    <3>2. cut[n] \in 0 .. Len(s)
      BY <1>3, <3>1
    <3> QED BY <1>1, <3>2
  <2> QED BY <2>1, <2>2
<1>5. cut[0] = 0 /\ cut[last - 1] = Len(s)
  BY <1>2, <1>3 DEF CutsOf
<1>6. new[0] = 0 /\ new[last] = Len(s \o t)
  BY <1>1, <1>5
<1>7. ASSUME NEW n \in 1 .. last
      PROVE  LET text == UpToNul(calls[n]) IN
             /\ new[n] = new[n - 1] + Len(text)
             /\ \A c \in 1 .. Len(text) : (s \o t)[new[n - 1] + c] = Byte(text[c])
  <2>0. PICK text : text = UpToNul(calls[n])
    OBVIOUS
  <2>1. CASE n = last
    <3>1. new[n] = Len(s) + Len(t) /\ new[n - 1] = Len(s) /\ text = u
      BY <1>1, <1>5, <2>0, <2>1, <1>0
    <3>2. ASSUME NEW c \in 1 .. Len(u) PROVE (s \o t)[Len(s) + c] = Byte(u[c])
      <4>1. /\ Len(s) + c \in 1 .. Len(s) + Len(t) /\ ~ (Len(s) + c <= Len(s))
            /\ Len(s) + c - Len(s) = c
        BY <1>1
      <4>2. PICK i \in 1 .. Len(s) + Len(t) : i = Len(s) + c
        BY <4>1
      <4>3. (s \o t)[i] = t[i - Len(s)]
        BY <1>1, <4>1, <4>2
      <4>4. i - Len(s) = c /\ t[c] = Byte(u[c])
        BY <4>1, <4>2
      <4>5. (s \o t)[i] = Byte(u[c])
        BY <4>3, <4>4, Zenon
      <4> QED BY <4>2, <4>5, Zenon
    <3> QED BY <2>0, <3>1, <3>2
  <2>2. CASE n # last
    <3>1. n \in 1 .. last - 1 /\ earlier[n] = calls[n] /\ n \in 1 .. Len(earlier)
      BY <1>1, <1>2, <2>2
    <3>2. /\ cut[n] = cut[n - 1] + Len(text)
          /\ \A c \in 1 .. Len(text) : s[cut[n - 1] + c] = Byte(text[c])
      BY <1>3, <2>0, <3>1 DEF CutsOf
    <3>3. new[n] = cut[n] /\ new[n - 1] = cut[n - 1]
      BY <1>1, <3>1
    <3>4. cut[n] \in 0 .. Len(s) /\ cut[n - 1] \in 0 .. Len(s)
      <4>1. n \in 0 .. Len(earlier) /\ n - 1 \in 0 .. Len(earlier)
        BY <1>1, <1>2, <3>1
      <4> QED BY <1>3, <4>1
    <3>5. ASSUME NEW c \in 1 .. Len(text)
          PROVE  (s \o t)[cut[n - 1] + c] = s[cut[n - 1] + c]
      <4>1. Len(text) \in Int
        <5>1. calls[n] \in Seq(Bytes)
          BY <1>0, ElementOfSeq, WriteAssumption
        <5> QED BY <2>0, <5>1, UpToNulFacts
      <4>2. cut[n - 1] + c \in 1 .. Len(s) /\ cut[n - 1] + c \in 1 .. Len(s) + Len(t)
        <5>1. /\ cut[n - 1] \in Nat /\ Len(s) \in Nat /\ Len(t) \in Nat
              /\ cut[n - 1] + Len(text) <= Len(s)
          BY <1>1, <3>2, <3>4
        <5> QED BY <4>1, <5>1, Inside
      <4> QED BY <1>1, <4>2
    <3> HIDE DEF new
    <3> QED BY <2>0, <3>2, <3>3, <3>5
  <2> QED BY <2>1, <2>2
<1> HIDE DEF new
<1>8. CutsOf(s \o t, calls, new)
  BY <1>0, <1>6, <1>7 DEF CutsOf
<1> QED BY <1>0, <1>4, <1>8 DEF Shows

LEMMA InitText == WriteInit => TextInv
<1> SUFFICES ASSUME WriteInit PROVE TextInv
  OBVIOUS
<1>1. label = "caller" /\ asked = <<>> /\ shown = <<>>
  BY DEF WriteInit
<1>2. /\ asked \in Seq(Buffers) /\ shown \in Seq({Byte(c) : c \in Bytes})
      /\ Len(asked) = 0 /\ Len(shown) = 0
  BY <1>1
<1>3. CutsOf(shown, asked, [n \in 0 .. 0 |-> 0])
  BY <1>2 DEF CutsOf
<1>4. Shows(shown, asked)
  <2>1. [n \in 0 .. 0 |-> 0] \in [0 .. Len(asked) -> 0 .. Len(shown)]
    BY <1>2
  <2> QED BY <1>3, <2>1 DEF Shows
<1> QED BY <1>1, <1>2, <1>4 DEF TextInv

LEMMA CallText == SavedInv /\ TextInv /\ (\E b \in Buffers : Call(b)) => TextInv'
<1> SUFFICES ASSUME SavedInv, TextInv, NEW b \in Buffers, Call(b) PROVE TextInv'
  OBVIOUS
<1>1. /\ label = "caller" /\ label' = "save" /\ buffer' = b /\ shown' = shown
      /\ asked' = Append(asked, b)
      /\ x' = [x EXCEPT !["a0"] = Num(1), !["a1"] = Num(0), !["a2"] = Num(Len(b))]
  BY DEF Call
<1>2. /\ asked \in Seq(Buffers) /\ shown \in Seq({Byte(c) : c \in Bytes})
      /\ Shows(shown, asked)
  BY <1>1 DEF TextInv
<1>3. /\ asked' \in Seq(Buffers) /\ asked' # <<>> /\ Len(asked') = Len(asked) + 1
      /\ asked'[Len(asked) + 1] = b /\ Len(asked) \in Nat
      /\ \A i \in 1 .. Len(asked) : asked'[i] = asked[i]
  BY <1>1, <1>2, AppendProperties, LenProperties
<1>4. Earlier' = asked
  <2>1. PICK k \in Nat : k = Len(asked)
    BY <1>3
  <2>2. Earlier' = SubSeq(asked', 1, k)
    BY <1>3, <2>1 DEF Earlier
  <2>3. \A i \in 1 .. k : asked'[i] \in Buffers /\ asked'[i] = asked[i]
    BY <1>2, <1>3, <2>1, ElementOfSeq
  <2>4. /\ SubSeq(asked', 1, k) \in Seq(Buffers)
        /\ Len(SubSeq(asked', 1, k)) = IF 1 <= k THEN k - 1 + 1 ELSE 0
        /\ \A i \in 1 .. k - 1 + 1 : SubSeq(asked', 1, k)[i] = asked'[1 + i - 1]
    BY <2>3, SubSeqProperties
  <2>5. k - 1 + 1 = k /\ (IF 1 <= k THEN k - 1 + 1 ELSE 0) = k
        /\ \A i \in 1 .. k : 1 + i - 1 = i
    OBVIOUS
  <2>6. Len(SubSeq(asked', 1, k)) = k /\ \A i \in 1 .. k : SubSeq(asked', 1, k)[i] = asked[i]
    BY <2>3, <2>4, <2>5
  <2> QED BY <1>2, <2>1, <2>2, <2>4, <2>6, SeqEqual
<1>5. x'["a1"] = Num(0)
  BY <1>1 DEF SavedInv, Regs
<1> QED BY <1>1, <1>2, <1>3, <1>4, <1>5 DEF TextInv

\* While a call is under way nothing is asked or shown.
LEMMA Quiet ==
  ASSUME TextInv, label # "caller", UNCHANGED <<buffer, asked, shown>>
  PROVE  /\ asked' \in Seq(Buffers) /\ shown' \in Seq({Byte(c) : c \in Bytes})
         /\ asked' # <<>> /\ buffer' = asked'[Len(asked')]
         /\ label \notin {"caller", "restore"} => Shows(shown', Earlier')
         /\ label = "restore" => Shows(shown', asked')
         /\ Base' = Base /\ Len(buffer') = Len(buffer)
BY DEF TextInv, Earlier, Base

\* The text of a call with no bytes.
LEMMA NoText ==
  ASSUME TextInv, label # "caller", Len(buffer) = 0, Shows(shown, Earlier), buffer \in Buffers
  PROVE  Shows(shown, asked)
<1>1. PICK u : u = UpToNul(buffer)
  OBVIOUS
<1>2. PICK O : O = {Byte(c) : c \in Bytes}
  OBVIOUS
<1>3. /\ asked \in Seq(Buffers) /\ asked # <<>> /\ buffer = asked[Len(asked)]
      /\ shown \in Seq(O)
  BY <1>2 DEF TextInv
<1>4. Len(u) = 0
  <2>1. buffer \in Seq(Bytes)
    BY WriteAssumption
  <2>2. Len(u) \in 0 .. Len(buffer)
    BY <1>1, <2>1, UpToNulFacts
  <2> QED BY <2>2
<1>5. PICK t : t = <<>>
  OBVIOUS
<1>6. /\ t \in Seq(O) /\ Len(t) = Len(u) /\ Len(u) \in Nat /\ shown \o t = shown
      /\ \A c \in 1 .. Len(u) : t[c] = Byte(u[c])
  BY <1>3, <1>4, <1>5, EmptySeq, ConcatEmptySeq
<1>7. PICK e : e = Earlier
  OBVIOUS
<1>8. Shows(shown \o t, asked)
  BY <1>1, <1>3, <1>6, <1>7, OneMoreShown DEF Earlier
<1> QED BY <1>6, <1>8

LEMMA EmptyText == SavedInv /\ TextInv /\ Empty => TextInv'
<1> SUFFICES ASSUME SavedInv, TextInv, Empty PROVE TextInv'
  OBVIOUS
<1>1. /\ label = "save" /\ label' = "caller" /\ UNCHANGED <<mem, buffer, asked, shown>>
      /\ Value("a2") = 0 /\ x["a2"] = Num(Len(buffer)) /\ buffer \in Buffers
  BY DEF Empty, SavedInv
<1>2. Len(buffer) = 0
  BY <1>1 DEF Value, Num
<1>3. Shows(shown, asked)
  <2>1. Shows(shown, Earlier)
    BY <1>1 DEF TextInv
  <2> QED BY <1>1, <1>2, <2>1, NoText
<1> QED BY <1>1, <1>3 DEF TextInv

LEMMA SaveText == SavedInv /\ TextInv /\ Save => TextInv'
<1> SUFFICES ASSUME SavedInv, TextInv, Save PROVE TextInv'
  OBVIOUS
<1>1. /\ label = "save" /\ label' = "alloc" /\ UNCHANGED <<buffer, asked, shown>>
      /\ x["a1"] = Num(0) /\ DOMAIN x = Regs
  BY DEF Save, TextInv, SavedInv
<1>2. x'["s0"] = x["a1"]
  <2>1. PICK v : x' = [x EXCEPT !["sp"] = v, !["s0"] = x["a1"], !["s1"] = x["a2"]]
    BY DEF Save
  <2> QED BY <1>1, <2>1 DEF Regs
<1> QED BY <1>1, <1>2, Quiet DEF TextInv

LEMMA AllocText == SavedInv /\ TextInv /\ Alloc => TextInv'
<1> SUFFICES ASSUME SavedInv, TextInv, Alloc PROVE TextInv'
  OBVIOUS
<1>1. /\ label = "alloc" /\ label' = "copy" /\ UNCHANGED <<mem, buffer, asked, shown>>
      /\ x["s0"] = Num(0) /\ DOMAIN x = Regs /\ buffer \in Buffers
      /\ x["sp"] = Num(TOP - 48) /\ x["s1"] = Num(Len(buffer))
  BY DEF Alloc, TextInv, SavedInv
<1>2. Value("s1") = Len(buffer) /\ Value("sp") - CopySize(Len(buffer)) = Base
  BY <1>1 DEF Value, Num, Base
<1>3. x' = [x EXCEPT !["t0"] = Num(CopySize(Len(buffer))), !["sp"] = Num(Base),
                     !["s2"] = Num(CopySize(Len(buffer))), !["s3"] = Num(Base),
                     !["s4"] = x["s1"], !["t1"] = x["s0"], !["t2"] = Num(Base)]
  BY <1>2 DEF Alloc
<1>4. /\ x'["s3"] = Num(Base) /\ x'["s4"] = Num(Len(buffer)) /\ x'["t1"] = Num(0)
      /\ x'["t2"] = Num(Base)
  BY <1>1, <1>3 DEF Regs
<1>5. /\ 0 \in 0 .. Len(buffer) /\ Len(buffer) - 0 = Len(buffer) /\ Base + 0 = Base
  <2>1. Base \in Int /\ Len(buffer) \in Nat
    BY <1>1, Sizes DEF Base
  <2> QED BY <2>1
<1>6. Copied(0)'
  BY DEF Copied
<1> QED BY <1>1, <1>4, <1>5, <1>6, Quiet DEF TextInv

LEMMA CopyText == SavedInv /\ TextInv /\ Copy => TextInv'
<1> SUFFICES ASSUME SavedInv, TextInv, Copy PROVE TextInv'
  OBVIOUS
<1>1. /\ label = "copy" /\ UNCHANGED <<label, buffer, asked, shown>> /\ Value("s4") # 0
      /\ x["s3"] = Num(Base) /\ DOMAIN x = Regs /\ DOMAIN mem = 0 .. TOP - 1
      /\ buffer \in Buffers
  BY DEF Copy, TextInv, SavedInv
<1>2. PICK k \in 0 .. Len(buffer) :
        /\ x["s4"] = Num(Len(buffer) - k) /\ x["t1"] = Num(k)
        /\ x["t2"] = Num(Base + k) /\ Copied(k)
  BY <1>1 DEF TextInv
<1>3. /\ Value("s4") = Len(buffer) - k /\ x["s4"][2] = Len(buffer) - k
      /\ Value("t1") = k /\ x["t1"][2] = k
      /\ Value("t2") = Base + k /\ x["t2"][2] = Base + k
  BY <1>2 DEF Value, Num
<1>4. /\ k \in Nat /\ k + 1 \in 0 .. Len(buffer) /\ Base \in Nat /\ Base + k \in 0 .. TOP - 1
      /\ Len(buffer) - k - 1 = Len(buffer) - (k + 1) /\ Base + k + 1 = Base + (k + 1)
  <2>1. /\ TOP \in Nat /\ Len(buffer) \in Nat /\ Base \in Nat
        /\ Base + Len(buffer) < TOP
    BY <1>1, Sizes DEF Base
  <2>2. Len(buffer) - k # 0
    BY <1>1, <1>3
  <2> QED BY <2>1, <2>2
<1>5. mem' = [mem EXCEPT ![Base + k] = Byte(buffer[k + 1])]
  BY <1>3 DEF Copy
<1>6. Copied(k + 1)'
  <2>1. ASSUME NEW c \in 0 .. (k + 1) - 1
        PROVE  mem'[Base + c] = Byte(buffer[c + 1])
    <3>1. CASE c = k
      BY <1>1, <1>4, <1>5, <3>1
    <3>2. CASE c # k
      <4>1. c \in 0 .. k - 1 /\ Base + c # Base + k
        BY <1>4, <3>2
      <4>2. mem[Base + c] = Byte(buffer[c + 1])
        BY <1>2, <4>1 DEF Copied
      <4> QED BY <1>5, <4>1, <4>2
    <3> QED BY <3>1, <3>2
  <2>2. Base' = Base
    BY <1>1 DEF Base
  <2> QED BY <1>1, <2>1, <2>2 DEF Copied
<1>7. x' = [x EXCEPT !["t1"] = Num(@[2] + 1), !["t2"] = Num(@[2] + 1),
                     !["s4"] = Num(@[2] - 1)]
  BY DEF Copy
<1>8. /\ x'["s3"] = x["s3"] /\ x'["t1"] = Num(x["t1"][2] + 1)
      /\ x'["t2"] = Num(x["t2"][2] + 1) /\ x'["s4"] = Num(x["s4"][2] - 1)
  BY <1>1, <1>7 DEF Regs
<1>9. /\ x'["s3"] = Num(Base) /\ x'["t1"] = Num(k + 1)
      /\ x'["t2"] = Num(Base + (k + 1)) /\ x'["s4"] = Num(Len(buffer) - (k + 1))
  BY <1>1, <1>3, <1>4, <1>8
<1> QED BY <1>1, <1>4, <1>6, <1>9, Quiet DEF TextInv

LEMMA TerminateText == SavedInv /\ TextInv /\ Terminate => TextInv'
<1> SUFFICES ASSUME SavedInv, TextInv, Terminate PROVE TextInv'
  OBVIOUS
<1>1. /\ label = "copy" /\ label' = "call" /\ UNCHANGED <<buffer, asked, shown>>
      /\ Value("s4") = 0 /\ x["s3"] = Num(Base) /\ DOMAIN x = Regs
      /\ DOMAIN mem = 0 .. TOP - 1 /\ buffer \in Buffers
      /\ x' = [x EXCEPT !["a0"] = Num(4), !["a1"] = x["s3"]]
  BY DEF Terminate, TextInv, SavedInv
<1>2. PICK k \in 0 .. Len(buffer) :
        /\ x["s4"] = Num(Len(buffer) - k) /\ x["t2"] = Num(Base + k) /\ Copied(k)
  BY <1>1 DEF TextInv
<1>3. Value("s4") = Len(buffer) - k /\ Value("t2") = Base + k
  BY <1>2 DEF Value, Num
<1>4. /\ TOP \in Nat /\ Len(buffer) \in Nat /\ Base \in Nat /\ k = Len(buffer)
      /\ Base + k \in 0 .. TOP - 1
  <2>1. /\ TOP \in Nat /\ Len(buffer) \in Nat /\ Base \in Nat /\ Base + Len(buffer) < TOP
    BY <1>1, Sizes DEF Base
  <2>2. k = Len(buffer)
    BY <1>1, <1>3, <2>1
  <2> QED BY <2>1, <2>2
<1>5. mem' = [mem EXCEPT ![Base + k] = Byte(Nul)]
  BY <1>3 DEF Terminate
<1>6. Base' = Base
  BY <1>1 DEF Base
<1>7. Copied(k)'
  <2>1. ASSUME NEW c \in 0 .. k - 1
        PROVE  mem'[Base + c] = Byte(buffer[c + 1])
    <3>1. Base + c # Base + k
      BY <1>4
    <3>2. mem[Base + c] = Byte(buffer[c + 1])
      BY <1>2 DEF Copied
    <3> QED BY <1>5, <3>1, <3>2
  <2> QED BY <1>1, <1>6, <2>1 DEF Copied
<1>8. mem'[Base + k] = Byte(Nul) /\ x'["a1"] = Num(Base)
  BY <1>1, <1>4, <1>5 DEF Regs
<1> QED BY <1>1, <1>4, <1>6, <1>7, <1>8, Quiet DEF TextInv

\* The simulator shows exactly the text of the call.
LEMMA ShowText == SavedInv /\ TextInv /\ SYS_WRITE0 => TextInv'
<1> SUFFICES ASSUME SavedInv, TextInv, SYS_WRITE0 PROVE TextInv'
  OBVIOUS
<1>1. /\ label = "call" /\ label' = "restore" /\ UNCHANGED <<mem, buffer, asked>>
      /\ buffer \in Buffers /\ x["a1"] = Num(Base)
      /\ Copied(Len(buffer)) /\ mem[Base + Len(buffer)] = Byte(Nul)
      /\ Shows(shown, Earlier)
  BY DEF SYS_WRITE0, TextInv, SavedInv
<1>2. PICK u : u = UpToNul(buffer)
  OBVIOUS
<1>3. PICK O : O = {Byte(c) : c \in Bytes}
  OBVIOUS
<1>4. PICK e : e = Earlier
  OBVIOUS
<1>5. /\ asked \in Seq(Buffers) /\ asked # <<>> /\ buffer = asked[Len(asked)]
      /\ shown \in Seq(O)
  BY <1>1, <1>3 DEF TextInv
<1>6. u \in Seq(Bytes) /\ Len(u) \in Nat
  BY <1>1, <1>2, UpToNulFacts, LenProperties, WriteAssumption
<1>7. Value("a1") = Base
  BY <1>1 DEF Value, Num
<1>8. PICK end : /\ end = Base + Len(u) /\ Base \in Nat
                 /\ end = CHOOSE z \in Base .. TOP :
                             /\ z = TOP \/ mem[z] = Byte(Nul)
                             /\ \A c \in Base .. z - 1 : mem[c] # Byte(Nul)
                 /\ \A c \in 1 .. Len(u) : mem[Base + c - 1] = Byte(u[c])
  BY <1>1, <1>2, EndOfText
<1>9. shown' = shown \o [c \in 1 .. end - Base |-> mem[Base + c - 1]]
  BY <1>7, <1>8 DEF SYS_WRITE0
<1>10. PICK t : t = [c \in 1 .. end - Base |-> mem[Base + c - 1]]
  OBVIOUS
<1>11. end - Base = Len(u)
  BY <1>6, <1>8
<1>12. t = [c \in 1 .. Len(u) |-> Byte(u[c])]
  BY <1>8, <1>10, <1>11
<1>13. t \in Seq(O) /\ Len(t) = Len(u) /\ \A c \in 1 .. Len(u) : t[c] = Byte(u[c])
  <2>1. \A c \in 1 .. Len(u) : u[c] \in Bytes
    BY <1>6, ElementOfSeq
  <2>2. t \in [1 .. Len(u) -> O]
    BY <1>3, <1>12, <2>1
  <2> QED BY <1>6, <1>12, <2>2
<1>14. Shows(shown \o t, asked)
  BY <1>1, <1>2, <1>4, <1>5, <1>6, <1>13, OneMoreShown DEF Earlier
<1>15. shown \o t \in Seq(O)
  BY <1>5, <1>13, ConcatProperties
<1> QED BY <1>1, <1>3, <1>5, <1>9, <1>10, <1>14, <1>15 DEF TextInv

LEMMA NextText == SavedInv /\ TextInv /\ [WriteNext]_writeVars => TextInv'
<1> SUFFICES ASSUME SavedInv, TextInv, [WriteNext]_writeVars PROVE TextInv'
  OBVIOUS
<1>1. CASE Restore
  <2>1. label = "restore" /\ label' = "caller" /\ UNCHANGED <<mem, buffer, asked, shown>>
    BY <1>1 DEF Restore
  <2> QED BY <2>1, Quiet DEF TextInv
<1>2. CASE UNCHANGED writeVars
  BY <1>2 DEF writeVars, TextInv, Copied, Base, Earlier
<1> QED BY <1>1, <1>2, CallText, EmptyText, SaveText, AllocText, CopyText, TerminateText,
       ShowText DEF WriteNext

\* The copy on the stack is the buffer with a NUL behind it when the simulator
\* is called, for buffers of every length (start_semi.S:118-140).
THEOREM TextOnStack == WriteSpec => []TextInv
<1>1. WriteInit => TextInv
  BY InitText
<1>2. SavedInv /\ TextInv /\ [WriteNext]_writeVars => TextInv'
  BY NextText
<1> QED BY <1>1, <1>2, FrameWhole, PTL DEF WriteSpec

\* After any number of calls the simulator has shown each buffer up to its
\* first NUL, in order, and nothing else (start_semi.S:118-140).
THEOREM OnlyBuffersShown == WriteSpec => []Printed
<1>1. TextInv => Printed
  BY DEF TextInv, Printed
<1> QED BY <1>1, TextOnStack, PTL
=============================================================================
