------------------------------ MODULE SemiWrite ------------------------------
(***************************************************************************)
(* _write of start_semi.S, register by register: newlib calls it to flush  *)
(* a buffer; it copies the buffer to the stack, terminates it, and has the *)
(* simulator print the copy with the semihosting call SYS_WRITE0, which    *)
(* prints up to the first NUL.                                             *)
(*                                                                         *)
(* Stack memory is byte addressed, and an sd fills eight bytes: a copy one *)
(* byte too long would damage a saved register.  The caller is newlib; it  *)
(* has something of its own in every register that _write uses.            *)
(***************************************************************************)
EXTENDS Integers, Sequences, Functions

CONSTANTS Buffers,    \* the buffers newlib flushes: sequences of bytes
          MaxCalls,   \* how many calls are followed
          TOP,        \* the sp of the caller, which is 16-byte aligned
          Nul         \* the byte 0

Bytes == UNION {Range(b) : b \in Buffers}

ASSUME WriteAssumption ==
  /\ MaxCalls \in Nat
  /\ TOP \in Nat /\ TOP % 16 = 0
  /\ \A b \in Buffers : b \in Seq(Bytes) /\ Len(b) + 65 <= TOP

Saved == <<"ra", "s0", "s1", "s2", "s3", "s4">>
Regs  == {"ra", "sp", "s0", "s1", "s2", "s3", "s4", "a0", "a1", "a2", "t0", "t1", "t2"}

VARIABLES label,    \* "caller", "save", "alloc", "copy", "call" or "restore"
          x,        \* the registers
          mem,      \* the bytes of the stack below TOP
          buffer,   \* the buffer of the call
          asked,    \* the buffers of all calls so far
          shown     \* what the simulator printed

writeVars == <<label, x, mem, buffer, asked, shown>>

\* What the caller holds in register r, and a byte nobody wrote.
Caller(r) == <<"caller", r>>
Unknown   == <<"junk">>
Byte(c)   == <<"byte", c>>

\* A register that holds a number.
Num(n)   == <<"number", n>>
Value(r) == x[r][2]

\* sd: eight bytes of value w; ld: the value whose eight bytes lie at a.
Sd(m, a, w) == [c \in DOMAIN m |-> IF c \in a .. a + 7 THEN <<"part", c - a, w>> ELSE m[c]]
Ld(a) == IF mem[a][1] = "part" /\ \A c \in 0 .. 7 : mem[a + c] = <<"part", c, mem[a][3]>>
         THEN mem[a][3] ELSE Unknown

\* Where Saved[n] lies in the frame of 48 bytes.
Slot(n) == 48 - 8 * n

UpToNul(b) ==
  IF \E n \in DOMAIN b : b[n] = Nul
  THEN SubSeq(b, 1, (CHOOSE n \in DOMAIN b : b[n] = Nul /\ \A p \in 1 .. n - 1 : b[p] # Nul) - 1)
  ELSE b

WriteInit ==
  /\ label = "caller"
  /\ x = [r \in Regs |-> IF r = "sp" THEN Num(TOP) ELSE Caller(r)]
  /\ mem = [a \in 0 .. TOP - 1 |-> Unknown]
  /\ buffer = <<>>
  /\ asked = <<>>
  /\ shown = <<>>

-----------------------------------------------------------------------------
\* newlib calls _write(1, buffer, count).
Call(b) ==
  /\ label = "caller" /\ Len(asked) < MaxCalls
  /\ x' = [x EXCEPT !["a0"] = Num(1), !["a1"] = Num(0), !["a2"] = Num(Len(b))]
  /\ buffer' = b
  /\ asked' = Append(asked, b)
  /\ label' = "save"
  /\ UNCHANGED <<mem, shown>>

\* beqz a2, .Lwrite_ret
Empty ==
  /\ label = "save" /\ Value("a2") = 0
  /\ x' = [x EXCEPT !["a0"] = Num(0)]
  /\ label' = "caller"
  /\ UNCHANGED <<mem, buffer, asked, shown>>

\* The six stores of the prologue, in their order.
Frame(sp) ==
  LET Push(m, n) == Sd(m, sp + Slot(n), x[Saved[n]])
  IN  Push(Push(Push(Push(Push(Push(mem, 1), 2), 3), 4), 5), 6)

\* The prologue; s0 = buf, s1 = count.
Save ==
  /\ label = "save" /\ Value("a2") # 0
  /\ LET sp == Value("sp") - 48 IN
       /\ mem' = Frame(sp)
       /\ x' = [x EXCEPT !["sp"] = Num(sp), !["s0"] = x["a1"], !["s1"] = x["a2"]]
  /\ label' = "alloc"
  /\ UNCHANGED <<buffer, asked, shown>>

\* Mutant: no room for the NUL.
CopySizeShort(count) == ((count + 15) \div 16) * 16

\* (count + 17) & -16
CopySize(count) == ((count + 17) \div 16) * 16

\* s2 = size of the copy, s3 = the copy, s4 = what is left to copy.
Alloc ==
  /\ label = "alloc"
  /\ LET t0 == CopySize(Value("s1"))
         sp == Num(Value("sp") - t0)
     IN  x' = [x EXCEPT !["t0"] = Num(t0), !["sp"] = sp, !["s2"] = Num(t0),
                        !["s3"] = sp, !["s4"] = x["s1"], !["t1"] = x["s0"], !["t2"] = sp]
  /\ label' = "copy"
  /\ UNCHANGED <<mem, buffer, asked, shown>>

\* .Lwrite_copy
Copy ==
  /\ label = "copy" /\ Value("s4") # 0
  /\ mem' = [mem EXCEPT ![Value("t2")] = Byte(buffer[Value("t1") + 1])]
  /\ x' = [x EXCEPT !["t1"] = Num(@[2] + 1), !["t2"] = Num(@[2] + 1),
                    !["s4"] = Num(@[2] - 1)]
  /\ UNCHANGED <<label, buffer, asked, shown>>

\* Mutant: the sb is missing.
TerminateNot ==
  /\ label = "copy" /\ Value("s4") = 0
  /\ x' = [x EXCEPT !["a0"] = Num(4), !["a1"] = x["s3"]]
  /\ label' = "call"
  /\ UNCHANGED <<mem, buffer, asked, shown>>

\* .Lwrite_nul: sb zero, 0(t2)
Terminate ==
  /\ label = "copy" /\ Value("s4") = 0
  /\ mem' = [mem EXCEPT ![Value("t2")] = Byte(Nul)]
  /\ x' = [x EXCEPT !["a0"] = Num(4), !["a1"] = x["s3"]]
  /\ label' = "call"
  /\ UNCHANGED <<buffer, asked, shown>>

\* The simulator prints the bytes from a1 to the first NUL; a0 is clobbered.
SYS_WRITE0 ==
  /\ label = "call"
  /\ LET a1 == Value("a1")
         end == CHOOSE e \in a1 .. TOP : /\ e = TOP \/ mem[e] = Byte(Nul)
                                         /\ \A c \in a1 .. e - 1 : mem[c] # Byte(Nul)
     IN  shown' = shown \o [c \in 1 .. end - a1 |-> mem[a1 + c - 1]]
  /\ x' = [x EXCEPT !["a0"] = Unknown]
  /\ label' = "restore"
  /\ UNCHANGED <<mem, buffer, asked>>

\* The epilogue; then a0 = s1.
Restore ==
  /\ label = "restore"
  /\ LET sp == Value("sp") + Value("s2")
         saved(r) == Ld(sp + Slot(CHOOSE n \in DOMAIN Saved : Saved[n] = r))
     IN  x' = [r \in Regs |-> IF r \in Range(Saved) THEN saved(r)
                              ELSE IF r = "sp" THEN Num(sp + 48)
                              ELSE IF r = "a0" THEN saved("s1") ELSE x[r]]
  /\ label' = "caller"
  /\ UNCHANGED <<mem, buffer, asked, shown>>

WriteNext == \/ \E b \in Buffers : Call(b)
             \/ Empty \/ Save \/ Alloc \/ Copy \/ Terminate \/ SYS_WRITE0 \/ Restore

WriteSpec == WriteInit /\ [][WriteNext]_writeVars

-----------------------------------------------------------------------------
\* The bytes of the frame hold the caller's registers.
FrameKept ==
  \A n \in DOMAIN Saved, c \in 0 .. 7 :
    mem[TOP - 48 + Slot(n) + c] = <<"part", c, Caller(Saved[n])>>

\* The inductive invariant: between the prologue and the epilogue the frame is
\* whole, sp and s2 give the copy's place, and the byte stored next lies in it.
SavedInv ==
  LET count == Len(buffer)
      size  == CopySize(count)
  IN /\ label \in {"caller", "save", "alloc", "copy", "call", "restore"}
     /\ DOMAIN mem = 0 .. TOP - 1 /\ DOMAIN x = Regs
     /\ label # "caller" => buffer \in Buffers
     /\ label \in {"caller", "save"} =>
          x["sp"] = Num(TOP) /\ \A r \in Range(Saved) : x[r] = Caller(r)
     /\ label = "save" => x["a2"] = Num(count)
     /\ label \in {"alloc", "copy", "call", "restore"} => FrameKept
     /\ label = "alloc" => x["sp"] = Num(TOP - 48) /\ x["s1"] = Num(count)
     /\ label \in {"copy", "call", "restore"} =>
          x["sp"] = Num(TOP - 48 - size) /\ x["s2"] = Num(size)
     /\ label = "copy" => \E k \in 0 .. count :
          x["s4"] = Num(count - k) /\ x["t2"] = Num(TOP - 48 - size + k)

\* Back in the caller the stack pointer, the return address and the saved
\* registers are the caller's again, whatever the length of the buffer: the
\* copy and its NUL stay clear of the saved registers (start_semi.S:107-157).
CalleeSaved ==
  label = "caller" => /\ x["sp"] = Num(TOP)
                      /\ \A r \in Range(Saved) : x[r] = Caller(r)

\* Where s shows the calls one after the other: call n from cut[n - 1] to
\* cut[n], each up to its first NUL.
CutsOf(s, calls, cut) ==
  /\ cut[0] = 0 /\ cut[Len(calls)] = Len(s)
  /\ \A n \in 1 .. Len(calls) :
       LET text == UpToNul(calls[n]) IN
       /\ cut[n] = cut[n - 1] + Len(text)
       /\ \A c \in 1 .. Len(text) : s[cut[n - 1] + c] = Byte(text[c])

Shows(s, calls) ==
  \E cut \in [0 .. Len(calls) -> 0 .. Len(s)] : CutsOf(s, calls, cut)

\* What the simulator shows is, call after call, each buffer up to its first
\* NUL and nothing else: no byte left on the stack by an earlier call or by
\* the frame shows up (start_semi.S:118-140).
Printed == label = "caller" => Shows(shown, asked)

\* The bytes of the copy on the stack; what the calls before this one showed.
Base      == TOP - 48 - CopySize(Len(buffer))
Copied(k) == \A c \in 0 .. k - 1 : mem[Base + c] = Byte(buffer[c + 1])
Earlier   == SubSeq(asked, 1, Len(asked) - 1)

\* The inductive invariant of what is shown: the copy is the buffer as far as
\* the loop has come, and behind it is the NUL when the simulator is called.
TextInv ==
  /\ asked \in Seq(Buffers) /\ shown \in Seq({Byte(c) : c \in Bytes})
  /\ label # "caller" => asked # <<>> /\ buffer = asked[Len(asked)]
  /\ label = "save" => x["a1"] = Num(0)
  /\ label = "alloc" => x["s0"] = Num(0)
  /\ label = "copy" =>
       /\ x["s3"] = Num(Base)
       /\ \E k \in 0 .. Len(buffer) :
            /\ x["s4"] = Num(Len(buffer) - k)
            /\ x["t1"] = Num(k) /\ x["t2"] = Num(Base + k)
            /\ Copied(k)
  /\ label = "call" => /\ x["a1"] = Num(Base)
                       /\ Copied(Len(buffer)) /\ mem[Base + Len(buffer)] = Byte(Nul)
  /\ Shows(shown, IF label \in {"caller", "restore"} THEN asked ELSE Earlier)

\* "return original count" (start_uart.S:93; start_semi.S:116 keeps it in s1
\* to that end): what newlib gets back is the number of bytes it passed.
ReturnsCount == label = "caller" /\ asked # <<>> => x["a0"] = Num(Len(buffer))
=============================================================================
