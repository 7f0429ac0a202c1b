------------------------------ MODULE Roofline ------------------------------
(***************************************************************************)
(* roofline_main of src/src/gemm.c (a build with ROOFLINE_KERNEL): it      *)
(* brackets three phases with m5_reset_stats and m5_dump_stats, so that    *)
(* each section of stats.txt shows the DRAM traffic of one phase: a cold   *)
(* call of the kernel, the write-back of what it wrote, and a warm call.   *)
(*                                                                         *)
(* Memory is counted in cache lines.  The D-cache is gem5's: set           *)
(* associative, least recently used out first, write-back with allocation  *)
(* on a write.  A kernel call touches its lines in any order, again and    *)
(* again; speculative accesses are left out.                               *)
(***************************************************************************)
EXTENDS Integers, Sequences, FiniteSets

CONSTANTS SETS, WAYS,  \* the geometry of the D-cache (256 and 4)
          Places       \* where the linker may put everything

VARIABLES place,     \* the lines of A, B, C and evict_buf, and those of the
                     \* stack a kernel call uses; the line of cycle_count and
                     \* inst_count ("counters"), of rl_cycles and rl_insts
                     \* ("results"), of evict_sink ("sink")
          step,      \* the next operation of Program
          e,         \* evict_dcache: the lines read so far
          todo,      \* the accesses the boot loop or the kernel call has yet to make
          mem,       \* the cache and its statistics
          sections   \* the sections of stats.txt

vars == <<place, step, e, todo, mem, sections>>

\* Mutant: as large as the cache.
EvictLinesOnce == SETS * WAYS

\* EVICT_BYTES: twice the cache.
EvictLines == 2 * SETS * WAYS
EvictBuf(p) == p.evict .. p.evict + EvictLines - 1

Matrices(p) == p.A \cup p.B \cup p.C
Kernels(p)  == Matrices(p) \cup p.stack
Own(p)      == Kernels(p) \cup {p.counters, p.results, p.sink}
Lines(p)    == Own(p) \cup EvictBuf(p)

\* The set a line is mapped to.
Index(x) == x % SETS

\* A, B and C are aligned to a line and take whole ones; all but the eviction
\* buffer fits in the cache together: some 8 KiB of data in 64 KiB.
ASSUME PlacesAssumption ==
  /\ SETS \in Nat \ {0} /\ WAYS \in Nat \ {0}
  /\ \A p \in Places :
       /\ Lines(p) \subseteq Nat /\ p.evict \in Nat
       /\ p.C \cap (p.A \cup p.B) = {}
       /\ Matrices(p) \cap (p.stack \cup {p.counters, p.results, p.sink}) = {}
       /\ Own(p) \cap EvictBuf(p) = {} /\ IsFiniteSet(Own(p))
       /\ \A s \in 0 .. SETS - 1 : Cardinality({x \in Own(p) : Index(x) = s}) <= WAYS

-----------------------------------------------------------------------------
\* The age of a line is its place in its set, 1 for the one used last; a line
\* that is not in the cache has age Out.
Out == WAYS + 1

\* The cache after an access to line x: x is the youngest, and those of its set
\* that were younger than x are one older, the last of them Out.
Access(m, x, op) ==
  LET younger(y) == Index(y) = Index(x) /\ m.age[y] < m.age[x]
      evicted(y) == younger(y) /\ m.age[y] = WAYS
  IN  [age   |-> [y \in DOMAIN m.age |-> IF y = x THEN 1
                                         ELSE IF younger(y) THEN m.age[y] + 1 ELSE m.age[y]],
       dirty |-> {y \in m.dirty : ~evicted(y)} \cup (IF op = "write" THEN {x} ELSE {}),
       fills |-> [y \in DOMAIN m.fills |->
                    IF y = x /\ m.age[x] = Out THEN m.fills[y] + 1 ELSE m.fills[y]],
       writebacks |-> [y \in DOMAIN m.writebacks |->
                         IF evicted(y) /\ y \in m.dirty THEN m.writebacks[y] + 1
                         ELSE m.writebacks[y]]]

NoTraffic(p) == [x \in Lines(p) |-> 0]

Cold(p) == [age |-> [x \in Lines(p) |-> Out], dirty |-> {},
            fills |-> NoTraffic(p), writebacks |-> NoTraffic(p)]

-----------------------------------------------------------------------------
\* The start-up code writes .bss, where all but A, B and the stack lies, and
\* then .data.
Written(lines) == {<<x, "write">> : x \in lines}
Bss(p)  == Written(Lines(p) \ (p.A \cup p.B \cup p.stack))
Data(p) == Written(p.A \cup p.B)

rl_call == <<"reset", "counters", "kernel", "counters", "dump", "results">>

\* Mutant: no warm-up call before the third section.
NoWarmUp == <<"evict">> \o rl_call \o <<"reset", "evict", "dump">> \o rl_call

roofline_main == <<"evict">> \o rl_call \o <<"reset", "evict", "dump", "kernel">> \o rl_call

\* What runs from the start-up code on.
Program == <<"zero .bss", "copy .data">> \o roofline_main

Running(op) == step \in DOMAIN Program /\ Program[step] = op

\* What a call of the kernel has to do: read A, B and C, write C; and write and
\* read its lines of the stack, as many as the compiler wants for the last of
\* its arguments, the saved registers and the vectors it spills.  They are the
\* same in each call, as the one line measured for a warm call shows.
KernelWork(p) ==
  {<<x, "read">> : x \in Kernels(p)} \cup {<<x, "write">> : x \in p.C \cup p.stack}

Init ==
  /\ place \in Places
  /\ step = 1 /\ e = 0
  /\ todo = Bss(place)
  /\ mem = Cold(place)
  /\ sections = <<>>

\* The start-up code's loops run upwards.
BootWrite ==
  /\ Running("zero .bss") \/ Running("copy .data")
  /\ \E a \in todo :
       /\ \A w \in todo : a[1] <= w[1]
       /\ mem' = Access(mem, a[1], "write")
       /\ todo' = todo \ {a}
  /\ UNCHANGED <<place, step, e, sections>>

BootNext ==
  /\ Running("zero .bss") \/ Running("copy .data")
  /\ todo = {}
  /\ todo' = IF Running("zero .bss") THEN Data(place) ELSE KernelWork(place)
  /\ step' = step + 1
  /\ UNCHANGED <<place, e, mem, sections>>

m5_reset_stats ==
  /\ Running("reset")
  /\ mem' = [mem EXCEPT !.fills = NoTraffic(place), !.writebacks = NoTraffic(place)]
  /\ step' = step + 1
  /\ UNCHANGED <<place, e, todo, sections>>

m5_dump_stats ==
  /\ Running("dump")
  /\ sections' = Append(sections, [fills |-> mem.fills, writebacks |-> mem.writebacks])
  /\ step' = step + 1
  /\ UNCHANGED <<place, e, todo, mem>>

\* cycle_count and inst_count, before and after the kernel.
Counters ==
  /\ Running("counters")
  /\ mem' = Access(mem, place.counters, "write")
  /\ step' = step + 1
  /\ UNCHANGED <<place, e, todo, sections>>

\* rl_cycles[idx] = cycle_count; rl_insts[idx] = inst_count
Results ==
  /\ Running("results")
  /\ mem' = Access(Access(mem, place.counters, "read"), place.results, "write")
  /\ step' = step + 1
  /\ UNCHANGED <<place, e, todo, sections>>

\* Mutant: without volatile the loads fold to 0.
EvictFolded ==
  /\ Running("evict") /\ e < EvictLines
  /\ e' = e + 1
  /\ UNCHANGED <<place, step, todo, mem, sections>>

\* evict_dcache: sum += p[i]
EvictLoad ==
  /\ Running("evict") /\ e < EvictLines
  /\ mem' = Access(mem, place.evict + e, "read")
  /\ e' = e + 1
  /\ UNCHANGED <<place, step, todo, sections>>

\* evict_sink = sum
EvictSink ==
  /\ Running("evict") /\ e = EvictLines
  /\ mem' = Access(mem, place.sink, "write")
  /\ e' = 0
  /\ step' = step + 1
  /\ UNCHANGED <<place, todo, sections>>

\* C is read before it is written (beta * C).
KernelAccess(x, op) ==
  /\ Running("kernel")
  /\ op = "write" /\ x \in place.C => <<x, "read">> \notin todo
  /\ mem' = Access(mem, x, op)
  /\ todo' = todo \ {<<x, op>>}
  /\ UNCHANGED <<place, step, e, sections>>

KernelReturn ==
  /\ Running("kernel") /\ todo = {}
  /\ todo' = KernelWork(place)
  /\ step' = step + 1
  /\ UNCHANGED <<place, e, mem, sections>>

Next ==
  \/ BootWrite \/ BootNext
  \/ m5_reset_stats \/ m5_dump_stats \/ Counters \/ Results
  \/ EvictLoad \/ EvictSink \/ KernelReturn
  \/ \E a \in KernelWork(place) : KernelAccess(a[1], a[2])

Spec == Init /\ [][Next]_vars

-----------------------------------------------------------------------------
\* Resident in cache m; those of S that share the set of line y.
Resident(m, y) == m.age[y] # Out
SameSet(S, y)  == {z \in S : Index(z) = Index(y)}

\* A cache: no two lines of a set have one place, and only what is in it is
\* dirty.
CacheInv(p, m) ==
  /\ m \in [age : [Lines(p) -> 1 .. Out], dirty : SUBSET Lines(p),
           fills : [Lines(p) -> Nat], writebacks : [Lines(p) -> Nat]]
  /\ \A y, z \in Lines(p) :
       y # z /\ Index(y) = Index(z) /\ m.age[y] = m.age[z] => ~Resident(m, y)
  /\ \A y \in m.dirty : Resident(m, y)

\* What has not been used since the lines of S were is older than all of them.
Older(p, m, S) ==
  \A y \in Lines(p) \ S : Resident(m, y) => m.age[y] > Cardinality(SameSet(S, y))

\* Half an eviction fills the cache.
Half == SETS * WAYS
Read(from) == place.evict + from .. place.evict + e - 1

\* The lines read in this eviction, and those of its second half alone, are
\* the youngest; the latter were not in the cache, so they are clean.
EvictInv ==
  /\ Older(place, mem, Read(0)) /\ Older(place, mem, Read(Half))
  /\ Read(Half) \cap mem.dirty = {}

ResidentOwn(p, m) == {z \in Own(p) : Resident(m, z)}

\* Between evictions the program's own lines are the youngest, so a line of
\* the buffer has to leave before one of them does.
OwnInv(p, m) ==
  \A y \in ResidentOwn(p, m) : m.age[y] <= Cardinality(SameSet(ResidentOwn(p, m), y))

\* Only what the program writes is dirty.
CleanInv(p, m) == m.dirty \cap (p.A \cup p.B \cup EvictBuf(p)) = {}

\* What a kernel call has touched is in the cache, what it has written dirty.
KernelInv ==
  \A a \in KernelWork(place) \ todo :
    Resident(mem, a[1]) /\ (a[2] = "write" => a[1] \in mem.dirty)

\* The traffic since the last reset, operation by operation.
TrafficInv ==
  /\ step = 4 => \A x \in Matrices(place) : ~Resident(mem, x)
  /\ step \in 5 .. 8 =>
       /\ \A x \in Matrices(place) : mem.fills[x] = IF Resident(mem, x) THEN 1 ELSE 0
       /\ \A x \in EvictBuf(place) : mem.fills[x] = 0
       /\ \A x \in Lines(place) : mem.writebacks[x] = 0
  /\ step \in 7 .. 8 => \A x \in Matrices(place) : Resident(mem, x)
  /\ step \in 7 .. 10 => place.C \subseteq mem.dirty
  /\ step \in {11, 12} =>
       \A x \in Matrices(place) \cup EvictBuf(place) :
         mem.writebacks[x] = IF x \in place.C \ mem.dirty THEN 1 ELSE 0
  /\ step = 12 => place.C \cap mem.dirty = {}
  /\ step \in 14 .. 18 => \A x \in Kernels(place) : Resident(mem, x)
  /\ step \in 15 .. 18 => \A x \in Kernels(place) : mem.fills[x] = 0 /\ mem.writebacks[x] = 0

ControlInv ==
  /\ place \in Places /\ step \in 1 .. 20
  /\ e \in 0 .. EvictLines /\ (step \notin {3, 11} => e = 0)
  /\ step = 1 => todo \subseteq Bss(place)
  /\ step = 2 => todo \subseteq Data(place)
  /\ step \in {6, 13, 16} => todo \subseteq KernelWork(place)
  /\ step \in 3 .. 20 /\ step \notin {6, 13, 16} => todo = KernelWork(place)
  /\ sections \in Seq([fills : [Lines(place) -> Nat], writebacks : [Lines(place) -> Nat]])
  /\ step \in 1 .. 8 => Len(sections) = 0
  /\ step \in 9 .. 12 => Len(sections) = 1
  /\ step \in 13 .. 18 => Len(sections) = 2
  /\ step \in 19 .. 20 => Len(sections) = 3

Section(n) == sections[n]
Dumped(n)  == Len(sections) >= n

\* "A/B/C evicted first, so D-cache fills = the kernel's DRAM read traffic"
\* (gemm.c:471): the first section has each line of A, B and C filled exactly
\* once, although the start-up code had them in the cache, nothing of the
\* eviction buffer, and no write-back yet.
ColdReads ==
  Dumped(1) =>
    /\ \A x \in Matrices(place) : Section(1).fills[x] = 1
    /\ \A x \in EvictBuf(place) : Section(1).fills[x] = 0
    /\ \A x \in Lines(place) : Section(1).writebacks[x] = 0

\* "pushes C's dirty lines out" (gemm.c:473): the second section has each line
\* of C written back exactly once, none of A and B, which the kernel only
\* read, and none of the eviction buffer, which the start-up code wrote.
EvictWrites ==
  Dumped(2) =>
    \A x \in Matrices(place) \cup EvictBuf(place) :
      Section(2).writebacks[x] = IF x \in place.C THEN 1 ELSE 0

\* "warm call - after one untimed warm-up call" (gemm.c:475): the third
\* section has no traffic for A, B, C or the stack at all.
WarmHits ==
  Dumped(3) =>
    \A x \in Kernels(place) :
      Section(3).fills[x] = 0 /\ Section(3).writebacks[x] = 0

\* The inductive invariant.
IndInv ==
  /\ ControlInv /\ CacheInv(place, mem)
  /\ step \in {3, 11} => EvictInv
  /\ step \in 4 .. 20 => CleanInv(place, mem)
  /\ step \in 4 .. 20 /\ step # 11 => OwnInv(place, mem)
  /\ step \in {6, 13, 16} => KernelInv
  /\ TrafficInv
  /\ ColdReads /\ EvictWrites /\ WarmHits
=============================================================================
