-------------------------------- MODULE Cores --------------------------------
(***************************************************************************)
(* The simulated cores, as the files of src/sim_config/ put them together: *)
(* each constructor below is one configuration file with its environment   *)
(* knobs as parameters.  What gem5 does with a configuration (fetch,       *)
(* issue, squash, retire) is external; it is modelled from what the        *)
(* repository says of it: an instruction takes the first cycle in which a  *)
(* unit of its class is free and its sources are there.  One action        *)
(* handles one instruction; the record it leaves is what an O3PipeView     *)
(* trace holds of it, in ticks.                                            *)
(***************************************************************************)
EXTENDS Integers, Sequences, FiniteSetsExt

CONSTANTS RUNS,       \* pairs of a configuration and a program, a sequence of
                      \* [pc, dis, reg] in program order (reg 0: no register)
          ICACHE_LINE, \* instructions in an I-cache line
          MISS,       \* cycles of a line fetch that goes to DRAM
          WRONG,      \* bound: wrong-path micro-ops of one misprediction
          WRONGPCS,   \* where the wrong path may lead
          TICKS_PER_CYCLE

VARIABLES core, prog,
          next,       \* index in prog of the next instruction
          trace,      \* the records so far, in the order of sn
          lost,       \* TRUE while fetch follows a mispredicted branch
          faults      \* indices in trace of the branches mispredicted

coreVars == <<core, prog, next, trace, lost, faults>>

-----------------------------------------------------------------------------
(* Functional units: the latency of each class the unit executes, the      *)
(* cycles before it takes another operation, and the cycles after issue    *)
(* at which it reads its sources.                                          *)

FU(lat, issueLat, rel) == [lat |-> lat, issueLat |-> issueLat, rel |-> rel]

Copies(n, fu) == [u \in 1 .. n |-> fu]

\* The classes of the programs here; the lists hold many more of each kind.
SCALAR_FP_OPS == {"FloatMultAcc"}
VECTOR_OPS    == {"SimdFloatMultAcc", "SimdFloatReduceAdd"}

\* gem5's own units, as the configurations' comments describe them.
IntFU == FU([c \in {"IntAlu"} |-> 3], 1, 2)
MemFU == FU([c \in {"Mem"} |-> 1], 1, 0)
FloatSimdFU(opLat) ==
  FU([c \in SCALAR_FP_OPS \cup VECTOR_OPS \cup {"SimdConfig"} |-> opLat], 1, 2)

\* An I-cache hit costs tag, data and response latency; a miss goes over the
\* bus to DRAM.
L1(latency) == 3 * latency

\* The configuration files.  Without a pipeline the next instruction waits
\* for the one before; fetches counts the line fetches in flight.
TimingSimple ==
  [cpu |-> "timing", width |-> 1, ooo |-> FALSE, pipelined |-> FALSE, dlen |-> 512,
   units |-> <<FU([c \in {"IntAlu", "Mem", "SimdConfig"} \cup SCALAR_FP_OPS \cup VECTOR_OPS |-> 1], 1, 0)>>,
   fetches |-> 1, icache |-> L1(2), prefetch |-> 0]

CustomMinorFUPool(FLOAT_FU_COUNT, SIMD_OPLAT) ==
  Copies(2, IntFU) \o Copies(FLOAT_FU_COUNT, FloatSimdFU(SIMD_OPLAT)) \o <<MemFU>>

Minor(FLOAT_FU_COUNT, SIMD_OPLAT, FETCH_LIMIT, ICACHE_LAT) ==
  [cpu |-> "minor", width |-> 2, ooo |-> FALSE, pipelined |-> TRUE, dlen |-> 512,
   units |-> CustomMinorFUPool(FLOAT_FU_COUNT, SIMD_OPLAT),
   fetches |-> FETCH_LIMIT, icache |-> L1(ICACHE_LAT),
   prefetch |-> 0]

IntAluConfigFU == FU([c \in {"IntAlu", "SimdConfig"} |-> 3], 1, 2)
ScalarFpFU(SCALAR_FP_OPLAT) == FU([c \in SCALAR_FP_OPS |-> SCALAR_FP_OPLAT], 1, 2)

\* Mutant: the whole vector register enters in one cycle.
VectorFUWide(VPU_OPLAT, VLEN, DLEN) == FU([c \in VECTOR_OPS |-> VPU_OPLAT], 1, 2)

VectorFU(VPU_OPLAT, VLEN, DLEN) == FU([c \in VECTOR_OPS |-> VPU_OPLAT], VLEN \div DLEN, 2)

\* Mutant: the stock unit, scalar and vector operations in one pipe.
SharedPipe(DLEN, VPU_OPLAT, SCALAR_FP_OPLAT) ==
  Copies(2, IntAluConfigFU)
    \o <<FU([c \in SCALAR_FP_OPS \cup VECTOR_OPS |-> VPU_OPLAT], 512 \div DLEN, 2), MemFU>>

InOrderDualIssueFUPool(DLEN, VPU_OPLAT, SCALAR_FP_OPLAT) ==
  Copies(2, IntAluConfigFU)
    \o <<ScalarFpFU(SCALAR_FP_OPLAT), VectorFU(VPU_OPLAT, 512, DLEN), MemFU>>

\* assert VLEN % DLEN == 0 and DLEN <= VLEN.  (Python raises for 0, and lets
\* a negative divisor pass.)
Accepted(DLEN) == 512 % (IF DLEN < 0 THEN -DLEN ELSE DLEN) = 0 /\ DLEN <= 512

Superscalar(DLEN, VPU_OPLAT, SCALAR_FP_OPLAT) ==
  [cpu |-> "superscalar", width |-> 2, ooo |-> FALSE, pipelined |-> TRUE, dlen |-> DLEN,
   units |-> InOrderDualIssueFUPool(DLEN, VPU_OPLAT, SCALAR_FP_OPLAT),
   fetches |-> 2, icache |-> L1(1), prefetch |-> 0]

\* Four units; only vfmacc has a latency of its own, the rest take a cycle.
CustomSIMDUnit(SIMD_FMA_OPLAT) ==
  FU([c \in VECTOR_OPS \cup {"SimdConfig"} |->
        IF c = "SimdFloatMultAcc" THEN SIMD_FMA_OPLAT ELSE 1], 1, 0)

CustomFUPool(SIMD_FMA_OPLAT) ==
  Copies(6, FU([c \in {"IntAlu"} |-> 1], 1, 0))
    \o Copies(2, FU([c \in SCALAR_FP_OPS |-> 5], 1, 0))
    \o Copies(4, CustomSIMDUnit(SIMD_FMA_OPLAT))
    \o Copies(4, MemFU)

O3(SIMD_FMA_OPLAT, ICACHE_PF_DEGREE) ==
  [cpu |-> "o3", width |-> 8, ooo |-> TRUE, pipelined |-> TRUE, dlen |-> 512,
   units |-> CustomFUPool(SIMD_FMA_OPLAT),
   fetches |-> 4, icache |-> L1(2),
   prefetch |-> ICACHE_PF_DEGREE]

\* Units take whole cycles, a cycle at least; what no core of the files lacks.
IsUnit(fu) ==
  /\ fu.lat \in [DOMAIN fu.lat -> Nat \ {0}]
  /\ fu.issueLat \in Nat \ {0} /\ fu.rel \in Nat

IsCore(c) ==
  /\ c.width \in Nat \ {0} /\ {c.ooo, c.pipelined} \subseteq BOOLEAN
  /\ {c.fetches, c.icache, c.prefetch} \subseteq Nat
  /\ DOMAIN c.units \subseteq Nat /\ \A u \in DOMAIN c.units : IsUnit(c.units[u])

ASSUME CoresAssumption ==
  /\ ICACHE_LINE \in Nat \ {0} /\ TICKS_PER_CYCLE \in Nat \ {0}
  /\ MISS \in Nat /\ WRONG \in Nat /\ WRONGPCS \subseteq Nat
  /\ \A r \in RUNS : IsCore(r.core) /\ r.prog \in Seq([pc : Nat, dis : STRING, reg : Nat])

-----------------------------------------------------------------------------
(* What gem5 makes of a configuration.                                     *)

OpClass(dis) ==
  CASE dis = "vfmacc_vv" -> "SimdFloatMultAcc"
    [] dis = "vfredusum_vs" -> "SimdFloatReduceAdd"
    [] dis = "fmadd_d" -> "FloatMultAcc"
    [] dis \in {"vsetvli", "vsetivli"} -> "SimdConfig"
    [] dis \in {"vle64_v", "vse64_v", "fld", "fsd"} -> "Mem"
    [] OTHER -> "IntAlu"

IsBranch(dis) == dis \in {"bltu", "bnez", "jal", "ret"}

Indices == 1 .. Len(trace)
Done == next > Len(prog)

Cycle(ticks) == ticks \div TICKS_PER_CYCLE
At(k, stage) == Cycle(trace[k][stage])

\* Units, of those that execute class c.
Serving(c) == {u \in DOMAIN core.units : c \in DOMAIN core.units[u].lat}

Kept == {k \in Indices : trace[k].retire > 0}

\* The last instruction before this one that writes its register.
Producers(x) == IF x.reg = 0 THEN {} ELSE {k \in Kept : trace[k].reg = x.reg}

\* The first cycle in which unit u may be given x: the result of the producer
\* is there when u reads it.
Ready(x, u) ==
  IF Producers(x) = {} THEN 0
  ELSE LET p == Max(Producers(x))
       IN Max({At(p, "issue") + 1, At(p, "complete") - core.units[u].rel})

Issued == {k \in Indices : trace[k].issue > 0}

\* Unit u took no operation less than issueLat cycles before t.
Idle(u, t) ==
  \A k \in Issued : (trace[k].unit = u /\ At(k, "issue") <= t) =>
    t - At(k, "issue") >= core.units[u].issueLat

\* An in-order core issues in program order, one that is not pipelined after
\* the instruction before has completed; all issue at most width in a cycle.
Allowed(t) ==
  /\ Cardinality({k \in Issued : At(k, "issue") = t}) < core.width
  /\ ~core.ooo => \A k \in Issued : At(k, "issue") <= t
  /\ ~core.pipelined => \A k \in Issued : At(k, "complete") <= t

Takers(x, t) ==
  IF Allowed(t) THEN {u \in Serving(OpClass(x.dis)) : Idle(u, t) /\ Ready(x, u) <= t} ELSE {}

\* From this cycle on every unit is idle and every result is there.
Drained(t) ==
  Max({t} \cup {At(k, "complete") : k \in Issued}
          \cup {At(k, "issue") + core.units[trace[k].unit].issueLat : k \in Issued})

\* The earliest cycle some unit takes x, from t on.
IssueAt(x, t) == Min({c \in t .. Drained(t) : Takers(x, c) # {}})

\* In-order commit, width in a cycle, not in the cycle of completion.
RetireAt(complete) ==
  LET from == Max({complete + 1} \cup {At(k, "retire") : k \in Kept})
  IN Min({t \in from .. from + 1 :
       Cardinality({k \in Kept : At(k, "retire") = t}) < core.width})

FetchedLines == {trace[k].pc \div ICACHE_LINE : k \in Indices}

LastFetch == IF trace = <<>> THEN 1 ELSE At(Len(trace), "fetch")

\* When the next instruction can be fetched: with the one before (at most
\* width in a cycle, not past a branch) or a cycle later from the line at
\* hand; after a line fetch from another, which overlaps if several may be in
\* flight, and may have been prefetched.
FetchAt(x) ==
  IF trace = <<>> THEN {LastFetch}
  ELSE LET before == trace[Len(trace)]
           room   == /\ ~IsBranch(before.dis)
                     /\ Cardinality({k \in Indices : At(k, "fetch") = LastFetch}) < core.width
           resume == IF lost THEN At(Max(faults), "complete") + 1 ELSE LastFetch
           line   == x.pc \div ICACHE_LINE
           cost   == IF line = before.pc \div ICACHE_LINE THEN {0, 1}
                     ELSE IF line \in FetchedLines
                     THEN (IF core.fetches > 1 THEN {0, core.icache} ELSE {core.icache})
                     ELSE (IF core.prefetch > 0 THEN {0, MISS} ELSE {MISS})
       IN {f \in {resume + c : c \in cost} : f > LastFetch \/ room}

\* Decode and rename take a cycle.
Record(x, f) ==
  LET issue    == IssueAt(x, f + 1)
      unit     == Min(Takers(x, issue))
      complete == issue + core.units[unit].lat[OpClass(x.dis)]
  IN [pc |-> x.pc, dis |-> x.dis, reg |-> x.reg, unit |-> unit,
      fetch |-> f * TICKS_PER_CYCLE, dispatch |-> (f + 1) * TICKS_PER_CYCLE,
      issue |-> issue * TICKS_PER_CYCLE, complete |-> complete * TICKS_PER_CYCLE,
      retire |-> RetireAt(complete) * TICKS_PER_CYCLE]

-----------------------------------------------------------------------------

CoreInit ==
  /\ \E r \in RUNS : core = r.core /\ prog = r.prog
  /\ next = 1 /\ trace = <<>> /\ lost = FALSE /\ faults = {}

\* The next instruction of the program; fetch may lose the way after a branch.
Execute ==
  /\ ~Done /\ Serving(OpClass(prog[next].dis)) # {}
  /\ \E f \in FetchAt(prog[next]) : trace' = Append(trace, Record(prog[next], f))
  /\ lost' \in IF core.ooo /\ IsBranch(prog[next].dis) THEN BOOLEAN ELSE {FALSE}
  /\ faults' = faults \cup (IF lost' THEN {Len(trace')} ELSE {})
  /\ next' = next + 1
  /\ UNCHANGED <<core, prog>>

\* A micro-op of the wrong path, fetched before the branch is resolved.  It is
\* squashed: the trace gives its retirement as 0.
WrongPath ==
  /\ lost /\ Len(trace) < Max(faults) + WRONG
  /\ \E f \in {LastFetch, LastFetch + 1}, pc \in WRONGPCS :
       /\ f <= At(Max(faults), "complete")
       /\ trace' = Append(trace, [pc |-> pc, dis |-> "addi", reg |-> 0, unit |-> 0,
                                  fetch |-> f * TICKS_PER_CYCLE, dispatch |-> 0,
                                  issue |-> 0, complete |-> 0, retire |-> 0])
  /\ UNCHANGED <<core, prog, next, lost, faults>>

CoreNext == Execute \/ WrongPath

CoreSpec == CoreInit /\ [][CoreNext]_coreVars

-----------------------------------------------------------------------------

Chains == Cardinality({x.reg : x \in {prog[k] : k \in DOMAIN prog}})

\* The program of the micro-benchmark without its loop: vfmacc on Chains
\* accumulators in turn.
Stream ==
  \A k \in DOMAIN prog : prog[k].dis = "vfmacc_vv" /\ prog[k].reg = 1 + ((k - 1) % Chains)

\* When the k-th vfmacc of a stream issues if nothing but the vector units and
\* the accumulators hold it up.
Ideal(k) ==
  LET pipes  == Serving("SimdFloatMultAcc")
      pipe   == core.units[Min(pipes)]
      n      == Cardinality(pipes)
      space  == Max({1, pipe.lat["SimdFloatMultAcc"] - pipe.rel})
      every  == 512 \div core.dlen
      period == Max({space, (Chains * every + n - 1) \div n})
  IN At(1, "issue") + ((k - 1) \div Chains) * period + (((k - 1) % Chains) * every) \div n

\* What the configurations' comments say of the vector unit, for every setting
\* of their knobs: a vfmacc follows the one it depends on after opLat - 2
\* cycles (opLat on O3), one on another accumulator enters the pipe after
\* VLEN/DLEN cycles, and with accumulators enough the latency is hidden.
Throughput ==
  (Stream /\ core.pipelined) =>
    \A k \in Indices :
      (\A i \in 1 .. k : At(i, "fetch") < Ideal(i)) => At(k, "issue") = Ideal(k)

\* The superscalar configuration's reason for two units: a scalar instruction
\* (scalar FP, vsetvli) behind a vector one issues in the same cycle, unless
\* its own operands, its fetch or the issue width hold it up.
DualIssue ==
  core.cpu = "superscalar" =>
    \A k \in Indices \ {1} :
      LET t == Max({At(k, "fetch") + 1, At(k - 1, "issue")})
          vector(i) == OpClass(trace[i].dis) \in VECTOR_OPS
          waits == \E p \in 1 .. k - 1 :
                     /\ trace[k].reg # 0 /\ trace[p].reg = trace[k].reg
                     /\ At(p, "complete") > t
          full == Cardinality({i \in 1 .. k - 1 : At(i, "issue") = t}) = core.width
      IN (vector(k - 1) /\ ~vector(k) /\ OpClass(trace[k].dis) # "Mem" /\ ~waits /\ ~full)
           => At(k, "issue") = t

=============================================================================
