------------------------------ MODULE Hroofline ------------------------------
(***************************************************************************)
(* What gen_hroofline_svg.py makes of the sections roofline_main dumps     *)
(* into stats.txt: the DRAM traffic of a cold and of a warm call, its      *)
(* arithmetic intensity, and whether its point lies between the axes.      *)
(* Intensities are compared as fractions, FLOPS over q.                    *)
(***************************************************************************)
EXTENDS Roofline

CONSTANT FLOPS      \* 2 * M * N * K

LINE == 64          \* bytes of a cache line

\* The lines a cold call cannot do without: A, B and C read, C written back.
Compulsory(p) == Cardinality(Matrices(p)) + Cardinality(p.C)

\* What else the program has in the cache when it measures.  For 16, 64, 16 in
\* half precision 114 to 124 lines are measured in a cold call, 10 to 20 more
\* than the compulsory 104 (doc/gemm_analysis.md:400-416).
Others(p) == p.stack \cup {p.counters, p.results, p.sink}

\* The shapes the plot is made for: more lines than the variables next to
\* them, an intensity above 0.1 for all of them and below 1000 for a single
\* one (M, N, K = 16, 64, 16 in half precision: 104 lines and 32768 FLOPs).
ASSUME FlopsAssumption ==
  /\ FLOPS \in Nat /\ FLOPS <= 1000 * LINE
  /\ \A p \in Places :
       /\ Compulsory(p) > Cardinality(Others(p))
       /\ (Compulsory(p) + 2 * Cardinality(Others(p))) * LINE <= 10 * FLOPS

\* The sections after the first separator; the one gem5 adds at its exit is
\* the last.
secs == sections

\* Each line as often as it was counted.
Units(count) == UNION {{x} \X (1 .. count[x]) : x \in DOMAIN count}

\* stat(section, name): a total over all lines; gem5 leaves out what is zero.
stat(section, name) == Cardinality(Units(section[name]))

\* Mutant: the write-backs of the cold call's own section.
wb_cold == stat(secs[1], "writebacks")

fills_cold == stat(secs[1], "fills")
wb         == stat(secs[2], "writebacks")
fills_warm == stat(secs[3], "fills")

\* collect(): the DRAM bytes of the two calls.
q == [cold |-> (fills_cold + wb) * LINE, warm |-> fills_warm * LINE]

\* The x axis goes from 0.1 to 1000 FLOP per byte, on a logarithmic scale; a
\* call without any traffic has an infinite intensity and no place on it.
Plotted(state) == q[state] > 0 /\ q[state] <= 10 * FLOPS /\ FLOPS <= 1000 * q[state]

-----------------------------------------------------------------------------
\* The DRAM points of the plot show the kernel: the cold call is charged every
\* line of A, B and C once for reading and every line of C once for writing,
\* the warm call nothing of them, and what else is counted is at most one fill
\* and one write-back of each line of the kernel's stack, of the counters, the
\* results and the sink; the cold point lies on the x axis, left of the warm
\* one, which lies on it too unless the warm call had no traffic at all
\* (gen_hroofline_svg.py:10-13, 111-122; gemm.c:471-475).
PlottedTraffic ==
  Len(sections) = 3 =>
    LET others == Cardinality(Others(place))
    IN /\ q.cold \in Compulsory(place) * LINE .. (Compulsory(place) + 2 * others) * LINE
       /\ q.warm \in 0 .. others * LINE
       /\ q.warm < q.cold
       /\ Plotted("cold") /\ (q.warm > 0 => Plotted("warm"))

\* The invariant behind it, next to IndInv: in a section each of the program's
\* lines is filled at most once, in the second written back at most once, and
\* the eviction buffer is not counted.
Once(count) == \A x \in Own(place) : count[x] <= 1

OthersInv ==
  /\ step \in 5 .. 8 \cup 15 .. 18 =>
       \A x \in Own(place) : mem.fills[x] <= IF Resident(mem, x) THEN 1 ELSE 0
  /\ step \in 15 .. 18 => \A x \in EvictBuf(place) : mem.fills[x] = 0
  /\ step \in {11, 12} => Once(mem.writebacks)
  /\ step = 11 => \A x \in mem.dirty : mem.writebacks[x] = 0
  /\ Dumped(1) => Once(Section(1).fills)
  /\ Dumped(2) => Once(Section(2).writebacks)
  /\ Dumped(3) => /\ Once(Section(3).fills)
                  /\ \A x \in EvictBuf(place) : Section(3).fills[x] = 0
=============================================================================
