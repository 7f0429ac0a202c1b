------------------------------ MODULE Pipeview ------------------------------
(***************************************************************************)
(* src/script/analyze_o3_pipeview.py, and what gen_hroofline_svg.py takes  *)
(* from the same trace, over the trace a core of Cores has written so far: *)
(* the counts analyze prints for one kernel, as operators over the records *)
(* it is given.  Averages, the grouping by instruction class and the       *)
(* tables of the most frequent entries are left out; a micro-op is its     *)
(* position in trace, its sn.                                              *)
(***************************************************************************)
EXTENDS Cores

CONSTANT SYMBOLS   \* llvm-nm -S: the address and size of each kernel

\* nm's size of a function with code is not zero.
ASSUME SymbolsAssumption ==
  \A kernel \in DOMAIN SYMBOLS : SYMBOLS[kernel].addr \in Nat /\ SYMBOLS[kernel].size \in Nat \ {0}

\* The elements of S from the first to the last: the i-th has i - 1 before it.
\* (SubSeq changes nothing, but makes TLC compute the sequence once.)
Sorted(S, Before(_, _)) ==
  LET Nth(i) == CHOOSE k \in S : Cardinality({j \in S : Before(j, k)}) = i - 1
  IN SubSeq([i \in 1 .. Cardinality(S) |-> Nth(i)], 1, Cardinality(S))
\* The elements of a sequence that are in T.
Select(s, T) ==
  LET at == Sorted({i \in DOMAIN s : s[i] \in T}, <)
  IN SubSeq([i \in DOMAIN at |-> s[at[i]]], 1, Len(at))

\* A kernel's range of PCs.
lo(kernel) == SYMBOLS[kernel].addr
hi(kernel) == SYMBOLS[kernel].addr + SYMBOLS[kernel].size

\* gem5 writes a record when its micro-op leaves the pipeline: a committed one
\* when it retires, a squashed one when its branch has completed.  The records
\* are read in this order.
Left(k) == IF trace[k].retire > 0 THEN At(k, "retire")
           ELSE At(Max({b \in faults : b < k}), "complete")

parse_trace(a, b) == Left(a) < Left(b) \/ (Left(a) = Left(b) /\ a < b)

Committed(k) == trace[k].retire > 0

InKernel(kernel) == {k \in Indices : lo(kernel) <= trace[k].pc /\ trace[k].pc < hi(kernel)}

\* Mutant: a squashed fetch of the first instruction counts as a call.
entries_any(rs, kernel) == Select(rs, {k \in Indices : trace[k].pc = lo(kernel)})

\* The committed fetches of the kernel's first instruction: its calls.
entries(rs, kernel) == Select(rs, {k \in Kept : trace[k].pc = lo(kernel)})

\* A kernel's records; with --last-call those from the last of its calls in the
\* file on.
Selected(kernel, last_call) ==
  LET rs == InKernel(kernel)
      es == {k \in rs \cap Kept : trace[k].pc = lo(kernel)}
      last == CHOOSE k \in es : \A j \in es \ {k} : parse_trace(j, k)
  IN IF last_call /\ es # {} THEN {k \in rs : k >= last} ELSE rs

\* Mutant: the order of the file, in which a squashed micro-op may precede the
\* branch that squashed it.
unsorted(kernel, last_call) == Sorted(Selected(kernel, last_call), parse_trace)

\* rs.sort(key=sn)
analyzed(kernel, last_call) == Sorted(Selected(kernel, last_call), <)

com(rs) == Select(rs, Kept)
sq(rs)  == Select(rs, Indices \ Kept)

\* The span in cycles, and how many micro-ops commit in one of them.
cycles(rs) == Min({At(k, "fetch") : k \in Range(rs)}) .. Max({At(k, "retire") : k \in Range(com(rs))})
commits(rs, c) == Cardinality({k \in Range(com(rs)) : At(k, "retire") = c})

\* bisect_right(xs, x), 0-based, for a sorted xs.
bisect_right(xs, x) == Cardinality({i \in DOMAIN xs : xs[i] <= x})

rets(rs) == LET c == com(rs) IN [i \in DOMAIN c |-> At(c[i], "retire")]

\* Mutant: the record before.
HeadBefore(rs, c) == com(rs)[Max({1, bisect_right(rets(rs), c)})]

\* The head of a cycle without a commit: h = com[bisect_right(rets, c)].
HeadAt(rs, c) == com(rs)[bisect_right(rets(rs), c) + 1]

\* Mutant: the stages asked for in the other order.
WhyBackwards(h, c) ==
  IF At(h, "issue") > c THEN "waiting to issue"
  ELSE IF At(h, "dispatch") > c THEN "decode/rename"
  ELSE IF At(h, "fetch") > c THEN "not fetched"
  ELSE IF At(h, "complete") > c THEN "executing"
  ELSE "awaiting commit"

Why(h, c) ==
  IF At(h, "fetch") > c THEN "not fetched"
  ELSE IF At(h, "dispatch") > c THEN "decode/rename"
  ELSE IF At(h, "issue") > c THEN "waiting to issue"
  ELSE IF At(h, "complete") > c THEN "executing"
  ELSE "awaiting commit"

Stalls(rs) == {c \in cycles(rs) : commits(rs, c) = 0}

\* The squashed micro-ops from position p on up to the next committed one.
Run(rs, p) == {rs[i] : i \in {i \in p .. Len(rs) : \A j \in p .. i : ~Committed(rs[j])}}

\* The runs of squashed micro-ops, each with the last committed one before it
\* (0 if there is none).
events(rs) ==
  {[prev |-> IF p = 1 THEN 0 ELSE rs[p - 1], ops |-> Run(rs, p)] :
     p \in {p \in DOMAIN rs : ~Committed(rs[p]) /\ (p = 1 \/ Committed(rs[p - 1]))}}

\* Mutant: squashed fetches strictly inside the gap only.
gaps_inside(rs) ==
  LET c        == com(rs)
      f(i)     == At(c[i], "fetch")
      line(i)  == trace[c[i]].pc \div ICACHE_LINE
      last(i)  == Max({f(j) : j \in 1 .. i - 1})
      squashed == {At(k, "fetch") : k \in Range(sq(rs))}
  IN [i \in {i \in 2 .. Len(c) : f(i) - last(i) > 1} |->
        [after |-> c[i - 1], before |-> c[i], size |-> f(i) - last(i) - 1,
         cause |-> IF line(i) \notin {line(j) : j \in 1 .. i - 1} THEN "cold"
                   ELSE IF squashed \cap (last(i) + 1 .. f(i) - 1) # {} THEN "squash"
                   ELSE "other"]]

\* The gaps between the fetch of a committed micro-op and the latest of those
\* before it, by cause: a line not seen before, a squashed fetch in the gap or
\* at one of its ends.
gaps(rs) ==
  LET c        == com(rs)
      f(i)     == At(c[i], "fetch")
      line(i)  == trace[c[i]].pc \div ICACHE_LINE
      last(i)  == Max({f(j) : j \in 1 .. i - 1})
      squashed == {At(k, "fetch") : k \in Range(sq(rs))}
  IN [i \in {i \in 2 .. Len(c) : f(i) - last(i) > 1} |->
        [after |-> c[i - 1], before |-> c[i], size |-> f(i) - last(i) - 1,
         cause |-> IF line(i) \notin {line(j) : j \in 1 .. i - 1} THEN "cold"
                   ELSE IF squashed \cap (last(i) .. f(i)) # {} THEN "squash"
                   ELSE "other"]]

\* The cycles of the gaps with a cause, one by one.
GapCycles(rs, cause) ==
  LET g == gaps(rs)
  IN UNION {{i} \X (1 .. g[i].size) : i \in {i \in DOMAIN g : g[i].cause = cause}}

-----------------------------------------------------------------------------
(* gen_hroofline_svg.py                                                    *)

MEM_W == [fld |-> 8, fsd |-> 8]

\* A vector micro-op moves a register, that is a cache line.
mem_bytes(dis) ==
  IF dis \in {"vle64_v", "vse64_v"} THEN 64
  ELSE IF dis \in DOMAIN MEM_W THEN MEM_W[dis] ELSE 0

Bytes(S) == MapThenSumSet(LAMBDA k : mem_bytes(trace[k].dis), S)

\* Mutant: squashed micro-ops count.
l1_bytes_all(kernel) ==
  LET recs  == analyzed(kernel, FALSE)
      calls == entries_any(recs, kernel)
      End(n) == IF n < Len(calls) THEN calls[n + 1] ELSE Len(trace) + 1
      Call(n) == Range(recs) \cap (calls[n] .. End(n) - 1)
  IN IF Len(calls) < 3 THEN <<>> ELSE <<Bytes(Call(1)), Bytes(Call(3))>>

\* The bytes of the calls number 1 (cold) and 3 (warm) of the kernel; fewer
\* than three calls end the script.
l1_bytes(kernel) ==
  LET recs  == com(analyzed(kernel, FALSE))
      calls == entries(recs, kernel)
      End(n) == IF n < Len(calls) THEN calls[n + 1] ELSE Len(trace) + 1
      Call(n) == Range(recs) \cap (calls[n] .. End(n) - 1)
  IN IF Len(calls) < 3 THEN <<>> ELSE <<Bytes(Call(1)), Bytes(Call(3))>>

-----------------------------------------------------------------------------
(* What the counts mean.                                                   *)

\* analyze is called on these; max() over the retirements raises if none is
\* committed, as when a run is cut off inside a wrong path.
Analyses == {rs \in {analyzed(kernel, last) : kernel \in DOMAIN SYMBOLS, last \in BOOLEAN} :
               com(rs) # <<>>}

\* The records of one call, all the trace holds between the first and the last.
OneCall(rs) ==
  \A k \in Indices : (rs[1] <= k /\ k <= rs[Len(rs)] /\ Committed(k)) => k \in Range(rs)

\* The oldest micro-op that has not retired in cycle c and will.
RobHead(c) == Min({k \in Kept : At(k, "retire") > c})

\* "zero-commit cycles -> ROB head's state": the record a cycle is charged to
\* is the head of the reorder buffer in that cycle, unless an instruction of
\* the caller, from before the call, still is.
ChargedToHead ==
  \A rs \in Analyses : OneCall(rs) =>
    \A c \in Stalls(rs) :
      HeadAt(rs, c) = RobHead(c) \/ RobHead(c) < rs[1]

\* A cycle charged to the front end is one in which the back end had nothing
\* of the call to work on: "frontend-bound" means that.
FrontendStarved ==
  \A rs \in Analyses : \A c \in Stalls(rs) :
    LET inFlight(stage) ==
          {k \in Range(com(rs)) : At(k, stage) <= c /\ c < At(k, "retire")}
    IN CASE Why(HeadAt(rs, c), c) = "not fetched" -> inFlight("fetch") = {}
         [] Why(HeadAt(rs, c), c) = "decode/rename" -> inFlight("dispatch") = {}
         [] OTHER -> inFlight("dispatch") # {}

\* The micro-ops of the wrong path of branch b.
WrongOf(b) == {k \in Indices \ Kept : b < k /\ \A q \in faults : q < k => q <= b}

\* Each run of squashed micro-ops is keyed by the branch that was mispredicted,
\* if that branch is the kernel's, and no such branch goes missing.
SquashesKeyed ==
  \A rs \in Analyses : \A b \in faults \cap Range(rs) :
    LET wrong == WrongOf(b) \cap Range(rs) IN
    /\ \A ev \in events(rs) : wrong \cap ev.ops # {} => ev.prev = b
    /\ wrong # {} => \E ev \in events(rs) : wrong \subseteq ev.ops

\* The gap cycles are the cycles of the fetch phase in which no committed
\* micro-op of the kernel was fetched.  A gap is laid to a squash only if fetch
\* went wrong after its first end, and before its second one or in the same
\* cycle; if it went wrong at its first end, on a path in the kernel, the gap
\* is laid to nothing but that or to a new line.
GapsExplained ==
  \A rs \in Analyses :
    LET fetches == {At(k, "fetch") : k \in Range(com(rs))}
        idle    == (Min(fetches) .. Max(fetches)) \ fetches
    IN /\ Cardinality(GapCycles(rs, "cold")) + Cardinality(GapCycles(rs, "squash"))
            + Cardinality(GapCycles(rs, "other")) = Cardinality(idle)
       /\ \A g \in Range(gaps(rs)) :
            /\ g.cause = "squash" =>
                 \E b \in faults :
                   /\ g.after <= b
                   /\ \/ b < g.before
                      \/ \E k \in WrongOf(b) : At(k, "fetch") = At(g.before, "fetch")
            /\ (g.after \in faults /\ WrongOf(g.after) \cap Range(rs) # {}) => g.cause # "other"

\* The number of the call a committed micro-op of the kernel belongs to.
CallOf(kernel, k) ==
  Cardinality({entry \in Kept : trace[entry].pc = lo(kernel) /\ entry <= k})

\* What is taken for one call is one call, whatever the wrong paths fetched:
\* the records --last-call keeps, and the bytes of the roofline's cold and
\* warm points, the first and the third call.
CallsSeparated ==
  \A kernel \in DOMAIN SYMBOLS :
    LET mine(n)  == {k \in Kept : /\ lo(kernel) <= trace[k].pc /\ trace[k].pc < hi(kernel)
                                  /\ CallOf(kernel, k) = n}
        bytes(n) == Bytes(mine(n))
        calls    == CallOf(kernel, Len(trace))
    IN /\ Range(com(analyzed(kernel, TRUE))) = mine(calls)
       /\ calls >= 3 => l1_bytes(kernel) = <<bytes(1), bytes(3)>>
=============================================================================
