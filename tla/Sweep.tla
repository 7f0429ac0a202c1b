-------------------------------- MODULE Sweep --------------------------------
(***************************************************************************)
(* test/sweep.py with the parts of script/python_riscv_sim.py,             *)
(* script/python_log_parser.py and the Makefile it drives.  For each point *)
(* of the sweep it rebuilds the one binary test/gemm_riscv, runs it on     *)
(* whisper and on gem5, parses the two logs into a row, and writes the     *)
(* summary of all rows at the end; "sweep.py clean" removes the outputs.   *)
(*                                                                         *)
(* Files outlive the script, and every external program may fail: make may *)
(* leave no binary, a simulator may stop after any line.  None of their    *)
(* exit codes is looked at (check=False).  A number in a log or in a row   *)
(* is represented by where it was measured.                                *)
(***************************************************************************)
EXTENDS Integers, Sequences, FiniteSets, Functions

CONSTANTS Configs,    \* the merged configurations in the order of
                      \* sweep_config.json: a sequence of records with name,
                      \* flags, core, kernel, test_enable and points, the
                      \* sequence of (width, interleave) pairs
          LineCuts,   \* after how many counter lines a simulator may stop
          None        \* Python's None, an absent file

\* VARIANTS: the ones a sweep runs.
VARIANTS == {v \in DOMAIN Configs : Configs[v].test_enable}

\* The points a sweep goes through.
PointsOf(S) == UNION {{<<v, q>> : q \in DOMAIN Configs[v].points} : v \in S}
Points      == PointsOf(VARIANTS)

Tag(v, q) == <<Configs[v].name, Configs[v].points[q]>>
TagsOf(S) == {Tag(p[1], p[2]) : p \in PointsOf(S)}
Tags == TagsOf(DOMAIN Configs)

\* MARCH and BENCH_EXTRA_FLAGS of a point: what its binary is built from.
Flags(v, q) == <<Configs[v].flags, Configs[v].points[q]>>
Builds == {Flags(p[1], p[2]) : p \in PointsOf(DOMAIN Configs)}

\* main() prints a block of counters per kernel, kernels and lines in these
\* orders.
Kernels == <<"scalar", "opt", "blocked">>
Block == <<"mcycle", "minstret", "Vector", "VectorLoad", "VectorStore">>
KERNEL_OCCURRENCE == [scalar |-> 0, opt |-> 1, blocked |-> 2]

\* What a sweep can measure: on which binary and core, for which kernel.
Simulators == {"whisper", "gem5"}
Cores  == {"whisper"} \cup {Configs[v].core : v \in DOMAIN Configs}
Values == [run : {"this"}, flags : Builds, core : Cores, sim : Simulators, kernel : Range(Kernels)]

\* The names of the variants are keys of a JSON object; none of their lists of
\* widths and interleavings has an entry twice.
ASSUME ConfigsAssumption ==
  /\ DOMAIN Configs \subseteq Nat
  /\ \A v \in DOMAIN Configs :
       /\ Configs[v].kernel \in DOMAIN KERNEL_OCCURRENCE
       /\ Configs[v].test_enable \in BOOLEAN
       /\ Len(Configs[v].points) \in Nat \ {0}
       /\ DOMAIN Configs[v].points = 1 .. Len(Configs[v].points)
       /\ \A p, q \in DOMAIN Configs[v].points : Configs[v].points[p] = Configs[v].points[q] => p = q
  /\ \A v, w \in DOMAIN Configs : Configs[v].name = Configs[w].name => v = w
  /\ VARIANTS # {}
  /\ LineCuts \subseteq 0 .. 15
  /\ None \notin Builds /\ None \notin Values

VARIABLES pc,        \* "build", "whisper", "gem5", "parse", "summary", "clean";
                     \* "done", "cleaned" or "crashed" (an uncaught exception)
          v, q,      \* the point: variant v, the q-th pair of its points
          binary,    \* the flags test/gemm_riscv was built from, or None
          log,       \* log[tag][sim]: the log file, or None
          m5out,     \* the tags with an m5out directory
          results,   \* the rows so far
          summary    \* the rows in sweep_summary.txt, or None

vars == <<pc, v, q, binary, log, m5out, results, summary>>

\* A log file: the sweep that wrote it, the binary and the core that ran, and
\* how many counter lines it got to print.
LogFile(run, flags, core, lines) ==
  [run |-> run, flags |-> flags, core |-> core, lines |-> lines]

NoLogs == [t \in Tags |-> [sim \in Simulators |-> None]]

\* A clean tree, or one where an earlier sweep ran, of all the variants.
EarlierLogs ==
  [t \in Tags |-> [sim \in Simulators |-> LogFile("earlier", t, sim, 15)]]

First(S) == CHOOSE w \in S : \A u \in S : w <= u

Init ==
  /\ pc \in {"build", "clean"}
  /\ v = First(VARIANTS) /\ q = 1
  /\ \E used \in BOOLEAN :
       /\ log = IF used THEN EarlierLogs ELSE NoLogs
       /\ m5out = IF used THEN Tags ELSE {}
       /\ summary = IF used THEN <<>> ELSE None
       /\ binary \in IF used THEN {None} \cup Builds ELSE {None}
  /\ results = <<>>

-----------------------------------------------------------------------------
\* Mutant: the old binary is left in place.
KeepBinary(b) == b

\* os.remove(binary), whether or not it is there
Remove(b) == None

\* make does nothing for a target that is there; else it compiles, or fails.
Make(b, flags) == IF b # None THEN {b} ELSE {None, flags}

Build ==
  /\ pc = "build"
  /\ binary' \in Make(Remove(binary), Flags(v, q))
  /\ pc' = "whisper"
  /\ UNCHANGED <<v, q, log, m5out, results, summary>>

\* sim_bin ... | tee logfile: the log is replaced whatever happens.  Without
\* a binary no line is printed; with one the simulator may stop early.
Simulate(sim, core) ==
  \E lines \in IF binary = None THEN {0} ELSE LineCuts :
    log' = [log EXCEPT ![Tag(v, q)][sim] = LogFile("this", binary, core, lines)]

Whisper ==
  /\ pc = "whisper"
  /\ Simulate("whisper", "whisper")
  /\ pc' = "gem5"
  /\ UNCHANGED <<v, q, binary, m5out, results, summary>>

Gem5 ==
  /\ pc = "gem5"
  /\ Simulate("gem5", Configs[v].core)
  /\ m5out' = m5out \cup {Tag(v, q)}
  /\ pc' = "parse"
  /\ UNCHANGED <<v, q, binary, results, summary>>

-----------------------------------------------------------------------------
\* The n-th counter line of a log.
Name(n) == Block[((n - 1) % 5) + 1]
Line(f, sim, n) ==
  [name  |-> Name(n),
   value |-> [run |-> f.run, flags |-> f.flags, core |-> f.core, sim |-> sim,
              kernel |-> Kernels[((n - 1) \div 5) + 1]]]

\* log_parse: from whisper the hpm lines, from gem5 the counter lines, each at
\* its number in the log.
Selected(sim) ==
  IF sim = "whisper" THEN {"Vector", "VectorLoad", "VectorStore"} ELSE {"mcycle", "minstret"}

log_parse(f, sim) ==
  [n \in {m \in 1 .. f.lines : Name(m) \in Selected(sim)} |-> Line(f, sim, n)]

\* Those of S that come before n.
Before(S, n) == {m \in S : m < n}

\* Mutant: the bound is one too low.
get_short(lst, name, occurrence) ==
  LET matches == {n \in DOMAIN lst : lst[n].name = name}
  IN  IF occurrence + 1 < Cardinality(matches)
      THEN lst[CHOOSE n \in matches : Cardinality(Before(matches, n)) = occurrence].value
      ELSE None

\* get(lst, name, occurrence)
get(lst, name, occurrence) ==
  LET matches == {n \in DOMAIN lst : lst[n].name = name}
  IN  IF occurrence < Cardinality(matches)
      THEN lst[CHOOSE n \in matches : Cardinality(Before(matches, n)) = occurrence].value
      ELSE None

\* The row of a point; a derived figure is the set of the measurements it is
\* made of.
Row(u, p) ==
  LET Field(sim, name) ==
        get(log_parse(log[Tag(u, p)][sim], sim), name, KERNEL_OCCURRENCE[Configs[u].kernel])
      mcycle    == Field("gem5", "mcycle")
      minstret  == Field("gem5", "minstret")
      vec_load  == Field("whisper", "VectorLoad")
      vec_store == Field("whisper", "VectorStore")
  IN  [point |-> <<u, p>>, mcycle |-> mcycle, minstret |-> minstret,
       VecLoad |-> vec_load, VecStore |-> vec_store,
       bytes_Q |-> {vec_load, vec_store} \ {None},
       cyc_load |-> IF vec_load = None THEN {} ELSE {mcycle, vec_load}]

\* for variant in VARIANTS: for w in widths: for il in interleave
Advance ==
  LET later == {u \in VARIANTS : u > v}
  IN  IF q < Len(Configs[v].points)
      THEN v' = v /\ q' = q + 1 /\ pc' = "build"
      ELSE IF later # {}
           THEN v' = First(later) /\ q' = 1 /\ pc' = "build"
           ELSE v' = v /\ q' = q /\ pc' = "summary"

\* Mutant: a point without cycles gets no row.
ParseSkips ==
  /\ pc = "parse"
  /\ ~(Row(v, q).VecLoad # None /\ Row(v, q).mcycle = None)
  /\ results' = IF Row(v, q).mcycle = None THEN results ELSE Append(results, Row(v, q))
  /\ Advance
  /\ UNCHANGED <<binary, log, m5out, summary>>

\* run_one's row is appended and the loops go on to the next point.
Parse ==
  /\ pc = "parse"
  /\ ~(Row(v, q).VecLoad # None /\ Row(v, q).mcycle = None)
  /\ results' = Append(results, Row(v, q))
  /\ Advance
  /\ UNCHANGED <<binary, log, m5out, summary>>

\* mcycle / vec_load raises a TypeError when gem5 printed no mcycle for the
\* kernel and whisper did print its loads; nothing catches it.
ParseRaises ==
  /\ pc = "parse"
  /\ Row(v, q).VecLoad # None /\ Row(v, q).mcycle = None
  /\ pc' = "crashed"
  /\ UNCHANGED <<v, q, binary, log, m5out, results, summary>>

Summarize ==
  /\ pc = "summary"
  /\ summary' = results
  /\ pc' = "done"
  /\ UNCHANGED <<v, q, binary, log, m5out, results>>

\* sweep.py clean: the logs of sweep_tags(), the summary, every m5out.
Clean ==
  /\ pc = "clean"
  /\ log' = [t \in Tags |-> IF t \in TagsOf(VARIANTS) THEN NoLogs[t] ELSE log[t]]
  /\ summary' = None
  /\ m5out' = {}
  /\ pc' = "cleaned"
  /\ UNCHANGED <<v, q, binary, results>>

Next == Build \/ Whisper \/ Gem5 \/ Parse \/ ParseRaises \/ Summarize \/ Clean

\* Each external program is assumed to return: nothing here has a timeout.
Spec == Init /\ [][Next]_vars /\ WF_vars(Next)

-----------------------------------------------------------------------------
\* The measurements behind a row.
Measured(row) ==
  ({row.mcycle, row.minstret, row.VecLoad, row.VecStore} \cup row.bytes_Q \cup row.cyc_load) \ {None}

\* Whatever failed and whatever files lay around, no number in a row was
\* measured by an earlier sweep, on a binary built for another point, on the
\* wrong core or for the wrong kernel; event counts come from whisper and
\* cycles from gem5 (sweep.py:163-239, README.md notes, 1).
RowsFaithful ==
  \A x \in DOMAIN results :
    LET p == results[x].point IN
      \A e \in Measured(results[x]) :
        /\ e.run = "this"
        /\ e.flags = Flags(p[1], p[2])
        /\ e.kernel = Configs[p[1]].kernel
        /\ e.core = IF e \in {results[x].mcycle, results[x].minstret}
                    THEN Configs[p[1]].core ELSE "whisper"

\* N/A is honest: a column is empty only if the log of that point ended
\* before the line of the variant's kernel (sweep.py:157-161, 213-216).
NAOnlyIfMissing ==
  \A x \in DOMAIN results :
    LET row  == results[x]
        logs == log[Tag(row.point[1], row.point[2])]
        before == 5 * KERNEL_OCCURRENCE[Configs[row.point[1]].kernel]
    IN  /\ row.mcycle   = None <=> logs["gem5"].lines < before + 1
        /\ row.minstret = None <=> logs["gem5"].lines < before + 2
        /\ row.VecLoad  = None <=> logs["whisper"].lines < before + 4
        /\ row.VecStore = None <=> logs["whisper"].lines < before + 5

\* The order of the loops.
Precedes(a, c) == a[1] < c[1] \/ (a[1] = c[1] /\ a[2] < c[2])

\* Rows of exactly these points, each once, in the order of the loops.
RowsOf(rows, S) ==
  /\ {rows[x].point : x \in DOMAIN rows} = S
  /\ \A x, y \in DOMAIN rows : x < y => Precedes(rows[x].point, rows[y].point)

\* The summary of a sweep that reaches its end has a row for every point of
\* every enabled variant, in order, whatever failed on the way
\* (sweep.py:246-255).
SummaryComplete == pc = "done" => summary = results /\ RowsOf(summary, Points)

\* A log of this sweep's point a, on this core, written by a binary of that
\* point; without a binary it is empty.
LogOf(a, sim, core) ==
  \E b \in {None, Flags(a[1], a[2])}, n \in 0 .. 15 :
    /\ b = None => n = 0
    /\ log[Tag(a[1], a[2])][sim] = LogFile("this", b, core, n)

\* Where the point at work is.
PointInv ==
  /\ pc \in {"build", "whisper", "gem5", "parse", "summary", "clean", "done", "cleaned", "crashed"}
  /\ <<v, q>> \in Points
  /\ pc \in {"whisper", "gem5", "parse"} => binary \in {None, Flags(v, q)}
  /\ DOMAIN log = Tags /\ \A t \in Tags : DOMAIN log[t] = Simulators
  /\ pc \in {"gem5", "parse"} => LogOf(<<v, q>>, "whisper", "whisper")
  /\ pc = "parse" => LogOf(<<v, q>>, "gem5", Configs[v].core)
  /\ pc \in {"clean", "cleaned"} => results = <<>>
  /\ pc = "done" => summary = results

\* The points whose rows are there.
Covered == IF pc \in {"summary", "done"} THEN Points ELSE {a \in Points : Precedes(a, <<v, q>>)}

\* Each of those rows is still what the logs of its point say.
RowsInv ==
  /\ results \in Seq(Range(results))
  /\ RowsOf(results, Covered)
  /\ \A x \in DOMAIN results :
       LET a == results[x].point IN
       /\ results[x] = Row(a[1], a[2])
       /\ LogOf(a, "whisper", "whisper") /\ LogOf(a, "gem5", Configs[a[1]].core)

\* The inductive invariant.
IndInv == PointInv /\ RowsInv

\* "All sweep logs, m5out dirs, and the printed summary table are written
\* under test/output/" (sweep.py:39): a sweep ends with its summary written.
SummaryWritten == pc = "build" ~> pc = "done"
=============================================================================
