------------------------------- MODULE Harness -------------------------------
(***************************************************************************)
(* test/harness.py with script/python_riscv_sim.py and                     *)
(* script/python_log_parser.py, over the tree they share: the binaries,    *)
(* logs, m5out directories and output files under test/.  A sitting at the *)
(* shell is a sequence of sessions: a run of the harness with some of its  *)
(* toggles off, its clean, or the wrapper called by hand.  make may fail   *)
(* and a simulator may stop after any line; nobody looks at their exit     *)
(* codes.  A number is represented by where it was measured.               *)
(***************************************************************************)
EXTENDS Integers, Sequences

CONSTANTS BENCHES,    \* a sequence of [name, enabled]
          Toggles,    \* settings of whisper_test, gem5_test, gem5_o3_test, log_parse
          Commands,   \* argument lists of python_riscv_sim.py
          Kinds,      \* the lines a full run prints: "counter" or "hpm" each
          Cuts,       \* after how many of them a simulator may stop
          Sessions,   \* bound: sessions of a sitting
          None        \* an absent file

Names == {BENCHES[x].name : x \in DOMAIN BENCHES}
Sims  == {"whisper", "gem5", "gem5-o3"}

\* What a log may come from: whisper, or a CPU model of gem5.
Cores == {"whisper", "timing", "minor", "o3"}

\* A log: the session that wrote it, the core and the binary that ran, and how
\* many lines it got to print.
LogFile(s, core, built, lines) ==
  [session |-> s, core |-> core, built |-> built, lines |-> lines]
LogFiles == [session : Nat, core : Cores, built : Nat \cup {None}, lines : Nat]

ASSUME HarnessAssumption ==
  /\ DOMAIN BENCHES \subseteq Nat \ {0}
  /\ Toggles \subseteq [Sims \cup {"log_parse"} -> BOOLEAN]
  /\ Cuts \subseteq 0 .. Len(Kinds)
  /\ Sessions \in Nat
  /\ None \notin Nat /\ None \notin LogFiles

\* o3_paths(): the third log of a bench and its directory are named after the
\* MinorCPU ones.
Logs   == Names \X Sims
M5outs == Names \X {"gem5", "gem5-o3"}

VARIABLES pc,         \* "shell", "build", a simulator, a step of the parsing;
                      \* or "raised"
          session,    \* the number of the session
          toggle, b,  \* the toggles; the bench at work, or 0
          cwd,        \* where the harness was started: "root" or elsewhere
          binary,     \* the session in which each binary was built, or None
          log, m5out,
          parser,     \* the parser's result, a list for each kind of line
          output,     \* the sections of each bench's output file, if any
          cleaned     \* history: the session of the last clean, or 0

vars == <<pc, session, toggle, b, cwd, binary, log, m5out, parser, output, cleaned>>

Core(sim) ==
  CASE sim = "whisper" -> "whisper" [] sim = "gem5" -> "minor" [] sim = "gem5-o3" -> "o3"

Empty == [kind \in {"counter", "hpm"} |-> <<>>]

\* A clean tree, or one full of what was left long ago.
Init ==
  /\ pc = "shell" /\ session = 0 /\ cleaned = 0 /\ b = 0 /\ cwd = "root" /\ parser = Empty
  /\ toggle = [sim \in Sims \cup {"log_parse"} |-> TRUE]
  /\ \E used \in BOOLEAN :
       /\ binary = [n \in Names |-> IF used THEN 0 ELSE None]
       /\ log = [f \in Logs |-> IF used THEN LogFile(0, Core(f[2]), 0, Len(Kinds)) ELSE None]
       /\ m5out = IF used THEN M5outs ELSE {}
  /\ output = [n \in Names |-> <<>>]

-----------------------------------------------------------------------------
(* python_riscv_sim.py                                                     *)

\* parse_argv: what is not given gets a default, the log of the first bench
\* (test/gem5_run_log.txt) and, for gem5, the TimingSimpleCPU.
Default(argv, x, value) == IF Len(argv) >= x THEN argv[x] ELSE value

parse_argv(argv) ==
  [simulator |-> argv[1], test_pattern |-> argv[2],
   core    |-> Default(argv, 4, IF argv[1] = "gem5" THEN "timing" ELSE argv[1]),
   logfile |-> Default(argv, 5, <<BENCHES[1].name, argv[1]>>),
   mode    |-> Default(argv, 6, "")]

\* Too few arguments end the wrapper, an unknown simulator raises, and the
\* debugger mode runs nothing.
Runs(argv) ==
  Len(argv) >= 2 /\ argv[1] \in {"gem5", "whisper"} /\ parse_argv(argv).mode # "gdb"

\* The wrapper is given a bench's binary and one of the harness's logs.
ASSUME CommandsAssumption ==
  \A argv \in Commands : Runs(argv) =>
    LET sim == parse_argv(argv) IN
    sim.test_pattern \in Names /\ sim.core \in Cores /\ sim.logfile \in Logs

\* Mutant: tee -a, and a log that is there already is kept.
run_pattern_keeps(s, core, pattern, logfile) ==
  log' = [log EXCEPT ![logfile] = IF @ # None THEN @ ELSE LogFile(s, core, binary[pattern], 0)]

\* Mutant: a missing binary is noticed, and nothing is run.
run_pattern_checked(s, core, pattern, logfile) ==
  IF binary[pattern] = None THEN UNCHANGED log
  ELSE \E lines \in Cuts : log' = [log EXCEPT ![logfile] = LogFile(s, core, binary[pattern], lines)]

\* run_pattern: tee replaces the log whatever happens.  Without a binary no
\* line is printed; with one the simulator may stop early.
run_pattern(s, core, pattern, logfile) ==
  \E lines \in IF binary[pattern] = None THEN {0} ELSE Cuts :
    log' = [log EXCEPT ![logfile] = LogFile(s, core, binary[pattern], lines)]

\* The wrapper by hand; it leaves its m5out where the first bench has its own.
Standalone ==
  /\ pc \in {"shell", "raised"} /\ session < Sessions
  /\ session' = session + 1
  /\ \E argv \in Commands :
       IF Runs(argv)
       THEN LET sim == parse_argv(argv) IN
            /\ run_pattern(session', sim.core, sim.test_pattern, sim.logfile)
            /\ m5out' = m5out \cup (IF sim.simulator = "gem5" THEN {<<BENCHES[1].name, "gem5">>} ELSE {})
       ELSE UNCHANGED <<log, m5out>>
  /\ pc' = "shell"
  /\ UNCHANGED <<toggle, b, cwd, binary, parser, output, cleaned>>

\* Mutant: the old binary is left in place, and make has nothing to do.
build_bench_over(name) ==
  IF binary[name] # None THEN binary' = binary
  ELSE \E x \in IF cwd = "root" THEN {None, session} ELSE {None} :
         binary' = [binary EXCEPT ![name] = x]

\* build_bench: the old binary is removed; make, in the directory the harness
\* was started from, compiles or fails.
build_bench(name) ==
  \E x \in IF cwd = "root" THEN {None, session} ELSE {None} :
    binary' = [binary EXCEPT ![name] = x]

-----------------------------------------------------------------------------
(* python_log_parser.py                                                    *)

KindOf(sim) == IF sim = "whisper" THEN "hpm" ELSE "counter"

\* The lines of a log the parser looks for.
Matches(f, sim) == [file |-> f, lines |-> {x \in 1 .. f.lines : Kinds[x] = KindOf(sim)}]

\* log_parse adds to the parser's list of that kind, never replaces it; the
\* list is kept log by log.
log_parse(result, f, sim) == [result EXCEPT ![KindOf(sim)] = Append(@, Matches(f, sim))]

\* dump_result writes the whole list as a section, over the file or after it.
dump_result(name, sim, result, mode) ==
  output' = [output EXCEPT ![name] = Append(IF mode = "a" THEN @ ELSE <<>>,
                                            [sim |-> sim, items |-> result[KindOf(sim)]])]

-----------------------------------------------------------------------------
(* harness.py                                                              *)

Enabled == {x \in DOMAIN BENCHES : BENCHES[x].enabled}
First(S) == CHOOSE x \in S : \A y \in S : x <= y
Bench == BENCHES[b].name

Start ==
  /\ pc \in {"shell", "raised"} /\ session < Sessions
  /\ session' = session + 1
  /\ toggle' \in Toggles /\ cwd' \in {"root", "test"}
  /\ b' = 0 /\ pc' = "start"
  /\ UNCHANGED <<binary, log, m5out, parser, output, cleaned>>

Build ==
  /\ pc = "build"
  /\ build_bench(Bench)
  /\ pc' = "whisper"
  /\ UNCHANGED <<session, toggle, b, cwd, log, m5out, parser, output, cleaned>>

\* What follows a step for the bench at work.
Follows(step) ==
  CASE step = "whisper" -> "gem5" [] step = "gem5" -> "gem5-o3"
    [] step = "gem5-o3" -> IF toggle["log_parse"] THEN "parse whisper" ELSE "next"
    [] step = "parse whisper" -> "parse gem5" [] step = "parse gem5" -> "parse gem5-o3"
    [] step = "parse gem5-o3" -> "next"

\* A simulation, unless it is toggled off; gem5 gets a fresh m5out.
Simulate(sim) ==
  /\ pc = sim
  /\ IF toggle[sim]
     THEN /\ run_pattern(session, Core(sim), Bench, <<Bench, sim>>)
          /\ m5out' = m5out \cup ({<<Bench, sim>>} \cap M5outs)
     ELSE UNCHANGED <<log, m5out>>
  /\ pc' = Follows(sim)
  /\ UNCHANGED <<session, toggle, b, cwd, binary, parser, output, cleaned>>

\* Mutant: one parser for all three logs.
FreshOnce(sim) == IF sim = "whisper" THEN Empty ELSE parser

\* A new parser for whisper and MinorCPU, and one for O3.
Parser(sim) == IF sim = "gem5" THEN parser ELSE Empty

\* A log is parsed and its section written; without the log open() raises.
Parse(sim, step) ==
  /\ pc = step
  /\ IF log[<<Bench, sim>>] = None
     THEN pc' = "raised" /\ UNCHANGED <<parser, output, cleaned>>
     ELSE /\ parser' = log_parse(Parser(sim), log[<<Bench, sim>>], sim)
          /\ dump_result(Bench, sim, parser', IF sim = "whisper" THEN "w" ELSE "a")
          /\ pc' = Follows(step)
  /\ UNCHANGED <<session, toggle, b, cwd, binary, log, m5out, cleaned>>

\* for bench in BENCHES if enabled
NextBench ==
  /\ pc \in {"start", "next"}
  /\ LET later == {x \in Enabled : x > b} IN
       IF later = {} THEN pc' = "shell" /\ b' = b ELSE pc' = "build" /\ b' = First(later)
  /\ UNCHANGED <<session, toggle, cwd, binary, log, m5out, parser, output, cleaned>>

\* Mutant: clean looks at the enabled benches only.
Cleaned_enabled == {BENCHES[x].name : x \in Enabled}

\* clean(): the logs and outputs of every bench and all the m5outs.
Cleaned == Names

Clean ==
  /\ pc \in {"shell", "raised"} /\ session < Sessions
  /\ session' = session + 1 /\ cleaned' = session' /\ pc' = "shell"
  /\ log' = [f \in Logs |-> IF f[1] \in Cleaned THEN None ELSE log[f]]
  /\ output' = [n \in Names |-> IF n \in Cleaned THEN <<>> ELSE output[n]]
  /\ m5out' = {d \in M5outs : d \in m5out /\ d[2] = "gem5-o3" /\ d[1] \notin Cleaned}
  /\ UNCHANGED <<toggle, b, cwd, binary, parser>>

Next ==
  \/ Standalone \/ Start \/ Build
  \/ Simulate("whisper") \/ Simulate("gem5") \/ Simulate("gem5-o3")
  \/ Parse("whisper", "parse whisper") \/ Parse("gem5", "parse gem5")
  \/ Parse("gem5-o3", "parse gem5-o3")
  \/ NextBench \/ Clean

Spec == Init /\ [][Next]_vars

-----------------------------------------------------------------------------
(* Properties                                                              *)

\* The bench at work has just been parsed.
Parsed == pc = "next" /\ toggle["log_parse"]

\* Whatever lies in the tree, a section of a simulator that is toggled on has
\* only numbers of this session, measured on that section's core with the
\* binary built in this session (harness.py:105-162, tee in
\* python_riscv_sim.py:72): a failed build or a simulator that stops early
\* leaves the section short, never old.
Fresh ==
  Parsed =>
    \A x \in DOMAIN output[Bench] : LET section == output[Bench][x] IN
      toggle[section.sim] =>
        \A y \in DOMAIN section.items : LET item == section.items[y] IN
          item.lines # {} =>
            item.file.session = session /\ item.file.built = session
              /\ item.file.core = Core(section.sim)

\* What a section of the bench at work should hold: its own log.
Section(sim) == [sim |-> sim, items |-> <<Matches(log[<<Bench, sim>>], sim)>>]

\* The output file has the sections of whisper, MinorCPU and O3, in this order
\* and no other, each with every line of its own log and of no other log: the
\* comment on the second parser (harness.py:156-159).
SectionsComplete ==
  Parsed => output[Bench] = <<Section("whisper"), Section("gem5"), Section("gem5-o3")>>

\* Parsing dies of a missing log only if its simulator is toggled off: failed
\* builds and early stops never end the session (check=False,
\* python_riscv_sim.py:68 and 108).
RaisesOnlyIfDisabled ==
  pc = "raised" => \E sim \in Sims : ~toggle[sim] /\ log[<<Bench, sim>>] = None

\* After a clean no log and no number in an output file is older than it, of a
\* disabled bench either, until the end of the sitting (harness.py:77-99).
NothingOlderThanClean ==
  cleaned > 0 =>
    /\ \A f \in Logs : log[f] # None => log[f].session > cleaned
    /\ \A n \in Names : \A x \in DOMAIN output[n] : \A y \in DOMAIN output[n][x].items :
         output[n][x].items[y].file.session > cleaned

-----------------------------------------------------------------------------
(* The inductive invariant.                                                *)

Parsing == {"parse whisper", "parse gem5", "parse gem5-o3"}
Busy    == {"start", "build", "next"} \cup Sims \cup Parsing
AtBench == (Busy \ {"start"}) \cup {"raised"}

TypeOK ==
  /\ pc \in Busy \cup {"shell", "raised"}
  /\ session \in Nat /\ cleaned \in 0 .. session
  /\ b \in Nat /\ (pc \in AtBench => b \in DOMAIN BENCHES)
  /\ toggle \in [Sims \cup {"log_parse"} -> BOOLEAN]
  /\ DOMAIN parser = {"counter", "hpm"} /\ DOMAIN output = Names
  /\ binary \in [Names -> Nat \cup {None}]
  /\ log \in [Logs -> LogFiles \cup {None}]

\* A session that runs the simulator sim for the bench leaves a log of its own,
\* and if that has any line, the binary that printed it is this session's.
LogOfSession(sim) ==
  LET f == log[<<Bench, sim>>] IN
  toggle[sim] => /\ f # None /\ f.session = session /\ f.core = Core(sim)
                 /\ f.lines > 0 => f.built = session

\* The bench at work, step by step.
BenchInv ==
  /\ pc \in Sims => binary[Bench] \in {None, session}
  /\ pc \in {"gem5", "gem5-o3", "next"} \cup Parsing => LogOfSession("whisper")
  /\ pc \in {"gem5-o3", "next"} \cup Parsing => LogOfSession("gem5")
  /\ pc \in {"next"} \cup Parsing => LogOfSession("gem5-o3")
  /\ pc = "parse gem5" => parser["counter"] = <<>> /\ output[Bench] = <<Section("whisper")>>
  /\ pc = "parse gem5-o3" => output[Bench] = <<Section("whisper"), Section("gem5")>>

IndInv ==
  /\ TypeOK /\ BenchInv
  /\ SectionsComplete /\ RaisesOnlyIfDisabled /\ NothingOlderThanClean
  /\ cleaned > 0 /\ pc \in Busy => session > cleaned
=============================================================================
