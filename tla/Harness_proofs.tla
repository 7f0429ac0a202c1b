---------------------------- MODULE Harness_proofs ----------------------------
(***************************************************************************)
(* What the harness's output files show, for every list of benches, every  *)
(* set of toggles and commands, every log and any number of sessions.      *)
(***************************************************************************)
EXTENDS Harness, SequenceTheorems, WellFoundedInduction, TLAPS

-----------------------------------------------------------------------------
(* The operators.                                                          *)

LEMMA FirstIn ==
  ASSUME NEW S \in SUBSET Nat, S # {}
  PROVE  First(S) \in S
<1> DEFINE R == {ss \in Nat \X Nat : ss[1] < ss[2]}
<1>1. IsWellFoundedOn(R, Nat)
  BY NatLessThanWellFounded DEF OpToRel
<1>2. PICK x \in S : \A y \in S : ~ (<<y, x>> \in R)
  <2> HIDE DEF R
  <2> QED BY <1>1, WFMin
<1>3. ASSUME NEW y \in S PROVE x <= y
  <2>1. x \in Nat /\ y \in Nat /\ ~ (y < x)
    BY <1>2
  <2> QED BY <2>1
<1> QED BY <1>3 DEF First

\* Short sequences, appended to.
LEMMA AppendShort ==
  ASSUME NEW x, NEW y, NEW z
  PROVE  /\ Append(<<>>, x) = <<x>>
         /\ Append(<<x>>, y) = <<x, y>>
         /\ Append(<<x, y>>, z) = <<x, y, z>>
<1>1. Append(<<>>, x) = <<x>>
  OBVIOUS
<1>2. Append(<<x>>, y) = <<x, y>>
  <2>1. PICK s : s = Append(<<x>>, y)
    OBVIOUS
  <2>2. s \in Seq({x, y}) /\ Len(s) = 2 /\ s[1] = x /\ s[2] = y
    BY <2>1, AppendProperties
  <2>3. PICK t : t = <<x, y>>
    OBVIOUS
  <2>4. t \in Seq({x, y}) /\ Len(t) = 2 /\ t[1] = x /\ t[2] = y
    BY <2>3
  <2>5. \A i \in 1 .. Len(s) : s[i] = t[i]
    BY <2>2, <2>4
  <2>6. s = t
    BY <2>2, <2>4, <2>5, SeqEqual
  <2> QED BY <2>1, <2>3, <2>6
<1>3. Append(<<x, y>>, z) = <<x, y, z>>
  <2>1. PICK s : s = Append(<<x, y>>, z)
    OBVIOUS
  <2>2. s \in Seq({x, y, z}) /\ Len(s) = 3 /\ s[1] = x /\ s[2] = y /\ s[3] = z
    BY <2>1, AppendProperties
  <2>3. PICK t : t = <<x, y, z>>
    OBVIOUS
  <2>4. t \in Seq({x, y, z}) /\ Len(t) = 3 /\ t[1] = x /\ t[2] = y /\ t[3] = z
    BY <2>3
  <2>5. \A i \in 1 .. Len(s) : s[i] = t[i]
    BY <2>2, <2>4
  <2>6. s = t
    BY <2>2, <2>4, <2>5, SeqEqual
  <2> QED BY <2>1, <2>3, <2>6
<1> QED BY <1>1, <1>2, <1>3

\* ... and the elements of one.
LEMMA OneIn ==
  ASSUME NEW S, NEW s, NEW x, s = <<x>>
  PROVE  (\A i \in DOMAIN s : s[i] \in S) <=> x \in S
<1>1. (\A i \in DOMAIN <<x>> : <<x>>[i] \in S) <=> x \in S
  OBVIOUS
<1> QED BY <1>1, Zenon

LEMMA TwoIn ==
  ASSUME NEW S, NEW s, NEW x, NEW y, s = <<x, y>>
  PROVE  (\A i \in DOMAIN s : s[i] \in S) <=> x \in S /\ y \in S
<1>1. (\A i \in DOMAIN <<x, y>> : <<x, y>>[i] \in S) <=> x \in S /\ y \in S
  OBVIOUS
<1> QED BY <1>1, Zenon

LEMMA ThreeIn ==
  ASSUME NEW S, NEW s, NEW x, NEW y, NEW z, s = <<x, y, z>>
  PROVE  (\A i \in DOMAIN s : s[i] \in S) <=> x \in S /\ y \in S /\ z \in S
<1>1. (\A i \in DOMAIN <<x, y, z>> : <<x, y, z>>[i] \in S) <=> x \in S /\ y \in S /\ z \in S
  OBVIOUS
<1> QED BY <1>1, Zenon

LEMMA FollowsFacts ==
  /\ Follows("whisper") = "gem5" /\ Follows("gem5") = "gem5-o3"
  /\ Follows("gem5-o3") = IF toggle["log_parse"] THEN "parse whisper" ELSE "next"
  /\ Follows("parse whisper") = "parse gem5" /\ Follows("parse gem5") = "parse gem5-o3"
  /\ Follows("parse gem5-o3") = "next"
BY DEF Follows

LEMMA CoreType ==
  ASSUME NEW sim \in Sims
  PROVE  Core(sim) \in Cores
BY DEF Core, Sims, Cores

LEMMA LogFileFacts ==
  ASSUME NEW f \in LogFiles
  PROVE  /\ f # None /\ f.session \in Nat /\ f.lines \in Nat /\ f.core \in Cores
         /\ f.built \in Nat \cup {None}
BY HarnessAssumption DEF LogFiles

\* tee replaces one log, by one that without a binary has no line.
LEMMA RunPattern ==
  ASSUME TypeOK, NEW s \in Nat, NEW core \in Cores, NEW pattern \in Names,
         NEW logfile \in Logs, run_pattern(s, core, pattern, logfile)
  PROVE  /\ log' \in [Logs -> LogFiles \cup {None}] /\ log'[logfile] # None
         /\ log'[logfile].session = s /\ log'[logfile].core = core
         /\ log'[logfile].built = binary[pattern]
         /\ log'[logfile].lines \in Nat
         /\ log'[logfile].lines > 0 => binary[pattern] # None
         /\ \A f \in Logs : f # logfile => log'[f] = log[f]
<1>1. PICK lines \in IF binary[pattern] = None THEN {0} ELSE Cuts :
        log' = [log EXCEPT ![logfile] = LogFile(s, core, binary[pattern], lines)]
  BY DEF run_pattern
<1> DEFINE g == LogFile(s, core, binary[pattern], lines)
<1>2. lines \in Nat /\ (lines > 0 => binary[pattern] # None)
  BY <1>1, HarnessAssumption
<1>3. binary[pattern] \in Nat \cup {None} /\ log \in [Logs -> LogFiles \cup {None}]
  BY DEF TypeOK
<1>4. /\ g \in LogFiles /\ g.session = s /\ g.core = core /\ g.built = binary[pattern]
      /\ g.lines = lines
  BY <1>2, <1>3 DEF LogFile, LogFiles
<1>5. g # None
  BY <1>4, LogFileFacts
<1> HIDE DEF g
<1>6. log' = [log EXCEPT ![logfile] = g]
  BY <1>1 DEF g
<1>7. log'[logfile] = g /\ \A f \in Logs : f # logfile => log'[f] = log[f]
  BY <1>3, <1>6
<1>8. log' \in [Logs -> LogFiles \cup {None}]
  BY <1>3, <1>4, <1>6
<1> QED BY <1>2, <1>4, <1>5, <1>7, <1>8

\* The bench at work has a name.
LEMMA BenchName ==
  ASSUME TypeOK, pc \in AtBench
  PROVE  Bench \in Names /\ \A sim \in Sims : <<Bench, sim>> \in Logs
BY DEF TypeOK, Bench, Names, Logs

\* A clean never meets a session at work.
LEMMA SessionBounds ==
  ASSUME IndInv
  PROVE  session \in Nat /\ cleaned \in Nat /\ cleaned <= session /\ session + 1 > cleaned
BY DEF IndInv, TypeOK

-----------------------------------------------------------------------------
(* The steps.                                                              *)

LEMMA InitInv == Init => IndInv
<1> SUFFICES ASSUME Init PROVE IndInv
  OBVIOUS
<1>1. /\ pc = "shell" /\ session = 0 /\ cleaned = 0 /\ b = 0 /\ parser = Empty
      /\ toggle = [sim \in Sims \cup {"log_parse"} |-> TRUE]
      /\ output = [n \in Names |-> <<>>]
  BY DEF Init
<1>2. PICK used \in BOOLEAN :
        /\ binary = [n \in Names |-> IF used THEN 0 ELSE None]
        /\ log = [f \in Logs |-> IF used THEN LogFile(0, Core(f[2]), 0, Len(Kinds)) ELSE None]
  BY DEF Init
<1>3. ASSUME NEW f \in Logs
      PROVE  LogFile(0, Core(f[2]), 0, Len(Kinds)) \in LogFiles
  <2>1. f[2] \in Sims
    BY DEF Logs
  <2>2. Core(f[2]) \in Cores
    BY <2>1, CoreType
  <2>3. Len(Kinds) \in Nat
    BY HarnessAssumption
  <2> QED BY <2>2, <2>3 DEF LogFile, LogFiles
<1>4. log \in [Logs -> LogFiles \cup {None}]
  BY <1>2, <1>3
<1>5. TypeOK
  BY <1>1, <1>2, <1>4 DEF TypeOK, Empty, AtBench, Busy, Sims, Parsing
<1>6. BenchInv
  BY <1>1 DEF BenchInv, Sims, Parsing
<1>7. SectionsComplete /\ RaisesOnlyIfDisabled /\ NothingOlderThanClean
  BY <1>1 DEF SectionsComplete, Parsed, RaisesOnlyIfDisabled, NothingOlderThanClean
<1> QED BY <1>1, <1>5, <1>6, <1>7 DEF IndInv

\* A step to the shell: no bench is at work.
LEMMA ToShell ==
  ASSUME TypeOK', pc' \in {"shell", "start", "build"}, NothingOlderThanClean',
         cleaned' > 0 /\ pc' \in Busy => session' > cleaned'
  PROVE  IndInv'
<1>1. BenchInv'
  BY DEF BenchInv, Sims, Parsing
<1>2. SectionsComplete' /\ RaisesOnlyIfDisabled'
  BY DEF SectionsComplete, Parsed, RaisesOnlyIfDisabled
<1> QED BY <1>1, <1>2 DEF IndInv

LEMMA StandaloneStep == IndInv /\ Standalone => IndInv'
<1> SUFFICES ASSUME IndInv, Standalone PROVE IndInv'
  OBVIOUS
<1>1. /\ session' = session + 1 /\ pc' = "shell"
      /\ UNCHANGED <<toggle, b, cwd, binary, parser, output, cleaned>>
  BY DEF Standalone
<1>2. /\ log' \in [Logs -> LogFiles \cup {None}]
      /\ \A f \in Logs : log'[f] # None => log'[f] = log[f] \/ log'[f].session = session'
  <2>1. PICK argv \in Commands :
          IF Runs(argv)
          THEN run_pattern(session', parse_argv(argv).core, parse_argv(argv).test_pattern,
                           parse_argv(argv).logfile)
          ELSE UNCHANGED log
    BY DEF Standalone
  <2>2. CASE Runs(argv)
    <3>0. PICK sim : sim = parse_argv(argv)
      OBVIOUS
    <3>1. sim.test_pattern \in Names /\ sim.core \in Cores /\ sim.logfile \in Logs
      BY <2>2, <3>0, CommandsAssumption
    <3>2. PICK s \in Nat : s = session' /\ run_pattern(s, sim.core, sim.test_pattern, sim.logfile)
      BY <1>1, <2>1, <2>2, <3>0, SessionBounds
    <3>3. TypeOK
      BY DEF IndInv
    <3>4. /\ log' \in [Logs -> LogFiles \cup {None}]
          /\ log'[sim.logfile].session = s
          /\ \A f \in Logs : f # sim.logfile => log'[f] = log[f]
      BY <3>1, <3>2, <3>3, RunPattern
    <3> QED BY <3>2, <3>4
  <2>3. CASE ~Runs(argv)
    BY <2>1, <2>3 DEF IndInv, TypeOK
  <2> QED BY <2>2, <2>3
<1>3. TypeOK'
  <2>1. pc' \in Busy \cup {"shell", "raised"} /\ pc' \notin AtBench
    BY <1>1 DEF AtBench, Busy, Sims, Parsing
  <2>2. session' \in Nat /\ cleaned' \in 0 .. session'
    BY <1>1, SessionBounds
  <2> QED BY <1>1, <1>2, <2>1, <2>2 DEF IndInv, TypeOK
<1>4. NothingOlderThanClean'
  <2>1. session' > cleaned
    BY <1>1, SessionBounds
  <2> QED BY <1>1, <1>2, <2>1 DEF IndInv, NothingOlderThanClean
<1> QED BY <1>1, <1>3, <1>4, ToShell DEF Busy, Sims, Parsing

LEMMA StartStep == IndInv /\ Start => IndInv'
<1> SUFFICES ASSUME IndInv, Start PROVE IndInv'
  OBVIOUS
<1>1. /\ session' = session + 1 /\ toggle' \in Toggles /\ b' = 0 /\ pc' = "start"
      /\ UNCHANGED <<binary, log, m5out, parser, output, cleaned>>
  BY DEF Start
<1>2. TypeOK'
  <2>1. toggle' \in [Sims \cup {"log_parse"} -> BOOLEAN]
    BY <1>1, HarnessAssumption
  <2>2. pc' \in Busy \cup {"shell", "raised"} /\ pc' \notin AtBench
    BY <1>1 DEF AtBench, Busy, Sims, Parsing
  <2>3. session' \in Nat /\ cleaned' \in 0 .. session'
    BY <1>1, SessionBounds
  <2> QED BY <1>1, <2>1, <2>2, <2>3 DEF IndInv, TypeOK
<1>3. NothingOlderThanClean'
  BY <1>1 DEF IndInv, NothingOlderThanClean
<1>4. session' > cleaned'
  BY <1>1, SessionBounds
<1> QED BY <1>1, <1>2, <1>3, <1>4, ToShell

LEMMA CleanStep == IndInv /\ Clean => IndInv'
<1> SUFFICES ASSUME IndInv, Clean PROVE IndInv'
  OBVIOUS
<1>1. /\ session' = session + 1 /\ cleaned' = session' /\ pc' = "shell"
      /\ UNCHANGED <<toggle, b, cwd, binary, parser>>
  BY DEF Clean
<1>2. log' = [f \in Logs |-> None] /\ output' = [n \in Names |-> <<>>]
  <2>1. \A f \in Logs : f[1] \in Names
    BY DEF Logs
  <2> QED BY <2>1 DEF Clean, Cleaned
<1>3. TypeOK'
  <2>1. pc' \in Busy \cup {"shell", "raised"} /\ pc' \notin AtBench
    BY <1>1 DEF AtBench, Busy, Sims, Parsing
  <2>2. session' \in Nat /\ cleaned' \in 0 .. session'
    BY <1>1, SessionBounds
  <2> QED BY <1>1, <1>2, <2>1, <2>2 DEF IndInv, TypeOK
<1>4. NothingOlderThanClean'
  BY <1>2 DEF NothingOlderThanClean
<1> QED BY <1>1, <1>3, <1>4, ToShell DEF Busy, Sims, Parsing

LEMMA NextBenchStep == IndInv /\ NextBench => IndInv'
<1> SUFFICES ASSUME IndInv, NextBench PROVE IndInv'
  OBVIOUS
<1> DEFINE later == {x \in Enabled : x > b}
<1>1. /\ pc \in {"start", "next"}
      /\ UNCHANGED <<session, toggle, cwd, binary, log, m5out, parser, output, cleaned>>
      /\ IF later = {} THEN pc' = "shell" /\ b' = b ELSE pc' = "build" /\ b' = First(later)
  BY DEF NextBench
<1>2. \/ pc' = "shell" /\ b' = b
      \/ pc' = "build" /\ b' \in DOMAIN BENCHES
  <2>1. later \in SUBSET Nat /\ later \subseteq DOMAIN BENCHES
    BY HarnessAssumption DEF Enabled
  <2>2. later # {} => First(later) \in later
    BY <2>1, FirstIn
  <2> QED BY <1>1, <2>1, <2>2
<1>3. TypeOK'
  BY <1>1, <1>2, HarnessAssumption DEF IndInv, TypeOK, AtBench, Busy, Sims, Parsing
<1>4. NothingOlderThanClean'
  BY <1>1 DEF IndInv, NothingOlderThanClean
<1>5. cleaned' > 0 /\ pc' \in Busy => session' > cleaned'
  BY <1>1 DEF IndInv, Busy
<1> QED BY <1>2, <1>3, <1>4, <1>5, ToShell

LEMMA BuildStep == IndInv /\ Build => IndInv'
<1> SUFFICES ASSUME IndInv, Build PROVE IndInv'
  OBVIOUS
<1>1. /\ pc = "build" /\ pc' = "whisper"
      /\ UNCHANGED <<session, toggle, b, cwd, log, m5out, parser, output, cleaned>>
  BY DEF Build
<1>2. Bench \in Names /\ session \in Nat /\ Bench' = Bench
  BY <1>1, BenchName, SessionBounds DEF IndInv, AtBench, Busy, Bench
<1>3. binary' \in [Names -> Nat \cup {None}] /\ binary'[Bench] \in {None, session}
  <2>1. PICK x \in {None, session} : binary' = [binary EXCEPT ![Bench] = x]
    BY DEF Build, build_bench
  <2> QED BY <1>2, <2>1 DEF IndInv, TypeOK
<1>4. TypeOK'
  <2>1. pc \in AtBench /\ pc' \in Busy
    BY <1>1 DEF AtBench, Busy, Sims
  <2> QED BY <1>1, <1>3, <2>1 DEF IndInv, TypeOK
<1>5. BenchInv'
  BY <1>1, <1>2, <1>3 DEF BenchInv, Sims, Parsing
<1>6. SectionsComplete' /\ RaisesOnlyIfDisabled'
  BY <1>1 DEF SectionsComplete, Parsed, RaisesOnlyIfDisabled
<1>7. NothingOlderThanClean' /\ (cleaned' > 0 => session' > cleaned')
  BY <1>1 DEF IndInv, NothingOlderThanClean, Busy
<1> QED BY <1>4, <1>5, <1>6, <1>7 DEF IndInv

\* What a simulation leaves.
LEMMA Simulated ==
  ASSUME IndInv, NEW sim \in Sims, Simulate(sim)
  PROVE  /\ log' \in [Logs -> LogFiles \cup {None}]
         /\ LogOfSession(sim)'
         /\ \A s \in Sims : s # sim /\ LogOfSession(s) => LogOfSession(s)'
         /\ \A f \in Logs : log'[f] # None => log'[f] = log[f] \/ log'[f].session = session
<1>1. pc = sim /\ UNCHANGED <<session, toggle, b>>
  BY DEF Simulate
<1>2. /\ Bench \in Names /\ Bench' = Bench /\ session \in Nat
      /\ \A s \in Sims : <<Bench, s>> \in Logs
  BY <1>1, BenchName, SessionBounds DEF IndInv, AtBench, Busy, Bench, Sims
<1>3. CASE toggle[sim]
  <2>1. run_pattern(session, Core(sim), Bench, <<Bench, sim>>)
    BY <1>3 DEF Simulate
  <2>2. PICK g : g = <<Bench, sim>>
    OBVIOUS
  <2>3. /\ log' \in [Logs -> LogFiles \cup {None}] /\ log'[g] # None
        /\ log'[g].session = session /\ log'[g].core = Core(sim)
        /\ log'[g].built = binary[Bench]
        /\ log'[g].lines > 0 => binary[Bench] # None
        /\ \A f \in Logs : f # g => log'[f] = log[f]
    BY <1>2, <2>1, <2>2, RunPattern, CoreType DEF IndInv
  <2>4. binary[Bench] \in {None, session}
    BY <1>1 DEF IndInv, BenchInv
  <2>5. LogOfSession(sim)'
    BY <1>1, <1>2, <2>2, <2>3, <2>4 DEF LogOfSession
  <2>6. ASSUME NEW s \in Sims, s # sim, LogOfSession(s) PROVE LogOfSession(s)'
    <3>1. <<Bench, s>> # g /\ <<Bench, s>> \in Logs
      BY <1>2, <2>2, <2>6
    <3>2. log'[<<Bench, s>>] = log[<<Bench, s>>]
      BY <2>3, <3>1
    <3> QED BY <1>1, <1>2, <2>6, <3>2 DEF LogOfSession
  <2> QED BY <2>3, <2>5, <2>6
<1>4. CASE ~toggle[sim]
  <2>1. log' = log
    BY <1>4 DEF Simulate
  <2>2. LogOfSession(sim)'
    BY <1>1, <1>4 DEF LogOfSession
  <2>3. ASSUME NEW s \in Sims, LogOfSession(s) PROVE LogOfSession(s)'
    BY <1>1, <1>2, <2>1, <2>3 DEF LogOfSession
  <2> QED BY <2>1, <2>2, <2>3 DEF IndInv, TypeOK
<1> QED BY <1>3, <1>4

LEMMA SimulateStep ==
  ASSUME NEW sim \in Sims
  PROVE  IndInv /\ Simulate(sim) => IndInv'
<1> SUFFICES ASSUME IndInv, Simulate(sim) PROVE IndInv'
  OBVIOUS
<1>1. /\ pc = sim /\ pc' = Follows(sim)
      /\ UNCHANGED <<session, toggle, b, cwd, binary, parser, output, cleaned>>
  BY DEF Simulate
<1>2. /\ log' \in [Logs -> LogFiles \cup {None}]
      /\ LogOfSession(sim)'
      /\ \A s \in Sims : s # sim /\ LogOfSession(s) => LogOfSession(s)'
      /\ \A f \in Logs : log'[f] # None => log'[f] = log[f] \/ log'[f].session = session
  BY Simulated
<1>3. \/ sim = "whisper" /\ pc' = "gem5"
      \/ sim = "gem5" /\ pc' = "gem5-o3"
      \/ sim = "gem5-o3" /\ toggle["log_parse"] /\ pc' = "parse whisper"
      \/ sim = "gem5-o3" /\ ~toggle["log_parse"] /\ pc' = "next"
  BY <1>1, FollowsFacts DEF Sims
<1>4. TypeOK'
  <2>1. pc \in AtBench /\ pc' \in Busy
    BY <1>1, <1>3 DEF AtBench, Busy, Sims, Parsing
  <2> QED BY <1>1, <1>2, <2>1 DEF IndInv, TypeOK
<1>5. BenchInv'
  <2>1. binary'[Bench'] \in {None, session'}
    BY <1>1 DEF IndInv, BenchInv, Bench
  <2>2. /\ sim # "whisper" => LogOfSession("whisper")
        /\ sim = "gem5-o3" => LogOfSession("gem5")
    BY <1>1 DEF IndInv, BenchInv, Sims
  <2>3. /\ LogOfSession("whisper")'
        /\ sim # "whisper" => LogOfSession("gem5")'
        /\ sim = "gem5-o3" => LogOfSession("gem5-o3")'
    BY <1>2, <2>2 DEF Sims
  <2> QED BY <1>3, <2>1, <2>3 DEF BenchInv, Sims, Parsing
<1>6. SectionsComplete' /\ RaisesOnlyIfDisabled'
  BY <1>1, <1>3 DEF SectionsComplete, Parsed, RaisesOnlyIfDisabled
<1>7. cleaned > 0 => session > cleaned
  BY <1>1 DEF IndInv, Busy
<1>8. NothingOlderThanClean'
  BY <1>1, <1>2, <1>7 DEF IndInv, NothingOlderThanClean
<1> QED BY <1>1, <1>4, <1>5, <1>6, <1>7, <1>8 DEF IndInv

\* What a section reads does not change while logs are parsed.
LEMMA SectionKept ==
  ASSUME UNCHANGED <<b, log>>, NEW sim \in Sims
  PROVE  Section(sim)' = Section(sim) /\ Bench' = Bench
BY DEF Section, Bench

\* The list a log is added to is empty, and its section has this log only.
LEMMA OneLog ==
  ASSUME IndInv, NEW sim \in Sims, NEW step, Parse(sim, step), log[<<Bench, sim>>] # None,
         sim = "gem5" => pc = "parse gem5"
  PROVE  /\ pc' = Follows(step) /\ DOMAIN parser' = {"counter", "hpm"}
         /\ sim = "whisper" => parser'["counter"] = <<>>
         /\ output' = [output EXCEPT ![Bench] =
                         Append(IF sim = "whisper" THEN <<>> ELSE @, Section(sim))]
<1> DEFINE kind == KindOf(sim)
           batch == Matches(log[<<Bench, sim>>], sim)
<1>1. kind \in {"counter", "hpm"} /\ (sim = "whisper" => kind = "hpm")
      /\ (sim = "gem5" => kind = "counter")
  BY DEF KindOf, Sims
<1>2. /\ DOMAIN Parser(sim) = {"counter", "hpm"} /\ Parser(sim)[kind] = <<>>
      /\ sim = "whisper" => Parser(sim)["counter"] = <<>>
  BY <1>1 DEF Parser, Empty, IndInv, TypeOK, BenchInv
<1>3. Append(<<>>, batch) = <<batch>>
  BY AppendShort
<1>4. parser' = log_parse(Parser(sim), log[<<Bench, sim>>], sim)
  BY DEF Parse
<1>5. parser' = [Parser(sim) EXCEPT ![kind] = <<batch>>]
  BY <1>2, <1>3, <1>4 DEF log_parse
<1>6. parser'[kind] = <<batch>> /\ DOMAIN parser' = {"counter", "hpm"}
      /\ (sim = "whisper" => parser'["counter"] = <<>>)
  <2> HIDE DEF kind, batch
  <2> QED BY <1>1, <1>2, <1>5
<1>7. dump_result(Bench, sim, parser', IF sim = "whisper" THEN "w" ELSE "a")
      /\ pc' = Follows(step)
  BY DEF Parse
<1>8. output' = [output EXCEPT ![Bench] =
                   Append(IF sim = "whisper" THEN <<>> ELSE @, Section(sim))]
  <2>1. [sim |-> sim, items |-> parser'[kind]] = Section(sim)
    BY <1>6 DEF Section
  <2> QED BY <1>7, <2>1 DEF dump_result
<1> QED BY <1>6, <1>7, <1>8

\* The file of the bench, section by section.
LEMMA OutputGrows ==
  ASSUME IndInv, NEW sim \in Sims, NEW step, Parse(sim, step), log[<<Bench, sim>>] # None,
         pc \in Parsing,
         sim = "gem5" => pc = "parse gem5", sim = "gem5-o3" => pc = "parse gem5-o3"
  PROVE  LET new == output'[Bench] IN
         /\ output' = [output EXCEPT ![Bench] = new]
         /\ sim = "whisper" => new = <<Section("whisper")>>
         /\ sim = "gem5" => new = <<Section("whisper"), Section("gem5")>>
         /\ sim = "gem5-o3" => new = <<Section("whisper"), Section("gem5"), Section("gem5-o3")>>
<1>1. PICK old : old = IF sim = "whisper" THEN <<>> ELSE output[Bench]
  OBVIOUS
<1>2. output' = [output EXCEPT ![Bench] = Append(old, Section(sim))]
  BY <1>1, OneLog
<1>3. Bench \in Names /\ DOMAIN output = Names
  BY BenchName DEF IndInv, TypeOK, AtBench, Busy, Parsing
<1>4. output'[Bench] = Append(old, Section(sim))
  BY <1>2, <1>3
<1>5. PICK new : new = output'[Bench] /\ new = Append(old, Section(sim))
  BY <1>4
<1>6. output' = [output EXCEPT ![Bench] = new]
  BY <1>2, <1>5
<1>7. CASE sim = "whisper"
  BY <1>1, <1>5, <1>6, <1>7, AppendShort
<1>8. CASE sim = "gem5"
  <2>1. old = <<Section("whisper")>>
    BY <1>1, <1>8 DEF IndInv, BenchInv
  <2>2. new = <<Section("whisper"), Section("gem5")>>
    BY <1>5, <1>8, <2>1, AppendShort
  <2> QED BY <1>5, <1>6, <1>8, <2>2
<1>9. CASE sim = "gem5-o3"
  <2>1. old = <<Section("whisper"), Section("gem5")>>
    BY <1>1, <1>9 DEF IndInv, BenchInv
  <2>2. new = <<Section("whisper"), Section("gem5"), Section("gem5-o3")>>
    BY <1>5, <1>9, <2>1, AppendShort
  <2> QED BY <1>5, <1>6, <1>9, <2>2
<1> QED BY <1>7, <1>8, <1>9 DEF Sims

\* A section of a log younger than the clean has only such numbers.
LEMMA YoungSection ==
  ASSUME IndInv, NEW sim \in Sims, log[<<Bench, sim>>] # None, cleaned > 0, pc \in AtBench
  PROVE  \A y \in DOMAIN Section(sim).items : Section(sim).items[y].file.session > cleaned
<1>1. <<Bench, sim>> \in Logs
  BY BenchName DEF IndInv
<1>2. PICK g : g = log[<<Bench, sim>>]
  OBVIOUS
<1>3. g.session > cleaned
  BY <1>1, <1>2 DEF IndInv, NothingOlderThanClean
<1>4. Section(sim).items = <<Matches(g, sim)>> /\ Matches(g, sim).file = g
  BY <1>2 DEF Section, Matches
<1> QED BY <1>3, <1>4

\* A missing log ends the session, and its simulator was toggled off.
LEMMA ParseRaises ==
  ASSUME IndInv, NEW sim \in Sims, NEW step, Parse(sim, step), pc \in Parsing,
         log[<<Bench, sim>>] = None
  PROVE  IndInv'
<1>1. /\ pc' = "raised"
      /\ UNCHANGED <<session, toggle, b, cwd, binary, log, m5out, parser, output, cleaned>>
  BY DEF Parse
<1>2. LogOfSession(sim)
  BY DEF IndInv, BenchInv, Sims
<1>3. ~toggle[sim]
  BY <1>2 DEF LogOfSession
<1>4. RaisesOnlyIfDisabled'
  BY <1>1, <1>3 DEF RaisesOnlyIfDisabled, Bench
<1>5. TypeOK'
  <2>1. pc \in AtBench
    BY DEF AtBench, Busy, Parsing
  <2> QED BY <1>1, <2>1 DEF IndInv, TypeOK
<1>6. BenchInv' /\ SectionsComplete'
  BY <1>1 DEF BenchInv, SectionsComplete, Parsed, Sims, Parsing
<1>7. NothingOlderThanClean' /\ pc' \notin Busy
  BY <1>1 DEF IndInv, NothingOlderThanClean, Busy, Sims, Parsing
<1> QED BY <1>4, <1>5, <1>6, <1>7 DEF IndInv

\* What the bench's file has of logs that are there is younger than the clean.
LEMMA ParsedYoung ==
  ASSUME IndInv, NEW sim \in Sims, NEW step, Parse(sim, step), log[<<Bench, sim>>] # None,
         pc \in Parsing,
         sim = "gem5" => pc = "parse gem5", sim = "gem5-o3" => pc = "parse gem5-o3"
  PROVE  NothingOlderThanClean'
<1>1. UNCHANGED <<session, b, log, cleaned>>
  BY DEF Parse
<1>2. SUFFICES ASSUME cleaned > 0
               PROVE  \A n \in Names : \A x \in DOMAIN output'[n] :
                        \A y \in DOMAIN output'[n][x].items :
                          output'[n][x].items[y].file.session > cleaned
  BY <1>1 DEF IndInv, NothingOlderThanClean
<1>3. Bench \in Names /\ DOMAIN output = Names /\ pc \in AtBench
  BY BenchName DEF IndInv, TypeOK, AtBench, Busy, Parsing
<1>4. \A n \in Names : \A x \in DOMAIN output[n] : \A y \in DOMAIN output[n][x].items :
        output[n][x].items[y].file.session > cleaned
  BY <1>2 DEF IndInv, NothingOlderThanClean
<1>5. PICK new : new = output'[Bench]
  OBVIOUS
<1>6. /\ output' = [output EXCEPT ![Bench] = new]
      /\ sim = "whisper" => new = <<Section("whisper")>>
      /\ sim = "gem5" => new = <<Section("whisper"), Section("gem5")>>
      /\ sim = "gem5-o3" => new = <<Section("whisper"), Section("gem5"), Section("gem5-o3")>>
  BY <1>5, OutputGrows
<1> DEFINE Young(s) == \A y \in DOMAIN s.items : s.items[y].file.session > cleaned
<1>7. Young(Section(sim))
  BY <1>2, <1>3, YoungSection
<1>8. PICK old, w, g, o :
        /\ old = output[Bench] /\ w = Section("whisper") /\ g = Section("gem5")
        /\ o = Section("gem5-o3")
  OBVIOUS
<1> DEFINE S == {s \in {w, g, o} : Young(s)}
<1>9. /\ sim = "whisper" => new = <<w>> /\ w \in S
      /\ sim = "gem5" => new = <<w, g>> /\ g \in S /\ old = <<w>>
      /\ sim = "gem5-o3" => new = <<w, g, o>> /\ o \in S /\ old = <<w, g>>
  BY <1>6, <1>7, <1>8 DEF IndInv, BenchInv
<1>10. old \in {<<w>>, <<w, g>>} => \A x \in DOMAIN old : old[x] \in S
  <2>1. \A x \in DOMAIN old : Young(old[x])
    BY <1>3, <1>4, <1>8
  <2>2. PICK W : W = {w, g, o}
    OBVIOUS
  <2>3. old = <<w>> => \A x \in DOMAIN old : old[x] \in W
    BY <2>2, OneIn
  <2>4. old = <<w, g>> => \A x \in DOMAIN old : old[x] \in W
    BY <2>2, TwoIn
  <2> QED BY <2>1, <2>2, <2>3, <2>4
<1>11. \A x \in DOMAIN new : new[x] \in S
  <2> HIDE DEF S
  <2>1. CASE sim = "whisper"
    BY <1>9, <2>1, OneIn
  <2>2. CASE sim = "gem5"
    <3>1. w \in S
      BY <1>9, <1>10, <2>2, OneIn
    <3> QED BY <1>9, <2>2, <3>1, TwoIn
  <2>3. CASE sim = "gem5-o3"
    <3>1. w \in S /\ g \in S
      BY <1>9, <1>10, <2>3, TwoIn
    <3> QED BY <1>9, <2>3, <3>1, ThreeIn
  <2> QED BY <2>1, <2>2, <2>3 DEF Sims
<1>12. ASSUME NEW n \in Names, NEW x \in DOMAIN output'[n]
       PROVE  Young(output'[n][x])
  <2>1. CASE n = Bench
    <3>1. output'[n][x] \in S
      BY <1>5, <1>11, <1>12, <2>1
    <3> QED BY <3>1
  <2>2. CASE n # Bench
    <3>1. output'[n] = output[n]
      BY <1>3, <1>6, <2>2
    <3> QED BY <1>4, <1>12, <3>1
  <2> QED BY <2>1, <2>2
<1> QED BY <1>12

LEMMA ParseStep ==
  ASSUME NEW sim \in Sims, NEW step,
         \/ sim = "whisper" /\ step = "parse whisper"
         \/ sim = "gem5" /\ step = "parse gem5"
         \/ sim = "gem5-o3" /\ step = "parse gem5-o3"
  PROVE  IndInv /\ Parse(sim, step) => IndInv'
<1> SUFFICES ASSUME IndInv, Parse(sim, step) PROVE IndInv'
  OBVIOUS
<1>1. pc = step /\ pc \in Parsing /\ UNCHANGED <<session, toggle, b, cwd, binary, log, m5out, cleaned>>
  BY DEF Parse, Parsing
<1>2. CASE log[<<Bench, sim>>] = None
  BY <1>1, <1>2, ParseRaises
<1>3. CASE log[<<Bench, sim>>] # None
  <2>1. /\ pc' = Follows(step) /\ DOMAIN parser' = {"counter", "hpm"}
        /\ sim = "whisper" => parser'["counter"] = <<>>
    BY <1>1, <1>3, OneLog
  <2>2. \/ sim = "whisper" /\ pc' = "parse gem5"
        \/ sim = "gem5" /\ pc' = "parse gem5-o3"
        \/ sim = "gem5-o3" /\ pc' = "next"
    BY <2>1, FollowsFacts
  <2>3. /\ output' = [output EXCEPT ![Bench] = output'[Bench]]
        /\ sim = "whisper" => output'[Bench] = <<Section("whisper")>>
        /\ sim = "gem5" => output'[Bench] = <<Section("whisper"), Section("gem5")>>
        /\ sim = "gem5-o3" =>
             output'[Bench] = <<Section("whisper"), Section("gem5"), Section("gem5-o3")>>
    BY <1>1, <1>3, OutputGrows
  <2>4. /\ Bench' = Bench
        /\ \A s \in Sims : Section(s)' = Section(s) /\ LogOfSession(s)' = LogOfSession(s)
    BY <1>1, SectionKept DEF LogOfSession, Bench
  <2>5. TypeOK'
    <3>1. pc \in AtBench /\ pc' \in Busy
      BY <1>1, <2>2 DEF AtBench, Busy, Parsing
    <3>2. DOMAIN output' = DOMAIN output
      BY <2>3
    <3> QED BY <1>1, <2>1, <3>1, <3>2 DEF IndInv, TypeOK
  <2>6. BenchInv'
    <3>1. \A s \in Sims : LogOfSession(s)'
      BY <1>1, <2>4 DEF IndInv, BenchInv, Sims
    <3> QED BY <2>1, <2>2, <2>3, <2>4, <3>1 DEF BenchInv, Sims, Parsing
  <2>7. SectionsComplete'
    BY <2>2, <2>3, <2>4 DEF SectionsComplete, Parsed, Sims
  <2>8. RaisesOnlyIfDisabled'
    BY <2>2 DEF RaisesOnlyIfDisabled
  <2>9. NothingOlderThanClean'
    BY <1>1, <1>3, ParsedYoung
  <2>10. cleaned' > 0 => session' > cleaned'
    BY <1>1 DEF IndInv, Busy
  <2> QED BY <2>5, <2>6, <2>7, <2>8, <2>9, <2>10 DEF IndInv
<1> QED BY <1>2, <1>3

LEMMA NextInv == IndInv /\ [Next]_vars => IndInv'
<1> SUFFICES ASSUME IndInv, [Next]_vars PROVE IndInv'
  OBVIOUS
<1>1. CASE Standalone
  BY <1>1, StandaloneStep
<1>2. CASE Start
  BY <1>2, StartStep
<1>3. CASE Build
  BY <1>3, BuildStep
<1>4. ASSUME NEW sim \in Sims, Simulate(sim) PROVE IndInv'
  BY <1>4, SimulateStep
<1>5. CASE Parse("whisper", "parse whisper")
  BY <1>5, ParseStep DEF Sims
<1>6. CASE Parse("gem5", "parse gem5")
  BY <1>6, ParseStep DEF Sims
<1>7. CASE Parse("gem5-o3", "parse gem5-o3")
  BY <1>7, ParseStep DEF Sims
<1>8. CASE NextBench
  BY <1>8, NextBenchStep
<1>9. CASE Clean
  BY <1>9, CleanStep
<1>10. CASE UNCHANGED vars
  <2>1. UNCHANGED <<pc, session, toggle, b, cwd, binary, log, m5out, parser, output, cleaned>>
    BY <1>10 DEF vars
  <2>2. /\ Bench' = Bench
        /\ \A s \in Sims : Section(s)' = Section(s) /\ LogOfSession(s)' = LogOfSession(s)
    BY <2>1, SectionKept DEF LogOfSession, Bench
  <2>3. TypeOK'
    BY <2>1 DEF IndInv, TypeOK
  <2>4. BenchInv'
    BY <2>1, <2>2 DEF IndInv, BenchInv, Sims
  <2>5. SectionsComplete'
    BY <2>1, <2>2 DEF IndInv, SectionsComplete, Parsed, Sims
  <2>6. RaisesOnlyIfDisabled'
    BY <2>1, <2>2 DEF IndInv, RaisesOnlyIfDisabled
  <2>7. NothingOlderThanClean'
    BY <2>1 DEF IndInv, NothingOlderThanClean
  <2> QED BY <2>1, <2>3, <2>4, <2>5, <2>6, <2>7 DEF IndInv
<1>11. CASE Simulate("whisper") \/ Simulate("gem5") \/ Simulate("gem5-o3")
  BY <1>4, <1>11 DEF Sims
<1> QED BY <1>1, <1>2, <1>3, <1>5, <1>6, <1>7, <1>8, <1>9, <1>10, <1>11 DEF Next

-----------------------------------------------------------------------------
(* The theorems.                                                           *)

\* Whatever make and the simulators do, in every session of a sitting: what
\* IndInv says of each step of a bench (harness.py:192-217) holds.
THEOREM Invariance == Spec => []IndInv
<1>1. Init => IndInv
  BY InitInv
<1>2. IndInv /\ [Next]_vars => IndInv'
  BY NextInv
<1> QED BY <1>1, <1>2, PTL DEF Spec

\* The file of a bench that has been parsed has its three sections, each the
\* lines of its own log (harness.py:133-162).
THEOREM CompleteSections == Spec => []SectionsComplete
<1>1. IndInv => SectionsComplete
  BY DEF IndInv
<1> QED BY <1>1, Invariance, PTL

\* A session that runs all three simulators never dies of a missing log,
\* however many builds fail (harness.py:109-131).
THEOREM RaisesJustified == Spec => []RaisesOnlyIfDisabled
<1>1. IndInv => RaisesOnlyIfDisabled
  BY DEF IndInv
<1> QED BY <1>1, Invariance, PTL

\* What a clean removes stays away (harness.py:77-99).
THEOREM CleanStays == Spec => []NothingOlderThanClean
<1>1. IndInv => NothingOlderThanClean
  BY DEF IndInv
<1> QED BY <1>1, Invariance, PTL

\* The numbers of a toggled simulator are this session's, of its own core and
\* of this session's binary (harness.py:105-162).
THEOREM FreshNumbers == Spec => []Fresh
<1>1. ASSUME IndInv PROVE Fresh
  <2> SUFFICES ASSUME Parsed,
                      NEW x \in DOMAIN output[Bench], toggle[output[Bench][x].sim],
                      NEW y \in DOMAIN output[Bench][x].items,
                      output[Bench][x].items[y].lines # {}
               PROVE  /\ output[Bench][x].items[y].file.session = session
                      /\ output[Bench][x].items[y].file.built = session
                      /\ output[Bench][x].items[y].file.core = Core(output[Bench][x].sim)
    BY DEF Fresh
  <2>1. PICK sim \in Sims : output[Bench][x] = Section(sim)
    BY <1>1 DEF IndInv, SectionsComplete, Sims
  <2>2. PICK f : f = log[<<Bench, sim>>]
    OBVIOUS
  <2>3. /\ output[Bench][x].sim = sim /\ output[Bench][x].items = <<Matches(f, sim)>>
        /\ output[Bench][x].items[y] = Matches(f, sim)
    BY <2>1, <2>2 DEF Section
  <2>4. LogOfSession(sim)
    BY <1>1 DEF IndInv, BenchInv, Parsed, Sims
  <2>5. f # None /\ f.session = session /\ f.core = Core(sim) /\ (f.lines > 0 => f.built = session)
    BY <2>2, <2>3, <2>4 DEF LogOfSession
  <2>6. f.lines > 0
    <3>1. <<Bench, sim>> \in Logs
      BY <1>1, BenchName DEF IndInv, Parsed, AtBench, Busy
    <3>2. f \in LogFiles
      BY <1>1, <2>2, <2>5, <3>1 DEF IndInv, TypeOK
    <3>3. f.lines \in Nat
      BY <3>2, LogFileFacts
    <3>4. PICK z \in 1 .. f.lines : TRUE
      BY <2>3 DEF Matches
    <3> QED BY <3>3, <3>4
  <2> QED BY <2>3, <2>5, <2>6 DEF Matches
<1> QED BY <1>1, Invariance, PTL
=============================================================================
