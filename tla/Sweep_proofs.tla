----------------------------- MODULE Sweep_proofs -----------------------------
(***************************************************************************)
(* For every configuration of the sweep, whatever make and the simulators  *)
(* do: each number of a row was measured in this sweep, at that point and  *)
(* on the variant's kernel, a row is empty only where its logs end early,  *)
(* and a sweep that ends has a row for every point, in order.              *)
(***************************************************************************)
EXTENDS Sweep, FiniteSetTheorems, SequenceTheorems, WellFoundedInduction, TLAPS

-----------------------------------------------------------------------------
(* The lines of a log.                                                     *)

\* The n-th line has the j-th name of a block.
LEMMA LineNames ==
  ASSUME NEW n \in 1 .. 15, NEW j \in 1 .. 5
  PROVE  Name(n) = Block[j] <=> n = j \/ n = j + 5 \/ n = j + 10
<1>1. /\ Block[1] = "mcycle" /\ Block[2] = "minstret" /\ Block[3] = "Vector"
      /\ Block[4] = "VectorLoad" /\ Block[5] = "VectorStore"
  BY DEF Block
<1>2. \A h, i \in 1 .. 5 : Block[h] = Block[i] => h = i
  <2>1. \A i \in 1 .. 5 : i = 1 \/ i = 2 \/ i = 3 \/ i = 4 \/ i = 5
    OBVIOUS
  <2> QED BY <1>1, <2>1
<1>3. ((n - 1) % 5) + 1 \in 1 .. 5
  OBVIOUS
<1>4. ((n - 1) % 5) + 1 = j <=> n = j \/ n = j + 5 \/ n = j + 10
  OBVIOUS
<1> QED BY <1>2, <1>3, <1>4 DEF Name

\* It belongs to the kernel whose block it is in.
LEMMA LineKernels ==
  ASSUME NEW k \in 0 .. 2, NEW j \in 1 .. 5
  PROVE  /\ 5 * k + j \in 1 .. 15
         /\ ((5 * k + j - 1) \div 5) + 1 = k + 1
OBVIOUS

LEMMA SmallSets ==
  /\ Cardinality({}) = 0
  /\ \A a : Cardinality({a}) = 1
  /\ \A a, b : a # b => Cardinality({a, b}) = 2
  /\ \A a, b, c : a # b /\ a # c /\ b # c => Cardinality({a, b, c}) = 3
<1>1. IsFiniteSet({}) /\ Cardinality({}) = 0
  BY FS_EmptySet
<1>2. ASSUME NEW a PROVE IsFiniteSet({a}) /\ Cardinality({a}) = 1
  BY FS_Singleton
<1>3. ASSUME NEW a, NEW b, a # b PROVE IsFiniteSet({a, b}) /\ Cardinality({a, b}) = 2
  <2>1. {a, b} = {a} \cup {b} /\ b \notin {a}
    BY <1>3
  <2>2. IsFiniteSet({a}) /\ Cardinality({a}) = 1
    BY <1>2
  <2> QED BY <2>1, <2>2, FS_AddElement
<1>4. ASSUME NEW a, NEW b, NEW c, a # b, a # c, b # c PROVE Cardinality({a, b, c}) = 3
  <2>1. {a, b, c} = {a, b} \cup {c} /\ c \notin {a, b}
    BY <1>4
  <2> DEFINE T == {a, b}
  <2>2. IsFiniteSet(T) /\ Cardinality(T) = 2
    <3>1. a # b
      BY <1>4
    <3> QED BY <1>3, <3>1
  <2>3. {a, b, c} = T \cup {c} /\ c \notin T
    BY <2>1
  <2> HIDE DEF T
  <2>4. Cardinality(T \cup {c}) = Cardinality(T) + 1
    BY <2>2, <2>3, FS_AddElement
  <2>5. Cardinality(T \cup {c}) = 3
    BY <2>2, <2>4
  <2> QED BY <2>3, <2>5
<1>5. /\ \A a : Cardinality({a}) = 1
      /\ \A a, b : a # b => Cardinality({a, b}) = 2
  BY <1>2, <1>3
<1>6. \A a, b, c : a # b /\ a # c /\ b # c => Cardinality({a, b, c}) = 3
  BY <1>4, Zenon
<1> QED BY <1>1, <1>5, <1>6, Zenon

\* get() finds the line of the kernel with that occurrence, if the log has it.
LEMMA GetLine ==
  ASSUME NEW f, f.lines \in 0 .. 15, NEW sim, NEW j \in 1 .. 5, Block[j] \in Selected(sim),
         NEW k \in 0 .. 2
  PROVE  get(log_parse(f, sim), Block[j], k) =
           IF 5 * k + j <= f.lines THEN Line(f, sim, 5 * k + j).value ELSE None
<1> DEFINE lst     == log_parse(f, sim)
           matches == {n \in DOMAIN lst : lst[n].name = Block[j]}
           L       == f.lines
<1>1. matches = {n \in 1 .. L : n = j \/ n = j + 5 \/ n = j + 10}
  <2>1. DOMAIN lst = {m \in 1 .. L : Name(m) \in Selected(sim)}
    BY DEF log_parse
  <2>2. \A n \in DOMAIN lst : lst[n] = Line(f, sim, n) /\ lst[n].name = Name(n)
    BY DEF log_parse, Line
  <2>3. matches = {n \in 1 .. L : Name(n) = Block[j]}
    BY <2>1, <2>2
  <2>4. \A n \in 1 .. L : n \in 1 .. 15
    OBVIOUS
  <2>5. \A n \in 1 .. L : Name(n) = Block[j] <=> n = j \/ n = j + 5 \/ n = j + 10
    BY <2>4, LineNames
  <2> HIDE DEF lst, L
  <2> QED BY <2>3, <2>5
<1>2. lst[5 * k + j] = Line(f, sim, 5 * k + j) \/ 5 * k + j \notin matches
  BY DEF log_parse
<1>3. get(lst, Block[j], k) =
        IF k < Cardinality(matches)
        THEN lst[CHOOSE n \in matches : Cardinality(Before(matches, n)) = k].value
        ELSE None
  BY DEF get
<1>4. L \in 0 .. 15
  OBVIOUS
<1> HIDE DEF lst, matches, L
<1>5. k < Cardinality(matches) <=> 5 * k + j <= L
  <2>1. CASE L < j
    <3>1. matches = {}
      BY <1>1, <1>4, <2>1
    <3> QED BY <1>4, <2>1, <3>1, SmallSets
  <2>2. CASE j <= L /\ L < j + 5
    <3>0. j \in matches /\ \A n \in matches : n = j
      BY <1>1, <1>4, <2>2
    <3>1. matches = {j}
      BY <3>0
    <3>2. Cardinality(matches) = 1
      BY <3>1, SmallSets
    <3> QED BY <1>4, <2>2, <3>2
  <2>3. CASE j + 5 <= L /\ L < j + 10
    <3>0. /\ j \in matches /\ j + 5 \in matches /\ j # j + 5
          /\ \A n \in matches : n = j \/ n = j + 5
      BY <1>1, <1>4, <2>3
    <3>1. matches = {j, j + 5}
      BY <3>0
    <3>2. Cardinality(matches) = 2
      <4>1. Cardinality({j, j + 5}) = 2
        BY <3>0, SmallSets, Zenon
      <4> QED BY <3>1, <4>1
    <3> QED BY <1>4, <2>3, <3>2
  <2>4. CASE j + 10 <= L
    <3>0. /\ j \in matches /\ j + 5 \in matches /\ j + 10 \in matches
          /\ j # j + 5 /\ j # j + 10 /\ j + 5 # j + 10
          /\ \A n \in matches : n = j \/ n = j + 5 \/ n = j + 10
      BY <1>1, <1>4, <2>4
    <3>1. matches = {j, j + 5, j + 10}
      BY <3>0
    <3>2. Cardinality(matches) = 3
      <4>1. \A a, b, c : a # b /\ a # c /\ b # c => Cardinality({a, b, c}) = 3
        BY SmallSets, Zenon
      <4>2. PICK b, c : b = j + 5 /\ c = j + 10
        OBVIOUS
      <4>3. j # b /\ j # c /\ b # c
        BY <3>0, <4>2
      <4>4. Cardinality({j, b, c}) = 3
        BY <4>1, <4>3, Zenon
      <4> QED BY <3>1, <4>2, <4>4
    <3> QED BY <1>4, <2>4, <3>2
  <2> QED BY <1>4, <2>1, <2>2, <2>3, <2>4
<1>6. ASSUME NEW n \in matches
      PROVE  Cardinality(Before(matches, n)) = k <=> n = 5 * k + j
  <2>1. n \in 1 .. L /\ (n = j \/ n = j + 5 \/ n = j + 10)
    BY <1>1
  <2>2. CASE n = j
    <3>1. Before(matches, n) = {}
      BY <1>1, <1>4, <2>1, <2>2 DEF Before
    <3> QED BY <2>2, <3>1, SmallSets
  <2>3. CASE n = j + 5
    <3>0. j \in Before(matches, n) /\ \A m \in Before(matches, n) : m = j
      BY <1>1, <1>4, <2>1, <2>3 DEF Before
    <3>1. Before(matches, n) = {j}
      BY <3>0
    <3>2. Cardinality(Before(matches, n)) = 1
      BY <3>1, SmallSets
    <3> QED BY <2>3, <3>2
  <2>4. CASE n = j + 10
    <3>0. /\ j \in Before(matches, n) /\ j + 5 \in Before(matches, n) /\ j # j + 5
          /\ \A m \in Before(matches, n) : m = j \/ m = j + 5
      BY <1>1, <1>4, <2>1, <2>4 DEF Before
    <3>1. Before(matches, n) = {j, j + 5}
      BY <3>0
    <3>2. Cardinality(Before(matches, n)) = 2
      <4>1. Cardinality({j, j + 5}) = 2
        BY <3>0, SmallSets, Zenon
      <4> QED BY <3>1, <4>1
    <3> QED BY <2>4, <3>2
  <2> QED BY <2>1, <2>2, <2>3, <2>4
<1>7. CASE 5 * k + j <= L
  <2>1. 5 * k + j \in matches
    BY <1>1, <1>4, <1>7
  <2>2. (CHOOSE n \in matches : Cardinality(Before(matches, n)) = k) = 5 * k + j
    BY <1>6, <2>1
  <2>3. get(lst, Block[j], k) = Line(f, sim, 5 * k + j).value
    BY <1>2, <1>3, <1>5, <1>7, <2>1, <2>2
  <2> QED BY <1>7, <2>3 DEF lst, L
<1>8. CASE ~(5 * k + j <= L)
  <2>1. get(lst, Block[j], k) = None
    BY <1>3, <1>5, <1>8
  <2> QED BY <1>8, <2>1 DEF lst, L
<1> QED BY <1>7, <1>8

-----------------------------------------------------------------------------
(* The points and their rows.                                              *)

LEMMA PointFacts ==
  ASSUME NEW a \in Points
  PROVE  /\ a[1] \in VARIANTS /\ a[1] \in DOMAIN Configs /\ a[2] \in DOMAIN Configs[a[1]].points
         /\ a[1] \in Nat /\ a[2] \in Nat /\ a = <<a[1], a[2]>>
         /\ Tag(a[1], a[2]) \in Tags /\ Tag(a[1], a[2]) \in TagsOf(VARIANTS)
         /\ Flags(a[1], a[2]) \in Builds
<1>1. PICK u \in VARIANTS : a \in {<<u, p>> : p \in DOMAIN Configs[u].points}
  BY DEF Points, PointsOf
<1>2. PICK p \in DOMAIN Configs[u].points : a = <<u, p>>
  BY <1>1
<1>3. u \in DOMAIN Configs
  BY DEF VARIANTS
<1>4. u \in Nat /\ p \in Nat
  BY <1>3, ConfigsAssumption
<1>5. a \in PointsOf(DOMAIN Configs) /\ a \in PointsOf(VARIANTS)
  BY <1>2, <1>3 DEF PointsOf
<1>6. a[1] = u /\ a[2] = p
  BY <1>2
<1> QED BY <1>2, <1>3, <1>4, <1>5, <1>6 DEF Tags, TagsOf, Builds

LEMMA PointsOfVariant ==
  ASSUME NEW u \in VARIANTS, NEW p \in DOMAIN Configs[u].points
  PROVE  <<u, p>> \in Points
BY DEF Points, PointsOf

\* No two points share their files.
LEMMA TagsDiffer ==
  ASSUME NEW a \in Points, NEW c \in Points, Tag(a[1], a[2]) = Tag(c[1], c[2])
  PROVE  a = c
<1>1. /\ a[1] \in DOMAIN Configs /\ a[2] \in DOMAIN Configs[a[1]].points /\ a = <<a[1], a[2]>>
      /\ c[1] \in DOMAIN Configs /\ c[2] \in DOMAIN Configs[c[1]].points /\ c = <<c[1], c[2]>>
  BY PointFacts
<1>2. /\ Configs[a[1]].name = Configs[c[1]].name
      /\ Configs[a[1]].points[a[2]] = Configs[c[1]].points[c[2]]
  BY DEF Tag
<1>3. a[1] = c[1]
  BY <1>1, <1>2, ConfigsAssumption
<1>4. a[2] = c[2]
  BY <1>1, <1>2, <1>3, ConfigsAssumption
<1> QED BY <1>1, <1>3, <1>4

\* What a simulator measures at a point.
Value(a, sim, core) ==
  [run |-> "this", flags |-> Flags(a[1], a[2]), core |-> core, sim |-> sim,
   kernel |-> Configs[a[1]].kernel]

LEMMA KernelFacts ==
  ASSUME NEW a \in Points
  PROVE  /\ KERNEL_OCCURRENCE[Configs[a[1]].kernel] \in 0 .. 2
         /\ Kernels[KERNEL_OCCURRENCE[Configs[a[1]].kernel] + 1] = Configs[a[1]].kernel
         /\ Configs[a[1]].kernel \in Range(Kernels)
<1>1. Configs[a[1]].kernel \in DOMAIN KERNEL_OCCURRENCE
  BY PointFacts, ConfigsAssumption
<1>2. /\ DOMAIN KERNEL_OCCURRENCE = {"scalar", "opt", "blocked"}
      /\ KERNEL_OCCURRENCE["scalar"] = 0 /\ KERNEL_OCCURRENCE["opt"] = 1
      /\ KERNEL_OCCURRENCE["blocked"] = 2
  BY DEF KERNEL_OCCURRENCE
<1>3. /\ DOMAIN Kernels = 1 .. 3
      /\ Kernels[1] = "scalar" /\ Kernels[2] = "opt" /\ Kernels[3] = "blocked"
  BY DEF Kernels
<1>4. 1 \in DOMAIN Kernels /\ 2 \in DOMAIN Kernels /\ 3 \in DOMAIN Kernels
  BY <1>3
<1>5. CASE Configs[a[1]].kernel = "scalar"
  BY <1>2, <1>3, <1>4, <1>5 DEF Range
<1>6. CASE Configs[a[1]].kernel = "opt"
  BY <1>2, <1>3, <1>4, <1>6 DEF Range
<1>7. CASE Configs[a[1]].kernel = "blocked"
  BY <1>2, <1>3, <1>4, <1>7 DEF Range
<1> QED BY <1>1, <1>2, <1>5, <1>6, <1>7

\* A field of the row of point a, from a log of that point.
LEMMA FieldFacts ==
  ASSUME NEW a \in Points, NEW sim \in Simulators, NEW core \in Cores, LogOf(a, sim, core),
         NEW j \in 1 .. 5, Block[j] \in Selected(sim)
  PROVE  LET k == KERNEL_OCCURRENCE[Configs[a[1]].kernel]
             f == log[Tag(a[1], a[2])][sim]
             x == get(log_parse(f, sim), Block[j], k)
         IN  /\ f.lines \in 0 .. 15
             /\ x = IF 5 * k + j <= f.lines THEN Value(a, sim, core) ELSE None
             /\ x = None <=> f.lines < 5 * k + j
<1> DEFINE k == KERNEL_OCCURRENCE[Configs[a[1]].kernel]
           f == log[Tag(a[1], a[2])][sim]
           x == get(log_parse(f, sim), Block[j], k)
<1>1. PICK b \in {None, Flags(a[1], a[2])}, n \in 0 .. 15 :
        (b = None => n = 0) /\ f = LogFile("this", b, core, n)
  BY DEF LogOf
<1>2. /\ f.run = "this" /\ f.flags = b /\ f.core = core /\ f.lines = n
  BY <1>1 DEF LogFile
<1>3. k \in 0 .. 2 /\ Kernels[k + 1] = Configs[a[1]].kernel
  BY KernelFacts
<1> HIDE DEF f, k
<1>4. f.lines \in 0 .. 15
  BY <1>2
<1>5. x = IF 5 * k + j <= f.lines THEN Line(f, sim, 5 * k + j).value ELSE None
  BY <1>3, <1>4, GetLine
<1>6. 5 * k + j <= f.lines => Line(f, sim, 5 * k + j).value = Value(a, sim, core)
  <2> SUFFICES ASSUME NEW i, i = 5 * k + j, i <= f.lines
               PROVE  Line(f, sim, i).value = Value(a, sim, core)
    OBVIOUS
  <2>1. f.flags = Flags(a[1], a[2])
    <3>1. n # 0
      BY <1>2, <1>3
    <3> QED BY <1>1, <1>2, <3>1
  <2>2. Kernels[((i - 1) \div 5) + 1] = Configs[a[1]].kernel
    <3>1. ((i - 1) \div 5) + 1 = k + 1
      BY <1>3, LineKernels
    <3>2. Kernels[k + 1] = Configs[a[1]].kernel
      BY <1>3
    <3> QED BY <3>1, <3>2, Zenon
  <2>3. Line(f, sim, i).value =
          [run |-> f.run, flags |-> f.flags, core |-> f.core, sim |-> sim,
           kernel |-> Kernels[((i - 1) \div 5) + 1]]
    BY DEF Line
  <2>4. f.run = "this" /\ f.core = core
    BY <1>2
  <2> QED BY <2>1, <2>2, <2>3, <2>4, Zenon DEF Value
<1>7. Value(a, sim, core) # None
  <2>1. Value(a, sim, core) \in Values
    BY PointFacts, KernelFacts DEF Value, Values
  <2> QED BY <2>1, ConfigsAssumption
<1>8. x = None <=> f.lines < 5 * k + j
  BY <1>3, <1>4, <1>5, <1>6, <1>7
<1>9. x = IF 5 * k + j <= f.lines THEN Value(a, sim, core) ELSE None
  BY <1>5, <1>6
<1> QED BY <1>4, <1>8, <1>9 DEF f, k

\* The numbers of the row of point a, from its two logs.
LEMMA RowFacts ==
  ASSUME NEW a \in Points,
         LogOf(a, "whisper", "whisper"), LogOf(a, "gem5", Configs[a[1]].core)
  PROVE  LET k    == KERNEL_OCCURRENCE[Configs[a[1]].kernel]
             logs == log[Tag(a[1], a[2])]
             row  == Row(a[1], a[2])
             core == Configs[a[1]].core
         IN  /\ k \in 0 .. 2 /\ logs["gem5"].lines \in 0 .. 15 /\ logs["whisper"].lines \in 0 .. 15
             /\ row.point = a
             /\ row.mcycle = None <=> logs["gem5"].lines < 5 * k + 1
             /\ row.minstret = None <=> logs["gem5"].lines < 5 * k + 2
             /\ row.VecLoad = None <=> logs["whisper"].lines < 5 * k + 4
             /\ row.VecStore = None <=> logs["whisper"].lines < 5 * k + 5
             /\ row.mcycle \in {None, Value(a, "gem5", core)}
             /\ row.minstret \in {None, Value(a, "gem5", core)}
             /\ row.VecLoad \in {None, Value(a, "whisper", "whisper")}
             /\ row.VecStore \in {None, Value(a, "whisper", "whisper")}
             /\ row.bytes_Q \subseteq {row.VecLoad, row.VecStore}
             /\ row.cyc_load \subseteq {row.mcycle, row.VecLoad}
<1> DEFINE k    == KERNEL_OCCURRENCE[Configs[a[1]].kernel]
           logs == log[Tag(a[1], a[2])]
           core == Configs[a[1]].core
           G(name) == get(log_parse(logs["gem5"], "gem5"), name, k)
           W(name) == get(log_parse(logs["whisper"], "whisper"), name, k)
<1>1. k \in 0 .. 2
  BY KernelFacts
<1>2. core \in Cores /\ "whisper" \in Cores /\ "whisper" \in Simulators /\ "gem5" \in Simulators
  BY PointFacts DEF Cores, Simulators
<1>3. /\ Block[1] = "mcycle" /\ Block[2] = "minstret"
      /\ Block[4] = "VectorLoad" /\ Block[5] = "VectorStore"
  BY DEF Block
<1>4. /\ Block[1] \in Selected("gem5") /\ Block[2] \in Selected("gem5")
      /\ Block[4] \in Selected("whisper") /\ Block[5] \in Selected("whisper")
  BY <1>3 DEF Selected
<1>5. /\ logs["gem5"].lines \in 0 .. 15
      /\ G("mcycle") = None <=> logs["gem5"].lines < 5 * k + 1
      /\ G("mcycle") \in {None, Value(a, "gem5", core)}
  <2>1. 1 \in 1 .. 5
    OBVIOUS
  <2> QED BY <1>2, <1>3, <1>4, <2>1, FieldFacts
<1>6. /\ G("minstret") = None <=> logs["gem5"].lines < 5 * k + 2
      /\ G("minstret") \in {None, Value(a, "gem5", core)}
  <2>1. 2 \in 1 .. 5
    OBVIOUS
  <2> QED BY <1>2, <1>3, <1>4, <2>1, FieldFacts
<1>7. /\ logs["whisper"].lines \in 0 .. 15
      /\ W("VectorLoad") = None <=> logs["whisper"].lines < 5 * k + 4
      /\ W("VectorLoad") \in {None, Value(a, "whisper", "whisper")}
  <2>1. 4 \in 1 .. 5
    OBVIOUS
  <2> QED BY <1>2, <1>3, <1>4, <2>1, FieldFacts
<1>8. /\ W("VectorStore") = None <=> logs["whisper"].lines < 5 * k + 5
      /\ W("VectorStore") \in {None, Value(a, "whisper", "whisper")}
  <2>1. 5 \in 1 .. 5
    OBVIOUS
  <2> QED BY <1>2, <1>3, <1>4, <2>1, FieldFacts
<1>9. Row(a[1], a[2]) =
        [point |-> <<a[1], a[2]>>, mcycle |-> G("mcycle"), minstret |-> G("minstret"),
         VecLoad |-> W("VectorLoad"), VecStore |-> W("VectorStore"),
         bytes_Q |-> {W("VectorLoad"), W("VectorStore")} \ {None},
         cyc_load |-> IF W("VectorLoad") = None THEN {} ELSE {G("mcycle"), W("VectorLoad")}]
  BY DEF Row
<1>10. a = <<a[1], a[2]>>
  BY PointFacts
<1> HIDE DEF k, logs, core, G, W
<1>11. /\ Row(a[1], a[2]).point = a
       /\ Row(a[1], a[2]).mcycle = G("mcycle") /\ Row(a[1], a[2]).minstret = G("minstret")
       /\ Row(a[1], a[2]).VecLoad = W("VectorLoad") /\ Row(a[1], a[2]).VecStore = W("VectorStore")
  BY <1>9, <1>10
<1>12. /\ Row(a[1], a[2]).bytes_Q \subseteq {W("VectorLoad"), W("VectorStore")}
       /\ Row(a[1], a[2]).cyc_load \subseteq {G("mcycle"), W("VectorLoad")}
  BY <1>9
<1> QED BY <1>1, <1>5, <1>6, <1>7, <1>8, <1>11, <1>12 DEF k, logs, core

\* A row is what it was as long as the logs of its point are.
LEMMA RowStays ==
  ASSUME NEW a \in Points, log'[Tag(a[1], a[2])] = log[Tag(a[1], a[2])]
  PROVE  /\ Row(a[1], a[2])' = Row(a[1], a[2])
         /\ \A sim, core : LogOf(a, sim, core) => LogOf(a, sim, core)'
BY DEF Row, LogOf

-----------------------------------------------------------------------------
(* The order of the points.                                                *)

LEMMA LeastOf ==
  ASSUME NEW S \in SUBSET Nat, S # {}
  PROVE  First(S) \in S /\ \A u \in S : First(S) <= u
<1> DEFINE R == {ss \in Nat \X Nat : ss[1] < ss[2]}
<1>1. IsWellFoundedOn(R, Nat)
  BY NatLessThanWellFounded DEF OpToRel
<1>2. PICK n \in S : \A p \in S : ~ (<<p, n>> \in R)
  <2> HIDE DEF R
  <2> QED BY <1>1, WFMin
<1>3. ASSUME NEW p \in S PROVE n <= p
  <2>1. n \in Nat /\ p \in Nat /\ ~ (p < n)
    BY <1>2
  <2> QED BY <2>1
<1> QED BY <1>3 DEF First

\* VARIANTS are numbers of configurations, each with a first point.
LEMMA VariantFacts ==
  /\ VARIANTS \subseteq Nat /\ VARIANTS # {}
  /\ \A u \in VARIANTS : /\ u \in DOMAIN Configs
                         /\ DOMAIN Configs[u].points = 1 .. Len(Configs[u].points)
                         /\ Len(Configs[u].points) \in Nat \ {0}
                         /\ 1 \in DOMAIN Configs[u].points
<1>1. VARIANTS \subseteq DOMAIN Configs
  BY DEF VARIANTS
<1>2. ASSUME NEW u \in VARIANTS
      PROVE  /\ DOMAIN Configs[u].points = 1 .. Len(Configs[u].points)
             /\ Len(Configs[u].points) \in Nat \ {0}
  BY <1>1, ConfigsAssumption
<1>3. ASSUME NEW u \in VARIANTS PROVE 1 \in DOMAIN Configs[u].points
  BY <1>2
<1> QED BY <1>1, <1>2, <1>3, ConfigsAssumption

\* The points before the one at work.
Earlier(w, p) == {a \in Points : Precedes(a, <<w, p>>)}

LEMMA FirstPoint == <<First(VARIANTS), 1>> \in Points /\ Earlier(First(VARIANTS), 1) = {}
<1>1. First(VARIANTS) \in VARIANTS /\ \A u \in VARIANTS : First(VARIANTS) <= u
  BY VariantFacts, LeastOf
<1>2. <<First(VARIANTS), 1>> \in Points
  BY <1>1, VariantFacts, PointsOfVariant
<1>3. ASSUME NEW a \in Points, Precedes(a, <<First(VARIANTS), 1>>) PROVE FALSE
  <2>1. /\ a[1] \in VARIANTS /\ a[1] \in Nat /\ First(VARIANTS) \in Nat
        /\ a[2] \in 1 .. Len(Configs[a[1]].points) /\ Len(Configs[a[1]].points) \in Nat
    BY <1>1, PointFacts, VariantFacts
  <2>2. First(VARIANTS) <= a[1]
    BY <1>1, <2>1
  <2>3. a[1] < First(VARIANTS) \/ a[2] < 1
    BY <1>3 DEF Precedes
  <2> QED BY <2>1, <2>2, <2>3
<1> QED BY <1>2, <1>3 DEF Earlier

\* The loops go on to the next point, or all are done.
LEMMA AdvanceFacts ==
  ASSUME <<v, q>> \in Points, Advance
  PROVE  /\ <<v', q'>> \in Points /\ pc' \in {"build", "summary"}
         /\ pc' = "build" => Earlier(v', q') = Earlier(v, q) \cup {<<v, q>>}
         /\ pc' = "summary" => Points = Earlier(v, q) \cup {<<v, q>>}
<1> DEFINE n == Len(Configs[v].points)
           later == {u \in VARIANTS : u > v}
<1>1. /\ v \in VARIANTS /\ v \in Nat /\ q \in Nat /\ n \in Nat \ {0} /\ q \in 1 .. n
      /\ DOMAIN Configs[v].points = 1 .. n
  <2>1. <<v, q>>[1] = v /\ <<v, q>>[2] = q
    OBVIOUS
  <2> QED BY <2>1, PointFacts, VariantFacts
<1>2. ASSUME NEW a \in Points
      PROVE  /\ a[1] \in VARIANTS /\ a[1] \in Nat /\ a[2] \in Nat /\ 1 <= a[2]
             /\ a[1] = v => a[2] <= n
             /\ a = <<v, q>> <=> a[1] = v /\ a[2] = q
  <2>1. a[1] \in VARIANTS /\ a[2] \in DOMAIN Configs[a[1]].points /\ a = <<a[1], a[2]>>
    BY PointFacts
  <2>2. a[2] \in 1 .. Len(Configs[a[1]].points) /\ Len(Configs[a[1]].points) \in Nat
    BY <2>1, VariantFacts
  <2>3. a[1] \in Nat /\ a[2] \in Nat
    BY PointFacts
  <2>4. a = <<v, q>> <=> a[1] = v /\ a[2] = q
    BY <2>1
  <2> QED BY <2>1, <2>2, <2>3, <2>4
<1>3. CASE q < n
  <2>1. v' = v /\ q' = q + 1 /\ pc' = "build"
    BY <1>3 DEF Advance
  <2>2. <<v, q + 1>> \in Points
    <3>1. q + 1 \in DOMAIN Configs[v].points
      BY <1>1, <1>3
    <3> QED BY <1>1, <3>1, PointsOfVariant
  <2>3. ASSUME NEW a \in Points
        PROVE  Precedes(a, <<v, q + 1>>) <=> Precedes(a, <<v, q>>) \/ a = <<v, q>>
    BY <1>1, <1>2 DEF Precedes
  <2>4. Earlier(v, q + 1) = Earlier(v, q) \cup {<<v, q>>}
    BY <2>3 DEF Earlier
  <2>5. <<v', q'>> \in Points /\ Earlier(v', q') = Earlier(v, q) \cup {<<v, q>>}
    BY <2>1, <2>2, <2>4
  <2> QED BY <2>1, <2>5
<1>4. CASE ~(q < n) /\ later # {}
  <2>1. v' = First(later) /\ q' = 1 /\ pc' = "build"
    BY <1>4 DEF Advance
  <2>2. later \in SUBSET Nat
    BY VariantFacts
  <2>3. First(later) \in later /\ \A u \in later : First(later) <= u
    <3> HIDE DEF later
    <3> QED BY <1>4, <2>2, LeastOf
  <2> DEFINE w == First(later)
  <2>4. w \in VARIANTS /\ w \in Nat /\ w > v /\ \A u \in VARIANTS : u > v => w <= u
    BY <2>2, <2>3
  <2> HIDE DEF w
  <2>5. <<w, 1>> \in Points
    BY <2>4, VariantFacts, PointsOfVariant
  <2>6. ASSUME NEW a \in Points
        PROVE  Precedes(a, <<w, 1>>) <=> Precedes(a, <<v, q>>) \/ a = <<v, q>>
    <3>1. Precedes(a, <<w, 1>>) <=> a[1] < w
      BY <1>2, <2>4 DEF Precedes
    <3>2. a[1] < w <=> a[1] <= v
      BY <1>1, <1>2, <2>4
    <3>3. a[1] <= v <=> Precedes(a, <<v, q>>) \/ a = <<v, q>>
      BY <1>1, <1>2, <1>4 DEF Precedes
    <3> QED BY <3>1, <3>2, <3>3
  <2>7. Earlier(w, 1) = Earlier(v, q) \cup {<<v, q>>}
    BY <2>6 DEF Earlier
  <2>8. <<v', q'>> \in Points /\ Earlier(v', q') = Earlier(v, q) \cup {<<v, q>>}
    BY <2>1, <2>5, <2>7 DEF w
  <2> QED BY <2>1, <2>8
<1>5. CASE ~(q < n) /\ later = {}
  <2>1. v' = v /\ q' = q /\ pc' = "summary"
    BY <1>5 DEF Advance
  <2>2. ASSUME NEW a \in Points
        PROVE  Precedes(a, <<v, q>>) \/ a = <<v, q>>
    <3>1. a[1] <= v
      BY <1>1, <1>2, <1>5
    <3> QED BY <1>1, <1>2, <1>5, <3>1 DEF Precedes
  <2>3. Points = Earlier(v, q) \cup {<<v, q>>}
    BY <2>2 DEF Earlier
  <2> QED BY <2>1, <2>3
<1> QED BY <1>3, <1>4, <1>5

\* A row more, after those there are.
LEMMA AddRow ==
  ASSUME NEW rows, NEW S, NEW row, NEW new,
         rows \in Seq(Range(rows)), RowsOf(rows, S),
         \A a \in S : Precedes(a, row.point), new = Append(rows, row)
  PROVE  /\ new \in Seq(Range(new))
         /\ RowsOf(new, S \cup {row.point})
         /\ \A x \in DOMAIN new : (x \in DOMAIN rows /\ new[x] = rows[x]) \/ new[x] = row
<1> DEFINE T == Range(rows) \cup {row}
           n == Len(rows)
<1>1. rows \in Seq(T) /\ n \in Nat /\ DOMAIN rows = 1 .. n
  <2>1. Range(rows) \subseteq T
    OBVIOUS
  <2> QED BY <2>1
<1>2. /\ new \in Seq(T) /\ Len(new) = n + 1
      /\ \A i \in 1 .. n : new[i] = rows[i]
      /\ new[n + 1] = row
  <2>1. row \in T
    OBVIOUS
  <2> HIDE DEF T
  <2> QED BY <1>1, <2>1, AppendProperties
<1> HIDE DEF T, n
<1>3. DOMAIN new = 1 .. n + 1 /\ new \in [1 .. n + 1 -> T]
  <2>1. DOMAIN new = 1 .. Len(new) /\ new \in [1 .. Len(new) -> T]
    BY <1>2, LenProperties
  <2> QED BY <1>2, <2>1
<1>4. new \in [1 .. n + 1 -> Range(new)]
  BY <1>3 DEF Range
<1>5. new \in Seq(Range(new))
  <2> DEFINE R == Range(new)
  <2>1. n + 1 \in Nat
    BY <1>1
  <2>2. new \in UNION {[1 .. m -> R] : m \in Nat}
    BY <1>4, <2>1
  <2> QED BY <2>2, SeqDef
<1>6. \A x \in DOMAIN new : (x \in DOMAIN rows /\ new[x] = rows[x]) \/ (x = n + 1 /\ new[x] = row)
  BY <1>1, <1>2, <1>3
<1>7. {new[x].point : x \in DOMAIN new} = S \cup {row.point}
  <2>1. {rows[x].point : x \in DOMAIN rows} = S
    BY DEF RowsOf
  <2>2. \A x \in DOMAIN rows : x \in DOMAIN new /\ new[x] = rows[x]
    BY <1>1, <1>2, <1>3
  <2>3. n + 1 \in DOMAIN new /\ new[n + 1] = row
    BY <1>1, <1>2, <1>3
  <2> QED BY <1>6, <2>1, <2>2, <2>3
<1>8. ASSUME NEW x \in DOMAIN new, NEW y \in DOMAIN new, x < y
      PROVE  Precedes(new[x].point, new[y].point)
  <2>1. x \in 1 .. n /\ x \in DOMAIN rows /\ new[x] = rows[x]
    BY <1>1, <1>2, <1>3, <1>8
  <2>2. CASE y = n + 1
    <3>1. new[x].point \in S
      BY <2>1 DEF RowsOf
    <3> QED BY <1>2, <2>2, <3>1
  <2>3. CASE y # n + 1
    <3>1. y \in DOMAIN rows /\ new[y] = rows[y]
      BY <1>6, <2>3
    <3> QED BY <1>8, <2>1, <3>1 DEF RowsOf
  <2> QED BY <2>2, <2>3
<1> QED BY <1>5, <1>6, <1>7, <1>8 DEF RowsOf

-----------------------------------------------------------------------------
(* Every step keeps the invariant.                                         *)

LEMMA InitInv == Init => IndInv
<1> SUFFICES ASSUME Init PROVE IndInv
  OBVIOUS
<1>1. v = First(VARIANTS) /\ q = 1 /\ pc \in {"build", "clean"} /\ results = <<>>
  BY DEF Init
<1>2. <<v, q>> \in Points /\ Earlier(v, q) = {}
  BY <1>1, FirstPoint
<1>3. DOMAIN log = Tags /\ \A t \in Tags : DOMAIN log[t] = Simulators
  BY DEF Init, EarlierLogs, NoLogs
<1>4. PointInv
  BY <1>1, <1>2, <1>3 DEF PointInv
<1>5. Covered = {}
  BY <1>1, <1>2 DEF Covered, Earlier
<1>6. DOMAIN results = {} /\ results \in Seq(Range(results))
  BY <1>1
<1>7. RowsInv
  BY <1>5, <1>6 DEF RowsInv, RowsOf
<1> QED BY <1>4, <1>7 DEF IndInv

\* The point at work is not among those before it.
LEMMA AtWork ==
  ASSUME PointInv, pc \notin {"summary", "done"}
  PROVE  /\ Covered = Earlier(v, q)
         /\ \A a \in Covered : a \in Points /\ a # <<v, q>>
<1>1. Covered = Earlier(v, q)
  BY DEF Covered, Earlier
<1>2. v \in Nat /\ q \in Nat
  <2>1. <<v, q>> \in Points /\ <<v, q>>[1] = v /\ <<v, q>>[2] = q
    BY DEF PointInv
  <2> QED BY <2>1, PointFacts
<1>3. ~Precedes(<<v, q>>, <<v, q>>)
  BY <1>2 DEF Precedes
<1> QED BY <1>1, <1>3 DEF Earlier

\* Rows whose logs are left alone stay what they are.
LEMMA RowsStay ==
  ASSUME RowsInv, results' = results, Covered' = Covered, Covered \subseteq Points,
         \A a \in Covered : log'[Tag(a[1], a[2])] = log[Tag(a[1], a[2])]
  PROVE  RowsInv'
<1>1. results' \in Seq(Range(results')) /\ RowsOf(results', Covered')
  BY DEF RowsInv
<1>2. ASSUME NEW x \in DOMAIN results
      PROVE  (LET a == results[x].point IN
              /\ results[x] = Row(a[1], a[2])
              /\ LogOf(a, "whisper", "whisper") /\ LogOf(a, "gem5", Configs[a[1]].core))'
  <2>1. PICK c : c = results[x].point
    OBVIOUS
  <2>2. c \in Covered /\ c \in Points
    BY <2>1 DEF RowsInv, RowsOf
  <2>3. /\ results[x] = Row(c[1], c[2])
        /\ LogOf(c, "whisper", "whisper") /\ LogOf(c, "gem5", Configs[c[1]].core)
    BY <2>1 DEF RowsInv
  <2>4. log'[Tag(c[1], c[2])] = log[Tag(c[1], c[2])]
    BY <2>2
  <2>5. Row(c[1], c[2])' = Row(c[1], c[2])
    BY <2>4 DEF Row
  <2>6. LogOf(c, "whisper", "whisper")' /\ LogOf(c, "gem5", Configs[c[1]].core)'
    BY <2>3, <2>4 DEF LogOf
  <2>7. results'[x] = results[x] /\ results'[x].point = c
    BY <2>1
  <2> QED BY <2>3, <2>5, <2>6, <2>7
<1>3. DOMAIN results' = DOMAIN results
  OBVIOUS
<1> QED BY <1>1, <1>2, <1>3 DEF RowsInv

LEMMA BuildKeeps == IndInv /\ Build => IndInv'
<1> SUFFICES ASSUME IndInv, Build PROVE IndInv'
  OBVIOUS
<1>1. /\ pc = "build" /\ pc' = "whisper" /\ v' = v /\ q' = q /\ log' = log /\ results' = results
      /\ binary' \in {None, Flags(v, q)}
  BY DEF Build, Make, Remove
<1>2. PointInv'
  BY <1>1 DEF IndInv, PointInv, Flags
<1>3. Covered' = Covered /\ Covered \subseteq Points
  BY <1>1 DEF Covered
<1>4. RowsInv'
  BY <1>1, <1>3, RowsStay DEF IndInv
<1> QED BY <1>2, <1>4 DEF IndInv

\* A simulator writes the log of the point at work, and no other.
LEMMA Simulated ==
  ASSUME PointInv, pc \in {"whisper", "gem5"}, NEW sim \in Simulators, NEW core, Simulate(sim, core)
  PROVE  /\ DOMAIN log' = Tags /\ \A t \in Tags : DOMAIN log'[t] = Simulators
         /\ \E b \in {None, Flags(v, q)}, n \in 0 .. 15 :
              (b = None => n = 0) /\ log'[Tag(v, q)][sim] = LogFile("this", b, core, n)
         /\ \A s \in Simulators : s # sim => log'[Tag(v, q)][s] = log[Tag(v, q)][s]
         /\ \A a \in Points : a # <<v, q>> => log'[Tag(a[1], a[2])] = log[Tag(a[1], a[2])]
<1>1. PICK n \in IF binary = None THEN {0} ELSE LineCuts :
        log' = [log EXCEPT ![Tag(v, q)][sim] = LogFile("this", binary, core, n)]
  BY DEF Simulate
<1>2. n \in 0 .. 15 /\ (binary = None => n = 0)
  BY <1>1, ConfigsAssumption
<1>3. <<v, q>> \in Points /\ binary \in {None, Flags(v, q)}
  BY DEF PointInv
<1>4. Tag(v, q) \in Tags
  <2>1. <<v, q>>[1] = v /\ <<v, q>>[2] = q
    OBVIOUS
  <2> QED BY <1>3, <2>1, PointFacts
<1>5. DOMAIN log = Tags /\ \A t \in Tags : DOMAIN log[t] = Simulators
  BY DEF PointInv
<1>6. DOMAIN log' = Tags /\ \A t \in Tags : DOMAIN log'[t] = Simulators
  BY <1>1, <1>4, <1>5
<1>7. /\ log'[Tag(v, q)][sim] = LogFile("this", binary, core, n)
      /\ \A s \in Simulators : s # sim => log'[Tag(v, q)][s] = log[Tag(v, q)][s]
      /\ \A t \in Tags : t # Tag(v, q) => log'[t] = log[t]
  BY <1>1, <1>4, <1>5
<1>8. ASSUME NEW a \in Points, a # <<v, q>>
      PROVE  log'[Tag(a[1], a[2])] = log[Tag(a[1], a[2])]
  <2>1. Tag(a[1], a[2]) \in Tags
    BY PointFacts
  <2>2. PICK c \in Points : c = <<v, q>>
    BY <1>3
  <2>3. c[1] = v /\ c[2] = q
    BY <2>2
  <2>4. Tag(a[1], a[2]) # Tag(c[1], c[2])
    BY <1>8, <2>2, TagsDiffer
  <2> QED BY <1>7, <2>1, <2>3, <2>4
<1> QED BY <1>2, <1>3, <1>6, <1>7, <1>8

LEMMA WhisperKeeps == IndInv /\ Whisper => IndInv'
<1> SUFFICES ASSUME IndInv, Whisper PROVE IndInv'
  OBVIOUS
<1>1. /\ pc = "whisper" /\ pc' = "gem5" /\ v' = v /\ q' = q /\ results' = results
      /\ binary' = binary /\ Simulate("whisper", "whisper") /\ "whisper" \in Simulators
  BY DEF Whisper, Simulators
<1>2. PointInv /\ RowsInv
  BY DEF IndInv
<1>3. /\ DOMAIN log' = Tags /\ \A t \in Tags : DOMAIN log'[t] = Simulators
      /\ \E b \in {None, Flags(v, q)}, n \in 0 .. 15 :
           (b = None => n = 0) /\ log'[Tag(v, q)]["whisper"] = LogFile("this", b, "whisper", n)
      /\ \A a \in Points : a # <<v, q>> => log'[Tag(a[1], a[2])] = log[Tag(a[1], a[2])]
  BY <1>1, <1>2, Simulated
<1>4. LogOf(<<v, q>>, "whisper", "whisper")'
  BY <1>1, <1>3 DEF LogOf, LogFile
<1>5. PointInv'
  BY <1>1, <1>2, <1>3, <1>4 DEF PointInv, Flags
<1>6. Covered' = Covered
  BY <1>1 DEF Covered
<1>7. /\ Covered \subseteq Points
      /\ \A a \in Covered : log'[Tag(a[1], a[2])] = log[Tag(a[1], a[2])]
  BY <1>1, <1>2, <1>3, AtWork
<1>8. RowsInv'
  BY <1>1, <1>2, <1>6, <1>7, RowsStay
<1> QED BY <1>5, <1>8 DEF IndInv

LEMMA Gem5Keeps == IndInv /\ Gem5 => IndInv'
<1> SUFFICES ASSUME IndInv, Gem5 PROVE IndInv'
  OBVIOUS
<1>1. /\ pc = "gem5" /\ pc' = "parse" /\ v' = v /\ q' = q /\ results' = results
      /\ binary' = binary /\ Simulate("gem5", Configs[v].core)
      /\ "gem5" \in Simulators /\ "whisper" \in Simulators
  BY DEF Gem5, Simulators
<1>2. PointInv /\ RowsInv
  BY DEF IndInv
<1>3. PICK core : core = Configs[v].core
  OBVIOUS
<1>4. Simulate("gem5", core)
  BY <1>1, <1>3
<1>5. /\ DOMAIN log' = Tags /\ \A t \in Tags : DOMAIN log'[t] = Simulators
      /\ \E b \in {None, Flags(v, q)}, n \in 0 .. 15 :
           (b = None => n = 0) /\ log'[Tag(v, q)]["gem5"] = LogFile("this", b, core, n)
      /\ log'[Tag(v, q)]["whisper"] = log[Tag(v, q)]["whisper"]
      /\ \A a \in Points : a # <<v, q>> => log'[Tag(a[1], a[2])] = log[Tag(a[1], a[2])]
  BY <1>1, <1>2, <1>4, Simulated
<1>6. LogOf(<<v, q>>, "gem5", Configs[v].core)'
  BY <1>1, <1>3, <1>5 DEF LogOf, LogFile
<1>7. LogOf(<<v, q>>, "whisper", "whisper")'
  BY <1>1, <1>2, <1>5 DEF PointInv, LogOf
<1>8. PointInv'
  BY <1>1, <1>2, <1>5, <1>6, <1>7 DEF PointInv, Flags
<1>9. Covered' = Covered
  BY <1>1 DEF Covered
<1>10. /\ Covered \subseteq Points
       /\ \A a \in Covered : log'[Tag(a[1], a[2])] = log[Tag(a[1], a[2])]
  BY <1>1, <1>2, <1>5, AtWork
<1>11. RowsInv'
  BY <1>1, <1>2, <1>9, <1>10, RowsStay
<1> QED BY <1>8, <1>11 DEF IndInv

LEMMA ParseKeeps == IndInv /\ Parse => IndInv'
<1> SUFFICES ASSUME IndInv, Parse PROVE IndInv'
  OBVIOUS
<1>1. /\ pc = "parse" /\ log' = log /\ binary' = binary /\ Advance
      /\ results' = Append(results, Row(v, q))
  BY DEF Parse
<1>2. PointInv /\ RowsInv /\ <<v, q>> \in Points
  BY DEF IndInv, PointInv
<1>3. /\ <<v', q'>> \in Points /\ pc' \in {"build", "summary"}
      /\ pc' = "build" => Earlier(v', q') = Earlier(v, q) \cup {<<v, q>>}
      /\ pc' = "summary" => Points = Earlier(v, q) \cup {<<v, q>>}
  BY <1>1, <1>2, AdvanceFacts
<1>4. PointInv'
  BY <1>1, <1>2, <1>3 DEF PointInv
<1>5. Covered' = Covered \cup {<<v, q>>}
  <2>1. Covered = Earlier(v, q)
    BY <1>1, <1>2, AtWork
  <2> QED BY <1>3, <2>1 DEF Covered, Earlier
<1>6. PICK c \in Points : c = <<v, q>>
  BY <1>2
<1>7. c[1] = v /\ c[2] = q
  BY <1>6
<1>8. /\ LogOf(c, "whisper", "whisper") /\ LogOf(c, "gem5", Configs[c[1]].core)
  BY <1>1, <1>2, <1>6, <1>7 DEF PointInv
<1>9. PICK row : row = Row(c[1], c[2])
  OBVIOUS
<1>10. row.point = c
  BY <1>8, <1>9, RowFacts
<1>11. /\ results' \in Seq(Range(results')) /\ RowsOf(results', Covered \cup {c})
       /\ \A x \in DOMAIN results' :
            (x \in DOMAIN results /\ results'[x] = results[x]) \/ results'[x] = row
  <2>1. \A a \in Covered : Precedes(a, row.point)
    BY <1>1, <1>6, <1>10 DEF Covered
  <2>2. results \in Seq(Range(results)) /\ RowsOf(results, Covered)
    BY <1>2 DEF RowsInv
  <2>3. results' = Append(results, row)
    BY <1>1, <1>7, <1>9
  <2>4. PICK rows, S, new : rows = results /\ S = Covered /\ new = results'
    OBVIOUS
  <2>5. /\ rows \in Seq(Range(rows)) /\ RowsOf(rows, S)
        /\ \A a \in S : Precedes(a, row.point)
        /\ new = Append(rows, row)
    BY <2>1, <2>2, <2>3, <2>4
  <2>6. /\ new \in Seq(Range(new)) /\ RowsOf(new, S \cup {row.point})
        /\ \A x \in DOMAIN new : (x \in DOMAIN rows /\ new[x] = rows[x]) \/ new[x] = row
    <3>1. \A a \in S : Precedes(a, row.point)
      BY <2>5
    <3>2. new \in Seq(Range(new)) /\ RowsOf(new, S \cup {row.point})
      BY <2>5, <3>1, AddRow
    <3>3. \A x \in DOMAIN new : (x \in DOMAIN rows /\ new[x] = rows[x]) \/ new[x] = row
      BY <2>5, <3>1, AddRow
    <3> QED BY <3>2, <3>3
  <2> QED BY <1>10, <2>4, <2>6
<1>12. ASSUME NEW x \in DOMAIN results'
       PROVE  \E a \in Points :
                /\ results'[x].point = a /\ results'[x] = Row(a[1], a[2])
                /\ LogOf(a, "whisper", "whisper") /\ LogOf(a, "gem5", Configs[a[1]].core)
  <2>1. CASE results'[x] = row
    BY <1>8, <1>9, <1>10, <2>1
  <2>2. CASE x \in DOMAIN results /\ results'[x] = results[x]
    <3>1. PICK a : a = results[x].point
      OBVIOUS
    <3>2. a \in Points
      BY <1>2, <2>2, <3>1 DEF RowsInv, RowsOf, Covered
    <3>3. /\ results[x] = Row(a[1], a[2])
          /\ LogOf(a, "whisper", "whisper") /\ LogOf(a, "gem5", Configs[a[1]].core)
      BY <1>2, <2>2, <3>1 DEF RowsInv
    <3> QED BY <2>2, <3>1, <3>2, <3>3
  <2> QED BY <1>11, <2>1, <2>2
<1>13. ASSUME NEW a \in Points
       PROVE  /\ Row(a[1], a[2])' = Row(a[1], a[2])
              /\ \A sim, core : LogOf(a, sim, core)' <=> LogOf(a, sim, core)
  BY <1>1 DEF Row, LogOf
<1>14. RowsInv'
  <2>1. results' \in Seq(Range(results')) /\ RowsOf(results', Covered')
    BY <1>5, <1>6, <1>11
  <2>2. ASSUME NEW x \in DOMAIN results'
        PROVE  \E a : /\ results'[x].point = a /\ results'[x] = Row(a[1], a[2])'
                       /\ LogOf(a, "whisper", "whisper")' /\ LogOf(a, "gem5", Configs[a[1]].core)'
    BY <1>12, <1>13
  <2> QED BY <2>1, <2>2 DEF RowsInv
<1> QED BY <1>4, <1>14 DEF IndInv

LEMMA ParseRaisesKeeps == IndInv /\ ParseRaises => IndInv'
<1> SUFFICES ASSUME IndInv, ParseRaises PROVE IndInv'
  OBVIOUS
<1>1. /\ pc = "parse" /\ pc' = "crashed" /\ v' = v /\ q' = q /\ log' = log /\ results' = results
  BY DEF ParseRaises
<1>2. PointInv'
  BY <1>1 DEF IndInv, PointInv
<1>3. Covered' = Covered /\ Covered \subseteq Points
  BY <1>1 DEF Covered
<1>4. RowsInv'
  BY <1>1, <1>3, RowsStay DEF IndInv
<1> QED BY <1>2, <1>4 DEF IndInv

LEMMA SummarizeKeeps == IndInv /\ Summarize => IndInv'
<1> SUFFICES ASSUME IndInv, Summarize PROVE IndInv'
  OBVIOUS
<1>1. /\ pc = "summary" /\ pc' = "done" /\ v' = v /\ q' = q /\ log' = log /\ results' = results
      /\ summary' = results
  BY DEF Summarize
<1>2. PointInv'
  BY <1>1 DEF IndInv, PointInv
<1>3. Covered' = Covered /\ Covered \subseteq Points
  BY <1>1 DEF Covered
<1>4. RowsInv'
  BY <1>1, <1>3, RowsStay DEF IndInv
<1> QED BY <1>2, <1>4 DEF IndInv

\* sweep.py clean runs no point: there are no rows.
LEMMA CleanKeeps == IndInv /\ Clean => IndInv'
<1> SUFFICES ASSUME IndInv, Clean PROVE IndInv'
  OBVIOUS
<1>1. /\ pc = "clean" /\ pc' = "cleaned" /\ v' = v /\ q' = q /\ results' = results
      /\ log' = [t \in Tags |-> IF t \in TagsOf(VARIANTS) THEN NoLogs[t] ELSE log[t]]
  BY DEF Clean
<1>2. PointInv /\ RowsInv
  BY DEF IndInv
<1>3. results = <<>>
  BY <1>1, <1>2 DEF PointInv
<1>4. DOMAIN log' = Tags /\ \A t \in Tags : DOMAIN log'[t] = Simulators
  BY <1>1, <1>2 DEF PointInv, NoLogs
<1>5. PointInv'
  BY <1>1, <1>2, <1>3, <1>4 DEF PointInv
<1>6. Covered' = Covered /\ Covered \subseteq Points
  BY <1>1 DEF Covered
<1>7. Covered = {}
  <2>1. DOMAIN results = {}
    BY <1>3
  <2> QED BY <1>2, <2>1 DEF RowsInv, RowsOf
<1>8. RowsInv'
  BY <1>1, <1>2, <1>6, <1>7, RowsStay
<1> QED BY <1>5, <1>8 DEF IndInv

LEMMA NextInv == IndInv /\ [Next]_vars => IndInv'
<1> SUFFICES ASSUME IndInv, [Next]_vars PROVE IndInv'
  OBVIOUS
<1>1. CASE vars' = vars
  <2>1. /\ pc' = pc /\ v' = v /\ q' = q /\ binary' = binary /\ log' = log
        /\ results' = results /\ summary' = summary
    BY <1>1 DEF vars
  <2>2. PointInv'
    BY <2>1 DEF IndInv, PointInv, LogOf
  <2>3. Covered' = Covered /\ Covered \subseteq Points
    BY <2>1 DEF Covered
  <2>4. RowsInv'
    BY <2>1, <2>3, RowsStay DEF IndInv
  <2> QED BY <2>2, <2>4 DEF IndInv
<1> QED BY <1>1, BuildKeeps, WhisperKeeps, Gem5Keeps, ParseKeeps, ParseRaisesKeeps,
           SummarizeKeeps, CleanKeeps DEF Next

\* The rows of a sweep are at every moment those of the points it has been
\* through, once each and in the order of the loops, and each row is what the
\* two logs of its point still say; those logs were written in this sweep, by
\* a binary of that point or without any (sweep.py:140-255).
THEOREM Invariance == Spec => []IndInv
<1>1. Init => IndInv
  BY InitInv
<1>2. IndInv /\ [Next]_vars => IndInv'
  BY NextInv
<1> QED BY <1>1, <1>2, PTL DEF Spec

-----------------------------------------------------------------------------
(* What the invariant says of the rows.                                    *)

\* A row of the results, and where it comes from.
LEMMA RowPoint ==
  ASSUME IndInv, NEW x \in DOMAIN results
  PROVE  \E a \in Points :
           /\ results[x].point = a /\ results[x] = Row(a[1], a[2])
           /\ LogOf(a, "whisper", "whisper") /\ LogOf(a, "gem5", Configs[a[1]].core)
<1>1. PICK a : a = results[x].point
  OBVIOUS
<1>2. a \in Points
  BY <1>1 DEF IndInv, RowsInv, RowsOf, Covered
<1> QED BY <1>1, <1>2 DEF IndInv, RowsInv

LEMMA FaithfulState == IndInv => RowsFaithful
<1> SUFFICES ASSUME IndInv, NEW x \in DOMAIN results, NEW e \in Measured(results[x])
             PROVE  LET row == results[x]
                        p == row.point
                    IN  /\ e.run = "this"
                        /\ e.flags = Flags(p[1], p[2])
                        /\ e.kernel = Configs[p[1]].kernel
                        /\ e.core = IF e \in {row.mcycle, row.minstret}
                                    THEN Configs[p[1]].core ELSE "whisper"
  BY DEF RowsFaithful
<1>1. PICK a \in Points :
        /\ results[x].point = a /\ results[x] = Row(a[1], a[2])
        /\ LogOf(a, "whisper", "whisper") /\ LogOf(a, "gem5", Configs[a[1]].core)
  BY RowPoint
<1>2. PICK row : row = results[x]
  OBVIOUS
<1> DEFINE G == Value(a, "gem5", Configs[a[1]].core)
           W == Value(a, "whisper", "whisper")
<1>3. /\ row.mcycle \in {None, G} /\ row.minstret \in {None, G}
      /\ row.VecLoad \in {None, W} /\ row.VecStore \in {None, W}
      /\ row.bytes_Q \subseteq {row.VecLoad, row.VecStore}
      /\ row.cyc_load \subseteq {row.mcycle, row.VecLoad}
  BY <1>1, <1>2, RowFacts
<1>4. /\ G.run = "this" /\ G.flags = Flags(a[1], a[2]) /\ G.kernel = Configs[a[1]].kernel
      /\ G.core = Configs[a[1]].core /\ G.sim = "gem5"
      /\ W.run = "this" /\ W.flags = Flags(a[1], a[2]) /\ W.kernel = Configs[a[1]].kernel
      /\ W.core = "whisper" /\ W.sim = "whisper"
  BY DEF Value
<1> HIDE DEF G, W
<1>5. G # W
  BY <1>4
<1>6. e # None /\ e \in {row.mcycle, row.minstret, row.VecLoad, row.VecStore} \cup row.bytes_Q \cup row.cyc_load
  BY <1>2 DEF Measured
<1>7. e \in {G, W}
  BY <1>3, <1>6
<1>8. e = G => e \in {row.mcycle, row.minstret}
  BY <1>3, <1>5, <1>6
<1>9. e = W => e \notin {row.mcycle, row.minstret}
  BY <1>3, <1>5, <1>6
<1> QED BY <1>1, <1>2, <1>4, <1>7, <1>8, <1>9

LEMMA HonestState == IndInv => NAOnlyIfMissing
<1> SUFFICES ASSUME IndInv, NEW x \in DOMAIN results
             PROVE  LET row  == results[x]
                        logs == log[Tag(row.point[1], row.point[2])]
                        before == 5 * KERNEL_OCCURRENCE[Configs[row.point[1]].kernel]
                    IN  /\ row.mcycle   = None <=> logs["gem5"].lines < before + 1
                        /\ row.minstret = None <=> logs["gem5"].lines < before + 2
                        /\ row.VecLoad  = None <=> logs["whisper"].lines < before + 4
                        /\ row.VecStore = None <=> logs["whisper"].lines < before + 5
  BY DEF NAOnlyIfMissing
<1>1. PICK a \in Points :
        /\ results[x].point = a /\ results[x] = Row(a[1], a[2])
        /\ LogOf(a, "whisper", "whisper") /\ LogOf(a, "gem5", Configs[a[1]].core)
  BY RowPoint
<1> QED BY <1>1, RowFacts

LEMMA CompleteState == IndInv => SummaryComplete
BY DEF IndInv, PointInv, RowsInv, Covered, SummaryComplete

\* No number in a row was measured by an earlier sweep, on a binary built for
\* another point, on the wrong core or for the wrong kernel, whichever
\* programs fail (sweep.py:163-239).
THEOREM RowsAreFaithful == Spec => []RowsFaithful
<1>1. IndInv => RowsFaithful
  BY FaithfulState
<1> QED BY <1>1, Invariance, PTL

\* A column is empty exactly when the log of that point ended before the line
\* of the variant's kernel (sweep.py:157-161, 213-216).
THEOREM HonestNA == Spec => []NAOnlyIfMissing
<1>1. IndInv => NAOnlyIfMissing
  BY HonestState
<1> QED BY <1>1, Invariance, PTL

\* A sweep that reaches its end has written a row for every point of every
\* enabled variant, in the order of the loops (sweep.py:246-255, 297-313).
THEOREM CompleteSummary == Spec => []SummaryComplete
<1>1. IndInv => SummaryComplete
  BY CompleteState
<1> QED BY <1>1, Invariance, PTL
=============================================================================
