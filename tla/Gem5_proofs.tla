----------------------------- MODULE Gem5_proofs -----------------------------
(***************************************************************************)
(* What is proved of the simulated machine and of what is read from it:    *)
(* the sections of stats.txt show what their comment says, for every       *)
(* number of sets and ways and every placement of the data; the cores keep *)
(* their order, the superscalar one issues in pairs, and one pipe takes a  *)
(* stream at the pace its comments promise, for every configuration and    *)
(* every program; and the trace analyzer's counts mean what it says of     *)
(* them, for every trace a core leaves.                                    *)
(***************************************************************************)
EXTENDS Hroofline, Pipeview, FiniteSetTheorems, WellFoundedInduction, NaturalsInduction,
        SequenceTheorems, TLAPS

-----------------------------------------------------------------------------
(* Places and sizes.                                                       *)

LEMMA Sizes ==
  /\ SETS \in Nat \ {0} /\ WAYS \in Nat \ {0} /\ Out = WAYS + 1 /\ Out \in Nat
  /\ Half \in Nat /\ EvictLines = 2 * Half /\ EvictLines \in Nat
<1>1. SETS \in Nat \ {0} /\ WAYS \in Nat \ {0}
  BY PlacesAssumption
<1>2. SETS * WAYS \in Nat
  BY <1>1
<1>3. 2 * SETS * WAYS = 2 * (SETS * WAYS)
  BY <1>1
<1> QED BY <1>1, <1>2, <1>3 DEF Half, EvictLines, Out

LEMMA PlaceFacts ==
  ASSUME NEW p \in Places
  PROVE  /\ Lines(p) \subseteq Nat /\ p.evict \in Nat
         /\ Own(p) \subseteq Lines(p) /\ EvictBuf(p) \subseteq Lines(p)
         /\ Kernels(p) \subseteq Own(p) /\ Matrices(p) \subseteq Kernels(p)
         /\ p.C \subseteq Matrices(p) /\ p.A \subseteq Matrices(p) /\ p.B \subseteq Matrices(p)
         /\ p.stack \subseteq Kernels(p)
         /\ p.counters \in Own(p) /\ p.results \in Own(p) /\ p.sink \in Own(p)
         /\ Own(p) \cap EvictBuf(p) = {} /\ p.C \cap (p.A \cup p.B) = {}
         /\ Matrices(p) \cap (p.stack \cup {p.counters, p.results, p.sink}) = {}
         /\ Lines(p) = Own(p) \cup EvictBuf(p)
BY PlacesAssumption DEF Lines, Own, Kernels, Matrices

\* A set has room for all of the program's own lines that are mapped to it.
LEMMA RoomForOwn ==
  ASSUME NEW p \in Places, NEW y \in Own(p)
  PROVE  /\ IsFiniteSet(SameSet(Own(p), y))
         /\ Cardinality(SameSet(Own(p), y)) <= WAYS
<1>1. Index(y) \in 0 .. SETS - 1
  BY Sizes, PlaceFacts DEF Index
<1>2. /\ IsFiniteSet(Own(p))
      /\ \A s \in 0 .. SETS - 1 : Cardinality({x \in Own(p) : Index(x) = s}) <= WAYS
  BY PlacesAssumption
<1>3. SameSet(Own(p), y) \in SUBSET Own(p)
  BY DEF SameSet
<1>4. IsFiniteSet(SameSet(Own(p), y))
  BY <1>2, <1>3, FS_Subset
<1> QED BY <1>1, <1>2, <1>4 DEF SameSet

-----------------------------------------------------------------------------
(* One access.                                                             *)

\* What an access to x throws out.
Evicted(m, x, y) == Index(y) = Index(x) /\ m.age[y] < m.age[x] /\ m.age[y] = WAYS

LEMMA AccessFacts ==
  ASSUME NEW p, NEW m, CacheInv(p, m), NEW x \in Lines(p), NEW op,
         NEW n, n = Access(m, x, op), NEW y \in Lines(p)
  PROVE  /\ n.age[y] = IF y = x THEN 1
                       ELSE IF Index(y) = Index(x) /\ m.age[y] < m.age[x] THEN m.age[y] + 1
                       ELSE m.age[y]
         /\ y \in n.dirty <=> \/ y \in m.dirty /\ ~Evicted(m, x, y)
                              \/ op = "write" /\ y = x
         /\ n.fills[y] = IF y = x /\ m.age[x] = Out THEN m.fills[y] + 1 ELSE m.fills[y]
         /\ n.writebacks[y] = IF Evicted(m, x, y) /\ y \in m.dirty THEN m.writebacks[y] + 1
                              ELSE m.writebacks[y]
<1>1. /\ DOMAIN m.age = Lines(p) /\ DOMAIN m.fills = Lines(p) /\ DOMAIN m.writebacks = Lines(p)
  BY DEF CacheInv
<1>2. n.dirty = {z \in m.dirty : ~Evicted(m, x, z)} \cup (IF op = "write" THEN {x} ELSE {})
  BY DEF Access, Evicted
<1> QED BY <1>1, <1>2 DEF Access, Evicted

\* The lines that an access leaves in the cache.
LEMMA AccessAges ==
  ASSUME NEW p, NEW m, CacheInv(p, m), NEW x \in Lines(p), NEW op,
         NEW n, n = Access(m, x, op), NEW y \in Lines(p)
  PROVE  /\ m.age[y] \in 1 .. Out /\ n.age[y] \in 1 .. Out
         /\ Resident(n, y) <=> y = x \/ (Resident(m, y) /\ ~Evicted(m, x, y))
<1>1. m.age[y] \in 1 .. Out /\ m.age[x] \in 1 .. Out
  BY DEF CacheInv
<1>2. n.age[y] = IF y = x THEN 1
                 ELSE IF Index(y) = Index(x) /\ m.age[y] < m.age[x] THEN m.age[y] + 1
                 ELSE m.age[y]
  BY AccessFacts
<1> QED BY <1>1, <1>2, Sizes DEF Resident, Evicted

LEMMA AccessCache ==
  ASSUME NEW p, NEW m, CacheInv(p, m), NEW x \in Lines(p), NEW op
  PROVE  CacheInv(p, Access(m, x, op))
<1> DEFINE n == Access(m, x, op)
<1>0. n = Access(m, x, op)
  OBVIOUS
<1>1. /\ DOMAIN m.age = Lines(p) /\ DOMAIN m.fills = Lines(p) /\ DOMAIN m.writebacks = Lines(p)
      /\ m.fills \in [Lines(p) -> Nat] /\ m.writebacks \in [Lines(p) -> Nat]
      /\ m.dirty \subseteq Lines(p)
  BY DEF CacheInv
<1>2. /\ n.age = [y \in Lines(p) |-> n.age[y]] /\ n.fills = [y \in Lines(p) |-> n.fills[y]]
      /\ n.writebacks = [y \in Lines(p) |-> n.writebacks[y]] /\ n.dirty \subseteq Lines(p)
  BY <1>1 DEF Access
<1> HIDE DEF n
<1>3. \A y \in Lines(p) : n.age[y] \in 1 .. Out
  BY <1>0, AccessAges
<1>4. \A y \in Lines(p) : n.fills[y] \in Nat /\ n.writebacks[y] \in Nat
  <2> SUFFICES ASSUME NEW y \in Lines(p) PROVE n.fills[y] \in Nat /\ n.writebacks[y] \in Nat
    OBVIOUS
  <2>1. m.fills[y] \in Nat /\ m.writebacks[y] \in Nat
    BY <1>1
  <2> QED BY <1>0, <2>1, AccessFacts
<1>5. ASSUME NEW y \in Lines(p), NEW z \in Lines(p),
             y # z, Index(y) = Index(z), n.age[y] = n.age[z]
      PROVE  ~Resident(n, y)
  <2>1. /\ m.age[y] \in 1 .. Out /\ m.age[z] \in 1 .. Out /\ m.age[x] \in 1 .. Out
    BY DEF CacheInv
  <2>2. /\ n.age[y] = IF y = x THEN 1
                      ELSE IF Index(y) = Index(x) /\ m.age[y] < m.age[x] THEN m.age[y] + 1
                      ELSE m.age[y]
        /\ n.age[z] = IF z = x THEN 1
                      ELSE IF Index(z) = Index(x) /\ m.age[z] < m.age[x] THEN m.age[z] + 1
                      ELSE m.age[z]
    BY <1>0, AccessFacts
  <2>3. m.age[y] = m.age[z] => m.age[y] = Out
    BY <1>5 DEF CacheInv, Resident
  <2>4. /\ Index(y) = Index(x) /\ y # x /\ m.age[y] = m.age[x] => m.age[y] = Out
        /\ Index(z) = Index(x) /\ z # x /\ m.age[z] = m.age[x] => m.age[z] = Out
    BY DEF CacheInv, Resident
  <2>5. n.age[y] = n.age[z] /\ Index(y) = Index(z) /\ y # z
    BY <1>5
  <2>6. CASE y = x
    BY <2>1, <2>2, <2>4, <2>5, <2>6, Sizes
  <2>7. CASE z = x
    BY <2>1, <2>2, <2>4, <2>5, <2>7, Sizes
  <2>8. CASE y # x /\ z # x
    <3>1. n.age[y] = Out
      BY <2>1, <2>2, <2>3, <2>4, <2>5, <2>8, Sizes
    <3> QED BY <3>1 DEF Resident
  <2> QED BY <2>6, <2>7, <2>8
<1>6. ASSUME NEW y \in n.dirty PROVE Resident(n, y)
  <2>1. y \in Lines(p)
    BY <1>2
  <2>2. y \in m.dirty => Resident(m, y)
    BY DEF CacheInv
  <2>3. (y \in m.dirty /\ ~Evicted(m, x, y)) \/ y = x
    BY <1>0, <1>6, <2>1, AccessFacts
  <2>4. Resident(n, y) <=> y = x \/ (Resident(m, y) /\ ~Evicted(m, x, y))
    BY <1>0, <2>1, AccessAges
  <2> QED BY <2>2, <2>3, <2>4
<1>7. n.age \in [Lines(p) -> 1 .. Out]
  BY <1>2, <1>3
<1>8. n.fills \in [Lines(p) -> Nat] /\ n.writebacks \in [Lines(p) -> Nat]
  BY <1>2, <1>4
<1>9. n = [age |-> n.age, dirty |-> n.dirty, fills |-> n.fills, writebacks |-> n.writebacks]
  BY <1>0 DEF Access
<1>10. n \in [age : [Lines(p) -> 1 .. Out], dirty : SUBSET Lines(p),
               fills : [Lines(p) -> Nat], writebacks : [Lines(p) -> Nat]]
  BY <1>2, <1>7, <1>8, <1>9
<1>11. CacheInv(p, n)
  BY <1>5, <1>6, <1>10 DEF CacheInv
<1> QED BY <1>11 DEF n

-----------------------------------------------------------------------------
(* An eviction.                                                            *)

\* One more line is read that was not read before: what has not been read
\* since the first of them is older still.
LEMMA OlderGrows ==
  ASSUME NEW p, NEW m, CacheInv(p, m), NEW S, IsFiniteSet(S), Older(p, m, S),
         NEW x \in Lines(p) \ S, NEW op
  PROVE  Older(p, Access(m, x, op), S \cup {x})
<1> DEFINE n == Access(m, x, op)
<1>0. n = Access(m, x, op)
  OBVIOUS
<1> HIDE DEF n
<1> SUFFICES ASSUME NEW y \in Lines(p) \ (S \cup {x}), Resident(n, y)
             PROVE  n.age[y] > Cardinality(SameSet(S \cup {x}, y))
  BY <1>0 DEF Older
<1>1. /\ m.age[y] \in 1 .. Out /\ m.age[x] \in 1 .. Out
      /\ Resident(m, y) /\ ~Evicted(m, x, y)
  <2>1. m.age[y] \in 1 .. Out /\ m.age[x] \in 1 .. Out
    BY DEF CacheInv
  <2> QED BY <1>0, <2>1, AccessAges
<1>2. n.age[y] = IF Index(y) = Index(x) /\ m.age[y] < m.age[x] THEN m.age[y] + 1
                 ELSE m.age[y]
  BY <1>0, AccessFacts
<1>3. m.age[y] > Cardinality(SameSet(S, y))
  BY <1>1 DEF Older
<1>4. IsFiniteSet(SameSet(S, y)) /\ Cardinality(SameSet(S, y)) \in Nat
  <2>1. SameSet(S, y) \in SUBSET S
    BY DEF SameSet
  <2> QED BY <2>1, FS_Subset, FS_CardinalityType
<1>5. CASE Index(y) # Index(x)
  <2>1. SameSet(S \cup {x}, y) = SameSet(S, y)
    BY <1>5 DEF SameSet
  <2> QED BY <1>2, <1>3, <1>5, <2>1
<1>6. CASE Index(y) = Index(x)
  <2>1. SameSet(S \cup {x}, y) = SameSet(S, y) \cup {x} /\ x \notin SameSet(S, y)
    BY <1>6 DEF SameSet
  <2>2. Cardinality(SameSet(S \cup {x}, y)) = Cardinality(SameSet(S, y)) + 1
    BY <1>4, <2>1, FS_AddElement
  <2>3. m.age[x] > Cardinality(SameSet(S, y))
    <3>1. CASE Resident(m, x)
      <4>1. m.age[x] > Cardinality(SameSet(S, x))
        BY <3>1 DEF Older
      <4> QED BY <1>6, <4>1 DEF SameSet
    <3>2. CASE ~Resident(m, x)
      BY <1>1, <1>3, <1>4, <3>2, Sizes DEF Resident
    <3> QED BY <3>1, <3>2
  <2>4. m.age[y] # m.age[x]
    BY <1>1, <1>6 DEF CacheInv
  <2> QED BY <1>1, <1>2, <1>3, <1>4, <1>6, <2>2, <2>3, <2>4
<1> QED BY <1>5, <1>6

\* Every line is older than nothing.
LEMMA OlderNothing ==
  ASSUME NEW p, NEW m, CacheInv(p, m)
  PROVE  Older(p, m, {})
<1> SUFFICES ASSUME NEW y \in Lines(p)
             PROVE  m.age[y] > Cardinality(SameSet({}, y))
  BY DEF Older
<1>1. SameSet({}, y) = {}
  BY DEF SameSet
<1>2. m.age[y] \in 1 .. Out
  BY DEF CacheInv
<1> QED BY <1>1, <1>2, FS_EmptySet, Sizes

LEMMA Division ==
  ASSUME NEW x \in Int
  PROVE  /\ x \div SETS \in Int /\ x % SETS \in 0 .. SETS - 1
         /\ x = SETS * (x \div SETS) + (x % SETS)
<1>1. SETS \in Nat \ {0}
  BY Sizes
<1> QED BY <1>1

\* What is left of a number after whole rounds of SETS.
LEMMA RoundsKeepIndex ==
  ASSUME NEW turns \in Int, NEW r \in 0 .. SETS - 1
  PROVE  Index(turns * SETS + r) = r
<1> DEFINE x == turns * SETS + r
           d == x \div SETS
           g == turns - d
<1>1. x \in Int /\ SETS \in Nat \ {0}
  BY Sizes
<1>2. d \in Int /\ x % SETS \in 0 .. SETS - 1 /\ x = SETS * d + (x % SETS)
  <2> HIDE DEF x
  <2> QED BY <1>1, Division
<1>3. g \in Int /\ SETS * g = (x % SETS) - r
  BY <1>1, <1>2
<1>4. ~(g >= 1)
  <2> SUFFICES ASSUME g >= 1 PROVE FALSE
    OBVIOUS
  <2>1. SETS * g >= SETS
    BY <1>1, <1>3
  <2> QED BY <1>1, <1>2, <1>3, <2>1
<1>5. ~(g <= -1)
  <2> SUFFICES ASSUME g <= -1 PROVE FALSE
    OBVIOUS
  <2>1. SETS * g <= -SETS
    BY <1>1, <1>3
  <2> QED BY <1>1, <1>2, <1>3, <2>1
<1>6. g = 0
  BY <1>3, <1>4, <1>5
<1>7. x % SETS = r
  BY <1>1, <1>2, <1>3, <1>6
<1> QED BY <1>7 DEF Index

\* Half lines on end fill every set.
LEMMA HalfFillsSets ==
  ASSUME NEW base \in Nat, NEW y \in Nat
  PROVE  /\ IsFiniteSet(SameSet(base .. base + Half - 1, y))
         /\ WAYS <= Cardinality(SameSet(base .. base + Half - 1, y))
<1> DEFINE S == base .. base + Half - 1
           o == (y - base) % SETS
           turns == (y - base) \div SETS
           f == [j \in 1 .. WAYS |-> base + o + (j - 1) * SETS]
<1>1. /\ SETS \in Nat \ {0} /\ WAYS \in Nat \ {0} /\ Half \in Nat /\ Half = SETS * WAYS
  BY Sizes DEF Half
<1>2. o \in 0 .. SETS - 1 /\ turns \in Int /\ y - base = SETS * turns + o
  BY <1>1
<1>3. IsFiniteSet(S)
  BY <1>1, FS_Interval
<1>4. SameSet(S, y) \in SUBSET S
  BY DEF SameSet
<1>5. IsFiniteSet(SameSet(S, y))
  BY <1>3, <1>4, FS_Subset
<1>6. ASSUME NEW j \in 1 .. WAYS
      PROVE  f[j] \in SameSet(S, y)
  <2> DEFINE d == y \div SETS
             r == y % SETS
             t == (j - 1) * SETS
  <2>1. d \in Int /\ r \in 0 .. SETS - 1 /\ y = SETS * d + r
    BY <1>1, Division
  <2>2. t \in Int /\ 0 <= t
    BY <1>1
  <2>3. t <= Half - SETS
    <3>1. (WAYS - j) * SETS >= 0
      BY <1>1
    <3>2. (WAYS - j) * SETS = WAYS * SETS - SETS - t
      BY <1>1
    <3> QED BY <1>1, <3>1, <3>2
  <2>4. f[j] \in S
    <3> HIDE DEF t, o
    <3>1. f[j] = base + o + t
      BY DEF t
    <3> QED BY <1>1, <1>2, <2>2, <2>3, <3>1
  <2>5. f[j] = (d + (j - 1) - turns) * SETS + r
    <3>1. (d + (j - 1) - turns) * SETS = SETS * d + t - SETS * turns
      <4> HIDE DEF d, turns
      <4>1. SETS \in Int /\ d \in Int /\ turns \in Int /\ j \in Int
        BY <1>1, <1>2, <2>1
      <4> QED BY <4>1
    <3>2. f[j] = base + o + t
      OBVIOUS
    <3> HIDE DEF t, o, turns, d, r
    <3> QED BY <1>1, <1>2, <2>1, <2>2, <3>1, <3>2
  <2>6. d + (j - 1) - turns \in Int
    BY <1>2, <2>1
  <2>7. Index(f[j]) = r
    BY <2>1, <2>5, <2>6, RoundsKeepIndex
  <2> QED BY <2>4, <2>7 DEF SameSet, Index
<1>7. ASSUME NEW i \in 1 .. WAYS, NEW j \in 1 .. WAYS, f[i] = f[j]
      PROVE  i = j
  <2>1. (i - 1) * SETS = (j - 1) * SETS
    BY <1>1, <1>2, <1>7
  <2>2. (i - j) * SETS = 0
    BY <1>1, <2>1
  <2> QED BY <1>1, <2>2
<1>8. f \in Injection(1 .. WAYS, SameSet(S, y))
  BY <1>6, <1>7 DEF Injection, IsInjective
<1>9. Cardinality(1 .. WAYS) = WAYS
  BY <1>1, FS_Interval
<1> QED BY <1>5, <1>8, <1>9, FS_Injection

-----------------------------------------------------------------------------
(* The program's own accesses.                                             *)

\* The operations, by their numbers.
LEMMA ProgramSteps ==
  ASSUME step \in 1 .. 20
  PROVE  /\ Running("zero .bss") => step = 1
         /\ Running("copy .data") => step = 2
         /\ Running("evict") => step \in {3, 11}
         /\ Running("reset") => step \in {4, 10, 14}
         /\ Running("counters") => step \in {5, 7, 15, 17}
         /\ Running("kernel") => step \in {6, 13, 16}
         /\ Running("dump") => step \in {8, 12, 18}
         /\ Running("results") => step \in {9, 19}
<1>1. DOMAIN Program = 1 .. 19
  BY DEF rl_call, roofline_main, Program
<1>2. /\ Program[1] = "zero .bss" /\ Program[2] = "copy .data" /\ Program[3] = "evict"
      /\ Program[4] = "reset" /\ Program[5] = "counters" /\ Program[6] = "kernel"
      /\ Program[7] = "counters" /\ Program[8] = "dump"
  BY DEF rl_call, roofline_main, Program
<1>3. /\ Program[9] = "results" /\ Program[10] = "reset" /\ Program[11] = "evict"
      /\ Program[12] = "dump" /\ Program[13] = "kernel"
  BY DEF rl_call, roofline_main, Program
<1>4. /\ Program[14] = "reset" /\ Program[15] = "counters" /\ Program[16] = "kernel"
      /\ Program[17] = "counters" /\ Program[18] = "dump" /\ Program[19] = "results"
  BY DEF rl_call, roofline_main, Program
<1>5. CASE step = 1 \/ step = 2 \/ step = 3 \/ step = 4
  BY <1>2, <1>5 DEF Running
<1>6. CASE step = 5 \/ step = 6 \/ step = 7 \/ step = 8
  BY <1>2, <1>6 DEF Running
<1>7. CASE step = 9 \/ step = 10 \/ step = 11 \/ step = 12 \/ step = 13
  BY <1>3, <1>7 DEF Running
<1>8. CASE step = 14 \/ step = 15 \/ step = 16 \/ step = 17 \/ step = 18 \/ step = 19
  BY <1>4, <1>8 DEF Running
<1>9. CASE step = 20
  BY <1>1, <1>9 DEF Running
<1>10. \/ step = 1 \/ step = 2 \/ step = 3 \/ step = 4
       \/ step = 5 \/ step = 6 \/ step = 7 \/ step = 8
       \/ step = 9 \/ step = 10 \/ step = 11 \/ step = 12 \/ step = 13
       \/ step = 14 \/ step = 15 \/ step = 16 \/ step = 17 \/ step = 18 \/ step = 19
       \/ step = 20
  OBVIOUS
<1> QED BY ONLY <1>5, <1>6, <1>7, <1>8, <1>9, <1>10

\* An access to one of the program's own lines throws none of them out.
LEMMA OwnStays ==
  ASSUME NEW p \in Places, NEW m, CacheInv(p, m), OwnInv(p, m), NEW x \in Own(p),
         NEW y \in Own(p), Resident(m, y)
  PROVE  ~Evicted(m, x, y)
<1> SUFFICES ASSUME Evicted(m, x, y) PROVE FALSE
  OBVIOUS
<1> DEFINE S == SameSet(ResidentOwn(p, m), y)
           T == SameSet(Own(p), y)
<1>1. x \in Lines(p) /\ y \in Lines(p)
  BY PlaceFacts
<1>2. m.age[y] \in 1 .. Out /\ m.age[x] \in 1 .. Out
  BY <1>1 DEF CacheInv
<1>3. m.age[x] = Out /\ Index(y) = Index(x) /\ m.age[y] = WAYS
  BY <1>2, Sizes DEF Evicted
<1>4. IsFiniteSet(T) /\ Cardinality(T) <= WAYS
  BY RoomForOwn
<1>5. x \in T /\ x \notin S /\ S \subseteq T
  BY <1>3 DEF SameSet, ResidentOwn, Resident
<1>6. Cardinality(T \ {x}) = Cardinality(T) - 1 /\ IsFiniteSet(T \ {x})
  BY <1>4, <1>5, FS_RemoveElement
<1>7. S \in SUBSET (T \ {x})
  BY <1>5
<1>8. Cardinality(S) <= Cardinality(T \ {x})
  BY <1>6, <1>7, FS_Subset
<1>9. m.age[y] <= Cardinality(S)
  BY DEF OwnInv, ResidentOwn
<1>10. Cardinality(S) \in Nat /\ Cardinality(T) \in Nat
  BY <1>4, <1>6, <1>7, FS_Subset, FS_CardinalityType
<1> QED BY <1>3, <1>4, <1>6, <1>8, <1>9, <1>10, Sizes

LEMMA OwnAccess ==
  ASSUME NEW p \in Places, NEW m, CacheInv(p, m), OwnInv(p, m),
         NEW x \in Own(p), NEW op, NEW n, n = Access(m, x, op)
  PROVE  /\ CacheInv(p, n) /\ OwnInv(p, n)
         /\ \A y \in Own(p) : Resident(n, y) <=> y = x \/ Resident(m, y)
<1>1. x \in Lines(p) /\ Own(p) \subseteq Lines(p)
  BY PlaceFacts
<1>2. CacheInv(p, n)
  BY <1>1, AccessCache
<1>3. ASSUME NEW y \in Own(p)
      PROVE  Resident(n, y) <=> y = x \/ Resident(m, y)
  BY <1>1, AccessAges, OwnStays
<1>4. ResidentOwn(p, n) = ResidentOwn(p, m) \cup {x}
  BY <1>3 DEF ResidentOwn
<1>5. ASSUME NEW y \in ResidentOwn(p, n)
      PROVE  n.age[y] <= Cardinality(SameSet(ResidentOwn(p, n), y))
  <2> DEFINE S == SameSet(ResidentOwn(p, m), y)
             T == SameSet(ResidentOwn(p, n), y)
  <2>1. y \in Own(p)
    BY <1>5 DEF ResidentOwn
  <2>2. IsFiniteSet(SameSet(Own(p), y))
    BY <2>1, RoomForOwn
  <2>3. T \in SUBSET SameSet(Own(p), y) /\ S \in SUBSET T
    BY <1>4 DEF SameSet, ResidentOwn
  <2>4. IsFiniteSet(T) /\ IsFiniteSet(S) /\ Cardinality(S) \in Nat /\ Cardinality(T) \in Nat
        /\ Cardinality(S) <= Cardinality(T)
    BY <2>2, <2>3, FS_Subset, FS_CardinalityType
  <2>5. n.age[y] = IF y = x THEN 1
                   ELSE IF Index(y) = Index(x) /\ m.age[y] < m.age[x] THEN m.age[y] + 1
                   ELSE m.age[y]
    BY <1>1, <2>1, AccessFacts
  <2>6. m.age[y] \in 1 .. Out /\ m.age[x] \in 1 .. Out
    BY <1>1, <2>1 DEF CacheInv
  <2>7. CASE y = x
    <3>1. Cardinality(T) # 0
      BY <2>4, <1>5, FS_EmptySet DEF SameSet
    <3> QED BY <2>4, <2>5, <2>7, <3>1
  <2>8. CASE y # x
    <3>1. y \in ResidentOwn(p, m)
      BY <1>4, <1>5, <2>8
    <3>2. m.age[y] <= Cardinality(S)
      BY <3>1 DEF OwnInv
    <3>3. CASE Index(y) = Index(x) /\ ~Resident(m, x)
      <4>1. T = S \cup {x} /\ x \notin S
        BY <1>4, <3>3 DEF SameSet, ResidentOwn
      <4>2. Cardinality(T) = Cardinality(S) + 1
        BY <2>4, <4>1, FS_AddElement
      <4> QED BY <2>4, <2>5, <2>6, <3>2, <4>2
    <3>4. CASE Index(y) # Index(x)
      BY <2>4, <2>5, <2>6, <2>8, <3>2, <3>4
    <3>5. CASE Index(y) = Index(x) /\ Resident(m, x)
      <4>1. x \in ResidentOwn(p, m)
        BY <3>5 DEF ResidentOwn
      <4>2. m.age[x] <= Cardinality(SameSet(ResidentOwn(p, m), x))
        BY <4>1 DEF OwnInv
      <4>3. SameSet(ResidentOwn(p, m), x) = S
        BY <3>5 DEF SameSet
      <4> QED BY <2>4, <2>5, <2>6, <2>8, <3>2, <4>2, <4>3
    <3> QED BY <3>3, <3>4, <3>5
  <2> QED BY <2>7, <2>8
<1>6. OwnInv(p, n)
  BY <1>5 DEF OwnInv
<1> QED BY <1>2, <1>3, <1>6

\* Only a line of the eviction buffer can leave, and it is clean: such an
\* access has no write-back.
LEMMA OwnTraffic ==
  ASSUME NEW p \in Places, NEW m, CacheInv(p, m), OwnInv(p, m), CleanInv(p, m),
         NEW x \in Own(p), NEW op, NEW n, n = Access(m, x, op)
  PROVE  /\ n.dirty = m.dirty \cup (IF op = "write" THEN {x} ELSE {})
         /\ \A y \in Lines(p) : n.writebacks[y] = m.writebacks[y]
         /\ \A y \in Lines(p) : n.fills[y] = IF y = x /\ ~Resident(m, x) THEN m.fills[y] + 1
                                             ELSE m.fills[y]
         /\ (op = "write" => x \notin p.A \cup p.B) => CleanInv(p, n)
<1>1. /\ x \in Lines(p) /\ Lines(p) = Own(p) \cup EvictBuf(p)
      /\ Own(p) \cap EvictBuf(p) = {}
  BY PlaceFacts
<1>2. ASSUME NEW y \in m.dirty PROVE ~Evicted(m, x, y)
  <2>1. y \in Own(p) /\ Resident(m, y)
    BY <1>1 DEF CacheInv, CleanInv
  <2> QED BY <2>1, OwnStays
<1>3. m.dirty \subseteq Lines(p) /\ CacheInv(p, n)
  BY <1>1, AccessCache DEF CacheInv
<1>4. n.dirty \subseteq Lines(p)
  BY <1>3 DEF CacheInv
<1>5. ASSUME NEW y \in Lines(p)
      PROVE  /\ y \in n.dirty <=> y \in m.dirty \/ (op = "write" /\ y = x)
             /\ n.writebacks[y] = m.writebacks[y]
             /\ n.fills[y] = IF y = x /\ ~Resident(m, x) THEN m.fills[y] + 1 ELSE m.fills[y]
  BY <1>1, <1>2, AccessFacts DEF Resident
<1>6. n.dirty = m.dirty \cup (IF op = "write" THEN {x} ELSE {})
  BY <1>1, <1>3, <1>4, <1>5
<1>7. (op = "write" => x \notin p.A \cup p.B) => CleanInv(p, n)
  BY <1>1, <1>6 DEF CleanInv
<1> QED BY <1>5, <1>6, <1>7

-----------------------------------------------------------------------------
(* One line of an eviction, and its end.                                   *)

\* Half lines on end that are younger than all others are all there is.
LEMMA YoungHalf ==
  ASSUME NEW p \in Places, NEW m, CacheInv(p, m), NEW base \in Nat, NEW S, IsFiniteSet(S),
         base .. base + Half - 1 \subseteq S, Older(p, m, S), NEW y \in Lines(p), y \notin S
  PROVE  ~Resident(m, y)
<1> SUFFICES ASSUME Resident(m, y) PROVE FALSE
  OBVIOUS
<1> DEFINE H == base .. base + Half - 1
<1>1. y \in Nat
  BY PlaceFacts
<1>2. IsFiniteSet(SameSet(H, y)) /\ WAYS <= Cardinality(SameSet(H, y))
  BY <1>1, HalfFillsSets
<1>3. SameSet(H, y) \in SUBSET SameSet(S, y) /\ SameSet(S, y) \in SUBSET S
  BY DEF SameSet
<1>4. /\ IsFiniteSet(SameSet(S, y)) /\ Cardinality(SameSet(H, y)) <= Cardinality(SameSet(S, y))
      /\ Cardinality(SameSet(S, y)) \in Nat /\ Cardinality(SameSet(H, y)) \in Nat
  BY <1>2, <1>3, FS_Subset, FS_CardinalityType
<1>5. m.age[y] > Cardinality(SameSet(S, y))
  BY DEF Older
<1>6. m.age[y] \in 1 .. Out /\ m.age[y] # Out
  BY DEF CacheInv, Resident
<1> QED BY <1>2, <1>4, <1>5, <1>6, Sizes

\* The lines read, one load on.
LEMMA ReadGrows ==
  ASSUME NEW p \in Places, place = p, e \in 0 .. EvictLines - 1, NEW x, x = p.evict + e
  PROVE  /\ x \in EvictBuf(p) /\ x \notin Read(0) /\ x \notin Read(Half)
         /\ IsFiniteSet(Read(0)) /\ IsFiniteSet(Read(Half))
         /\ p.evict + 0 .. p.evict + (e + 1) - 1 = Read(0) \cup {x}
         /\ e < Half => p.evict + Half .. p.evict + (e + 1) - 1 = {}
         /\ e >= Half => /\ p.evict + Half .. p.evict + (e + 1) - 1 = Read(Half) \cup {x}
                         /\ p.evict .. p.evict + Half - 1 \subseteq Read(0)
<1>1. p.evict \in Nat /\ e \in Nat /\ e < EvictLines /\ Half \in Nat /\ EvictLines \in Nat
  BY PlaceFacts, Sizes
<1>2. x \in EvictBuf(p)
  BY <1>1 DEF EvictBuf
<1>3. IsFiniteSet(Read(0)) /\ IsFiniteSet(Read(Half))
  <2>1. /\ p.evict + 0 \in Int /\ p.evict + Half \in Int /\ p.evict + e - 1 \in Int
    BY <1>1
  <2> QED BY <2>1, FS_Interval DEF Read
<1>4. Read(0) = p.evict .. p.evict + e - 1 /\ Read(Half) = p.evict + Half .. p.evict + e - 1
  BY <1>1 DEF Read
<1>5. /\ x \notin Read(0) /\ x \notin Read(Half)
      /\ p.evict + 0 .. p.evict + (e + 1) - 1 = Read(0) \cup {x}
  BY <1>1, <1>4
<1>6. e < Half => p.evict + Half .. p.evict + (e + 1) - 1 = {}
  BY <1>1
<1>7. e >= Half => /\ p.evict + Half .. p.evict + (e + 1) - 1 = Read(Half) \cup {x}
                   /\ p.evict .. p.evict + Half - 1 \subseteq Read(0)
  BY <1>1, <1>4
<1> QED BY <1>2, <1>3, <1>5, <1>6, <1>7

LEMMA LoadKeepsEvictInv ==
  ASSUME place \in Places, CacheInv(place, mem), EvictInv, e \in 0 .. EvictLines - 1,
         place' = place, e' = e + 1, mem' = Access(mem, place.evict + e, "read")
  PROVE  EvictInv'
<1> DEFINE x == place.evict + e
<1>1. x \in EvictBuf(place) /\ x \in Lines(place) /\ place.evict \in Nat
  BY ReadGrows, PlaceFacts
<1>2. Read(0)' = Read(0) \cup {x}
  BY ReadGrows DEF Read
<1>3. Older(place, mem', Read(0) \cup {x})
  BY <1>1, ReadGrows, OlderGrows DEF EvictInv
<1>4. mem'.dirty \subseteq mem.dirty
  <2>1. mem'.dirty \subseteq Lines(place)
    BY <1>1, AccessCache DEF CacheInv
  <2> QED BY <1>1, <2>1, AccessFacts
<1>5. CASE e < Half
  <2>1. Read(Half)' = {}
    BY <1>5, ReadGrows DEF Read
  <2>2. CacheInv(place, mem')
    BY <1>1, AccessCache
  <2>3. Older(place, mem', {})
    BY <2>2, OlderNothing
  <2> QED BY <1>2, <1>3, <2>1, <2>3 DEF EvictInv
<1>6. CASE e >= Half
  <2>1. Read(Half)' = Read(Half) \cup {x}
    BY <1>6, ReadGrows DEF Read
  <2>2. Older(place, mem', Read(Half) \cup {x})
    BY <1>1, ReadGrows, OlderGrows DEF EvictInv
  <2>3. ~Resident(mem, x)
    BY <1>1, <1>6, ReadGrows, YoungHalf DEF EvictInv
  <2>4. x \notin mem.dirty
    BY <2>3 DEF CacheInv
  <2>5. (Read(Half) \cup {x}) \cap mem'.dirty = {}
    BY <1>4, <2>4 DEF EvictInv
  <2> QED BY <1>2, <1>3, <2>1, <2>2, <2>5 DEF EvictInv
<1>7. e \in Int /\ Half \in Int
  BY Sizes
<1> QED BY <1>5, <1>6, <1>7

\* After an eviction nothing but the sink is dirty, and nothing else of the
\* program's own lines is in the cache.
LEMMA Flushed ==
  ASSUME place \in Places, CacheInv(place, mem), EvictInv, e = EvictLines,
         NEW n, n = Access(mem, place.sink, "write")
  PROVE  /\ mem.dirty = {}
         /\ CacheInv(place, n) /\ OwnInv(place, n) /\ CleanInv(place, n)
         /\ n.dirty = {place.sink}
         /\ \A y \in Own(place) : Resident(n, y) <=> y = place.sink
         /\ \A y \in Lines(place) : n.writebacks[y] = mem.writebacks[y]
<1> DEFINE base == place.evict + Half
           x == place.sink
<1>1. /\ place.evict \in Nat /\ Half \in Nat /\ EvictLines = 2 * Half /\ base \in Nat
  BY PlaceFacts, Sizes
<1>2. Read(Half) = base .. base + Half - 1
  BY <1>1 DEF Read
<1>3. IsFiniteSet(Read(Half)) /\ Read(Half) \subseteq EvictBuf(place)
  <2>1. base \in Int /\ base + Half - 1 \in Int
    BY <1>1
  <2>2. Read(Half) \subseteq EvictBuf(place)
    BY <1>1, <1>2 DEF EvictBuf
  <2> QED BY <1>2, <2>1, <2>2, FS_Interval
<1>4. /\ x \in Own(place) /\ x \in Lines(place) /\ Own(place) \subseteq Lines(place)
      /\ Own(place) \cap EvictBuf(place) = {}
      /\ x \notin Matrices(place) /\ place.A \subseteq Matrices(place)
      /\ place.B \subseteq Matrices(place)
  BY PlaceFacts
<1>5. ASSUME NEW y \in Lines(place), y \notin Read(Half) PROVE ~Resident(mem, y)
  BY <1>1, <1>2, <1>3, <1>5, YoungHalf DEF EvictInv
<1>6. mem.dirty = {}
  BY <1>5 DEF CacheInv, EvictInv
<1>7. CacheInv(place, n)
  BY <1>4, AccessCache
<1>8. n.dirty = {x}
  <2>1. n.dirty \subseteq Lines(place)
    BY <1>7 DEF CacheInv
  <2> QED BY <1>4, <1>6, <2>1, AccessFacts
<1>9. ASSUME NEW y \in Own(place) PROVE Resident(n, y) <=> y = x
  BY <1>3, <1>4, <1>5, AccessAges
<1>10. \A y \in Lines(place) : n.writebacks[y] = mem.writebacks[y]
  BY <1>4, <1>6, AccessFacts
<1>11. CleanInv(place, n)
  BY <1>4, <1>8 DEF CleanInv
<1>12. OwnInv(place, n)
  <2>1. ResidentOwn(place, n) = {x}
    BY <1>4, <1>9 DEF ResidentOwn
  <2>2. SameSet({x}, x) = {x} /\ Cardinality({x}) = 1
    BY FS_Singleton DEF SameSet
  <2>3. n.age[x] = 1
    BY <1>4, AccessFacts
  <2> QED BY <2>1, <2>2, <2>3 DEF OwnInv
<1> QED BY <1>6, <1>7, <1>8, <1>9, <1>10, <1>11, <1>12

-----------------------------------------------------------------------------
(* The steps of the program.                                               *)

\* Before the first load of an eviction.
LEMMA NothingRead ==
  ASSUME place \in Places, CacheInv(place, mem), e = 0
  PROVE  EvictInv
<1>1. place.evict \in Nat /\ Half \in Nat
  BY PlaceFacts, Sizes
<1>2. Read(0) = {} /\ Read(Half) = {}
  BY <1>1 DEF Read
<1>3. Older(place, mem, {})
  BY OlderNothing
<1> QED BY <1>2, <1>3 DEF EvictInv

\* What a kernel call touches.
LEMMA WorkFacts ==
  ASSUME NEW p \in Places
  PROVE  /\ \A a \in KernelWork(p) :
              /\ a[1] \in Kernels(p) /\ a[1] \in Own(p) /\ a = <<a[1], a[2]>>
              /\ a[2] = "write" => a[1] \notin p.A \cup p.B
         /\ \A x \in Kernels(p) : \E a \in KernelWork(p) : a[1] = x
         /\ \A x \in p.C : <<x, "write">> \in KernelWork(p)
<1>1. /\ p.C \cap (p.A \cup p.B) = {} /\ p.stack \cap Matrices(p) = {}
      /\ p.A \subseteq Matrices(p) /\ p.B \subseteq Matrices(p) /\ p.C \subseteq Matrices(p)
      /\ Kernels(p) \subseteq Own(p)
  BY PlaceFacts
<1>2. ASSUME NEW a \in KernelWork(p)
      PROVE  /\ a[1] \in Kernels(p) /\ a[1] \in Own(p) /\ a = <<a[1], a[2]>>
             /\ a[2] = "write" => a[1] \notin p.A \cup p.B
  <2>1. CASE \E x \in Kernels(p) : a = <<x, "read">>
    BY <1>1, <2>1
  <2>2. CASE \E x \in p.C \cup p.stack : a = <<x, "write">>
    BY <1>1, <2>2 DEF Kernels
  <2> QED BY <2>1, <2>2 DEF KernelWork
<1>3. ASSUME NEW x \in Kernels(p) PROVE \E a \in KernelWork(p) : a[1] = x
  <2>1. <<x, "read">> \in KernelWork(p)
    BY DEF KernelWork
  <2> QED BY <2>1
<1>4. \A x \in p.C : <<x, "write">> \in KernelWork(p)
  BY DEF KernelWork
<1> QED BY <1>2, <1>3, <1>4

\* Sections are dumped and then left alone.
LEMMA SectionsKept ==
  ASSUME ColdReads, EvictWrites, WarmHits, UNCHANGED <<place, sections>>
  PROVE  ColdReads' /\ EvictWrites' /\ WarmHits'
BY DEF ColdReads, EvictWrites, WarmHits, Dumped, Section

LEMMA InitInv == Init => IndInv
<1> SUFFICES ASSUME Init PROVE IndInv
  OBVIOUS
<1>1. place \in Places /\ step = 1 /\ e = 0 /\ todo = Bss(place) /\ mem = Cold(place) /\ sections = <<>>
  BY DEF Init
<1>2. ControlInv
  BY <1>1, Sizes DEF ControlInv
<1>3. CacheInv(place, mem)
  BY <1>1, Sizes DEF CacheInv, Cold, NoTraffic, Resident
<1>4. TrafficInv
  BY <1>1 DEF TrafficInv
<1>5. ColdReads /\ EvictWrites /\ WarmHits
  BY <1>1 DEF ColdReads, EvictWrites, WarmHits, Dumped
<1> QED BY <1>1, <1>2, <1>3, <1>4, <1>5 DEF IndInv

LEMMA BootWriteStep == IndInv /\ BootWrite => IndInv'
<1> SUFFICES ASSUME IndInv, BootWrite PROVE IndInv'
  OBVIOUS
<1>1. /\ step = 1 \/ step = 2
      /\ UNCHANGED <<place, step, e, sections>> /\ place \in Places
  BY ProgramSteps DEF IndInv, ControlInv, BootWrite
<1>2. PICK a \in todo : mem' = Access(mem, a[1], "write") /\ todo' = todo \ {a}
  BY DEF BootWrite
<1>3. a[1] \in Lines(place)
  <2>1. a \in Bss(place) \cup Data(place)
    BY <1>1 DEF IndInv, ControlInv
  <2>2. \E x \in Lines(place) : a = <<x, "write">>
    BY <1>1, <2>1, PlaceFacts DEF Bss, Data, Written, Matrices
  <2> QED BY <2>2
<1>4. CacheInv(place, mem)'
  BY <1>1, <1>2, <1>3, AccessCache DEF IndInv
<1>5. ControlInv'
  BY <1>1, <1>2 DEF IndInv, ControlInv
<1>6. TrafficInv'
  BY <1>1 DEF TrafficInv
<1>7. ColdReads' /\ EvictWrites' /\ WarmHits'
  BY <1>1, SectionsKept DEF IndInv
<1> QED BY <1>1, <1>4, <1>5, <1>6, <1>7 DEF IndInv

LEMMA BootNextStep == IndInv /\ BootNext => IndInv'
<1> SUFFICES ASSUME IndInv, BootNext PROVE IndInv'
  OBVIOUS
<1>1. /\ UNCHANGED <<place, e, mem, sections>> /\ place \in Places /\ step' = step + 1
      /\ \/ step = 1 /\ todo' = Data(place)
         \/ step = 2 /\ todo' = KernelWork(place)
  BY ProgramSteps DEF IndInv, ControlInv, BootNext
<1>2. CacheInv(place, mem)'
  BY <1>1 DEF IndInv
<1>3. e = 0
  BY <1>1 DEF IndInv, ControlInv
<1>4. ControlInv'
  BY <1>1, <1>3 DEF IndInv, ControlInv
<1>5. EvictInv
  BY <1>1, <1>3, NothingRead DEF IndInv
<1>6. EvictInv'
  BY <1>1, <1>5 DEF EvictInv, Read
<1>7. TrafficInv'
  BY <1>1 DEF TrafficInv
<1>8. ColdReads' /\ EvictWrites' /\ WarmHits'
  BY <1>1, SectionsKept DEF IndInv
<1> QED BY <1>1, <1>2, <1>4, <1>6, <1>7, <1>8 DEF IndInv

LEMMA ResetStep == IndInv /\ m5_reset_stats => IndInv'
<1> SUFFICES ASSUME IndInv, m5_reset_stats PROVE IndInv'
  OBVIOUS
<1>1. /\ UNCHANGED <<place, e, todo, sections>> /\ place \in Places
      /\ step \in {4, 10, 14} /\ step' = step + 1
  BY ProgramSteps DEF IndInv, ControlInv, m5_reset_stats
<1>2. CacheInv(place, mem)
  BY DEF IndInv
<1>3. /\ mem'.age = mem.age /\ mem'.dirty = mem.dirty
      /\ mem'.fills = NoTraffic(place) /\ mem'.writebacks = NoTraffic(place)
      /\ mem' \in [age : [Lines(place) -> 1 .. Out], dirty : SUBSET Lines(place),
                   fills : [Lines(place) -> Nat], writebacks : [Lines(place) -> Nat]]
  BY <1>2 DEF CacheInv, m5_reset_stats, NoTraffic
<1>4. CacheInv(place, mem)'
  BY <1>1, <1>2, <1>3 DEF CacheInv, Resident
<1>5. ControlInv'
  BY <1>1 DEF IndInv, ControlInv
<1>6. EvictInv'
  <2>1. e = 0
    BY <1>1 DEF IndInv, ControlInv
  <2>2. EvictInv
    BY <1>1, <1>2, <2>1, NothingRead
  <2> QED BY <1>1, <1>3, <2>2 DEF EvictInv, Older, Read, Resident
<1>7. CleanInv(place, mem)' /\ OwnInv(place, mem)'
  <2>1. CleanInv(place, mem) /\ OwnInv(place, mem)
    BY <1>1 DEF IndInv
  <2> QED BY <1>1, <1>3, <2>1 DEF CleanInv, OwnInv, ResidentOwn, Resident
<1>8. TrafficInv'
  <2>1. /\ Lines(place) = Own(place) \cup EvictBuf(place) /\ Matrices(place) \subseteq Lines(place)
        /\ Kernels(place) \subseteq Lines(place) /\ EvictBuf(place) \subseteq Lines(place)
    BY <1>1, PlaceFacts
  <2>2. \A x \in Lines(place) : mem'.fills[x] = 0 /\ mem'.writebacks[x] = 0
    BY <1>3 DEF NoTraffic
  <2>3. CASE step = 4
    <3>1. \A x \in Matrices(place) : ~Resident(mem', x)
      BY <1>3, <2>3 DEF IndInv, TrafficInv, Resident
    <3> QED BY <1>1, <2>1, <2>2, <2>3, <3>1 DEF TrafficInv
  <2>4. CASE step = 10
    <3>1. place.C \subseteq mem'.dirty
      BY <1>3, <2>4 DEF IndInv, TrafficInv
    <3> QED BY <1>1, <2>1, <2>2, <2>4, <3>1 DEF TrafficInv
  <2>5. CASE step = 14
    <3>1. \A x \in Kernels(place) : Resident(mem', x)
      BY <1>3, <2>5 DEF IndInv, TrafficInv, Resident
    <3> QED BY <1>1, <2>1, <2>2, <2>5, <3>1 DEF TrafficInv
  <2> QED BY <1>1, <2>3, <2>4, <2>5
<1>9. ColdReads' /\ EvictWrites' /\ WarmHits'
  BY <1>1, SectionsKept DEF IndInv
<1> QED BY <1>1, <1>4, <1>5, <1>6, <1>7, <1>8, <1>9 DEF IndInv

LEMMA DumpStep == IndInv /\ m5_dump_stats => IndInv'
<1> SUFFICES ASSUME IndInv, m5_dump_stats PROVE IndInv'
  OBVIOUS
<1> DEFINE now == [fills |-> mem.fills, writebacks |-> mem.writebacks]
<1>1. /\ UNCHANGED <<place, e, todo, mem>> /\ place \in Places
      /\ step \in {8, 12, 18} /\ step' = step + 1 /\ sections' = Append(sections, now)
  BY ProgramSteps DEF IndInv, ControlInv, m5_dump_stats
<1>2. CacheInv(place, mem)' /\ CleanInv(place, mem)' /\ OwnInv(place, mem)'
  BY <1>1 DEF IndInv
<1>3. now \in [fills : [Lines(place) -> Nat], writebacks : [Lines(place) -> Nat]]
  BY DEF IndInv, CacheInv
<1>4. /\ sections \in Seq([fills : [Lines(place) -> Nat], writebacks : [Lines(place) -> Nat]])
      /\ Len(sections) \in Nat
      /\ step = 8 => Len(sections) = 0
      /\ step = 12 => Len(sections) = 1
      /\ step = 18 => Len(sections) = 2
  BY DEF IndInv, ControlInv
<1> HIDE DEF now
<1>5. /\ sections' \in Seq([fills : [Lines(place) -> Nat], writebacks : [Lines(place) -> Nat]])
      /\ Len(sections') = Len(sections) + 1
      /\ \A i \in 1 .. Len(sections) : sections'[i] = sections[i]
      /\ sections'[Len(sections) + 1] = now
  BY <1>1, <1>3, <1>4
<1>6. ControlInv'
  <2>1. /\ e = 0 /\ todo = KernelWork(place)
    BY <1>1 DEF IndInv, ControlInv
  <2>2. \/ step' = 9 /\ Len(sections') = 1
        \/ step' = 13 /\ Len(sections') = 2
        \/ step' = 19 /\ Len(sections') = 3
    <3>1. \/ step = 8 /\ Len(sections) = 0
          \/ step = 12 /\ Len(sections) = 1
          \/ step = 18 /\ Len(sections) = 2
      BY <1>1, <1>4
    <3>2. step' = step + 1 /\ Len(sections') = Len(sections) + 1
      BY <1>1, <1>5
    <3>3. CASE step = 8 /\ Len(sections) = 0
      BY <3>2, <3>3
    <3>4. CASE step = 12 /\ Len(sections) = 1
      BY <3>2, <3>4
    <3>5. CASE step = 18 /\ Len(sections) = 2
      BY <3>2, <3>5
    <3> QED BY <3>1, <3>3, <3>4, <3>5
  <2>3. step' \in 1 .. 20 /\ e' \in 0 .. EvictLines
    BY <1>1, <2>1, <2>2, Sizes
  <2> QED BY <1>1, <1>5, <2>1, <2>2, <2>3 DEF ControlInv
<1>7. KernelInv' \/ step' # 13
  <2>1. CASE step = 12
    <3>1. todo = KernelWork(place)
      BY <2>1 DEF IndInv, ControlInv
    <3> QED BY <1>1, <3>1 DEF KernelInv
  <2> QED BY <1>1, <2>1
<1>8. TrafficInv'
  BY <1>1 DEF IndInv, TrafficInv
<1>9. now.fills = mem.fills /\ now.writebacks = mem.writebacks
  BY DEF now
<1>10. CASE step = 8
  <2>1. Section(1)' = now /\ ~Dumped(2)' /\ ~Dumped(3)'
    BY <1>4, <1>5, <1>10 DEF Section, Dumped
  <2>2. ColdReads'
    BY <1>1, <1>9, <1>10, <2>1 DEF IndInv, TrafficInv, ColdReads
  <2> QED BY <1>1, <1>2, <1>6, <1>8, <1>10, <2>1, <2>2 DEF IndInv, EvictWrites, WarmHits
<1>11. CASE step = 12
  <2>1. /\ Section(1)' = Section(1) /\ Section(2)' = now /\ ~Dumped(3)' /\ Dumped(1)
    <3>0. Len(sections) = 1
      BY <1>4, <1>11
    <3>1. /\ Len(sections') = 2
          /\ sections'[1] = sections[1] /\ sections'[2] = now
      BY <1>5, <3>0
    <3> QED BY <3>0, <3>1 DEF Section, Dumped
  <2>2. ColdReads'
    BY <1>1, <2>1 DEF IndInv, ColdReads
  <2>3. EvictWrites'
    BY <1>1, <1>9, <1>11, <2>1 DEF IndInv, TrafficInv, EvictWrites
  <2> QED BY <1>1, <1>2, <1>6, <1>7, <1>8, <1>11, <2>1, <2>2, <2>3 DEF IndInv, WarmHits
<1>12. CASE step = 18
  <2>1. /\ Section(1)' = Section(1) /\ Section(2)' = Section(2) /\ Section(3)' = now
        /\ Dumped(1) /\ Dumped(2)
    <3>0. Len(sections) = 2
      BY <1>4, <1>12
    <3>1. /\ Len(sections') = 3
          /\ sections'[1] = sections[1] /\ sections'[2] = sections[2] /\ sections'[3] = now
      BY <1>5, <3>0
    <3> QED BY <3>0, <3>1 DEF Section, Dumped
  <2>2. ColdReads'
    BY <1>1, <2>1 DEF IndInv, ColdReads
  <2>3. EvictWrites'
    BY <1>1, <2>1 DEF IndInv, EvictWrites
  <2>4. WarmHits'
    BY <1>1, <1>9, <1>12, <2>1 DEF IndInv, TrafficInv, WarmHits
  <2> QED BY <1>1, <1>2, <1>6, <1>8, <1>12, <2>2, <2>3, <2>4 DEF IndInv
<1> QED BY <1>1, <1>10, <1>11, <1>12

LEMMA CountersStep == IndInv /\ Counters => IndInv'
<1> SUFFICES ASSUME IndInv, Counters PROVE IndInv'
  OBVIOUS
<1> DEFINE x == place.counters
<1>1. /\ UNCHANGED <<place, e, todo, sections>> /\ place \in Places
      /\ step \in {5, 7, 15, 17} /\ step' = step + 1 /\ mem' = Access(mem, x, "write")
  BY ProgramSteps DEF IndInv, ControlInv, Counters
<1>2. CacheInv(place, mem) /\ CleanInv(place, mem) /\ OwnInv(place, mem)
  BY <1>1 DEF IndInv
<1>3. /\ x \in Own(place) /\ x \notin Matrices(place) /\ x \notin EvictBuf(place)
      /\ x \notin place.A \cup place.B
      /\ Matrices(place) \subseteq Kernels(place) /\ Kernels(place) \subseteq Own(place)
      /\ Own(place) \subseteq Lines(place) /\ EvictBuf(place) \subseteq Lines(place)
  BY <1>1, PlaceFacts
<1>4. /\ CacheInv(place, mem') /\ OwnInv(place, mem')
      /\ \A y \in Own(place) : Resident(mem', y) <=> y = x \/ Resident(mem, y)
  BY <1>1, <1>2, <1>3, OwnAccess
<1>5. /\ mem.dirty \subseteq mem'.dirty
      /\ \A y \in Lines(place) : mem'.writebacks[y] = mem.writebacks[y]
      /\ \A y \in Lines(place) : mem'.fills[y] = IF y = x /\ ~Resident(mem, x) THEN mem.fills[y] + 1
                                                 ELSE mem.fills[y]
      /\ CleanInv(place, mem')
  BY <1>1, <1>2, <1>3, OwnTraffic
<1>6. ControlInv'
  BY <1>1 DEF IndInv, ControlInv
<1>7. KernelInv' \/ step' \notin {6, 16}
  <2>1. CASE step \in {5, 15}
    <3>1. todo = KernelWork(place)
      BY <2>1 DEF IndInv, ControlInv
    <3> QED BY <1>1, <3>1 DEF KernelInv
  <2> QED BY <1>1, <2>1
<1>8. TrafficInv'
  <2>1. CASE step \in {5, 7}
    <3>1. /\ \A y \in Matrices(place) : mem'.fills[y] = IF Resident(mem', y) THEN 1 ELSE 0
          /\ \A y \in EvictBuf(place) : mem'.fills[y] = 0
          /\ \A y \in Lines(place) : mem'.writebacks[y] = 0
      BY <1>3, <1>4, <1>5, <2>1 DEF IndInv, TrafficInv
    <3>2. step = 7 => /\ \A y \in Matrices(place) : Resident(mem', y)
                      /\ place.C \subseteq mem'.dirty
      BY <1>3, <1>4, <1>5 DEF IndInv, TrafficInv
    <3> QED BY <1>1, <2>1, <3>1, <3>2 DEF TrafficInv
  <2>2. CASE step \in {15, 17}
    <3>1. \A y \in Kernels(place) : /\ Resident(mem, y) /\ Resident(mem', y)
                                    /\ mem'.fills[y] = 0 /\ mem'.writebacks[y] = 0
      BY <1>3, <1>4, <1>5, <2>2 DEF IndInv, TrafficInv
    <3> QED BY <1>1, <2>2, <3>1 DEF TrafficInv
  <2> QED BY <1>1, <2>1, <2>2
<1>9. ColdReads' /\ EvictWrites' /\ WarmHits'
  BY <1>1, SectionsKept DEF IndInv
<1> QED BY <1>1, <1>4, <1>5, <1>6, <1>7, <1>8, <1>9 DEF IndInv

LEMMA ResultsStep == IndInv /\ Results => IndInv'
<1> SUFFICES ASSUME IndInv, Results PROVE IndInv'
  OBVIOUS
<1>0. PICK m : m = Access(mem, place.counters, "read")
  OBVIOUS
<1>1. /\ UNCHANGED <<place, e, todo, sections>> /\ place \in Places
      /\ step \in {9, 19} /\ step' = step + 1 /\ mem' = Access(m, place.results, "write")
  BY <1>0, ProgramSteps DEF IndInv, ControlInv, Results
<1>2. CacheInv(place, mem) /\ CleanInv(place, mem) /\ OwnInv(place, mem)
  BY <1>1 DEF IndInv
<1>3. /\ place.counters \in Own(place) /\ place.results \in Own(place)
      /\ place.counters \notin place.A \cup place.B
      /\ place.results \notin place.A \cup place.B
  BY <1>1, PlaceFacts
<1>4. CacheInv(place, m) /\ OwnInv(place, m)
  BY <1>0, <1>1, <1>2, <1>3, OwnAccess
<1>5. CleanInv(place, m) /\ mem.dirty \subseteq m.dirty
  BY <1>0, <1>1, <1>2, <1>3, OwnTraffic
<1>6. CacheInv(place, mem') /\ OwnInv(place, mem')
  BY <1>1, <1>3, <1>4, OwnAccess
<1>7. CleanInv(place, mem') /\ m.dirty \subseteq mem'.dirty
  BY <1>1, <1>3, <1>4, <1>5, OwnTraffic
<1>8. ControlInv'
  BY <1>1 DEF IndInv, ControlInv
<1>9. TrafficInv'
  BY <1>1, <1>5, <1>7 DEF IndInv, TrafficInv
<1>10. ColdReads' /\ EvictWrites' /\ WarmHits'
  BY <1>1, SectionsKept DEF IndInv
<1> QED BY <1>1, <1>6, <1>7, <1>8, <1>9, <1>10 DEF IndInv

LEMMA EvictLoadStep == IndInv /\ EvictLoad => IndInv'
<1> SUFFICES ASSUME IndInv, EvictLoad PROVE IndInv'
  OBVIOUS
<1> DEFINE x == place.evict + e
<1>1. /\ UNCHANGED <<place, step, todo, sections>> /\ place \in Places
      /\ step \in {3, 11} /\ e \in 0 .. EvictLines - 1 /\ e' = e + 1
      /\ mem' = Access(mem, x, "read")
  <2>1. step \in 1 .. 20 /\ e \in 0 .. EvictLines /\ e < EvictLines
    BY DEF IndInv, ControlInv, EvictLoad
  <2>2. e \in 0 .. EvictLines - 1
    BY <2>1, Sizes
  <2> QED BY <2>1, <2>2, ProgramSteps DEF IndInv, ControlInv, EvictLoad
<1>2. CacheInv(place, mem) /\ EvictInv
  BY <1>1 DEF IndInv
<1>3. x \in Lines(place) /\ Matrices(place) \subseteq Lines(place) /\ EvictBuf(place) \subseteq Lines(place)
  BY <1>1, ReadGrows, PlaceFacts
<1>4. CacheInv(place, mem')
  BY <1>1, <1>2, <1>3, AccessCache
<1>5. EvictInv'
  BY <1>1, <1>2, LoadKeepsEvictInv
<1>6. \A y \in Lines(place) : /\ y \in mem'.dirty <=> y \in mem.dirty /\ ~Evicted(mem, x, y)
                              /\ mem'.writebacks[y] = IF Evicted(mem, x, y) /\ y \in mem.dirty
                                                      THEN mem.writebacks[y] + 1
                                                      ELSE mem.writebacks[y]
  BY <1>1, <1>2, <1>3, AccessFacts
<1>7. ControlInv'
  BY <1>1, Sizes DEF IndInv, ControlInv
<1>8. step = 11 => CleanInv(place, mem')
  <2>1. step = 11 => CleanInv(place, mem)
    BY DEF IndInv
  <2>2. mem'.dirty \subseteq Lines(place)
    BY <1>4 DEF CacheInv
  <2> QED BY <1>6, <2>1, <2>2 DEF CleanInv
<1>9. TrafficInv'
  <2>1. CASE step = 11
    <3>1. ASSUME NEW y \in Matrices(place) \cup EvictBuf(place)
          PROVE  mem'.writebacks[y] = IF y \in place.C \ mem'.dirty THEN 1 ELSE 0
      <4>1. y \in Lines(place) /\ mem.writebacks[y] = IF y \in place.C \ mem.dirty THEN 1 ELSE 0
        BY <1>3, <2>1 DEF IndInv, TrafficInv
      <4>2. y \in mem.dirty => y \in place.C
        BY <2>1 DEF IndInv, CleanInv, Matrices
      <4> QED BY <1>6, <4>1, <4>2
    <3> QED BY <1>1, <2>1, <3>1 DEF TrafficInv
  <2>2. CASE step = 3
    BY <1>1, <2>2 DEF TrafficInv
  <2> QED BY <1>1, <2>1, <2>2
<1>10. ColdReads' /\ EvictWrites' /\ WarmHits'
  BY <1>1, SectionsKept DEF IndInv
<1> QED BY <1>1, <1>4, <1>5, <1>7, <1>8, <1>9, <1>10 DEF IndInv

LEMMA EvictSinkStep == IndInv /\ EvictSink => IndInv'
<1> SUFFICES ASSUME IndInv, EvictSink PROVE IndInv'
  OBVIOUS
<1>1. /\ UNCHANGED <<place, todo, sections>> /\ place \in Places
      /\ step \in {3, 11} /\ step' = step + 1 /\ e = EvictLines /\ e' = 0
      /\ mem' = Access(mem, place.sink, "write")
  BY ProgramSteps DEF IndInv, ControlInv, EvictSink
<1>2. CacheInv(place, mem) /\ EvictInv
  BY <1>1 DEF IndInv
<1>3. /\ mem.dirty = {} /\ mem'.dirty = {place.sink}
      /\ CacheInv(place, mem') /\ OwnInv(place, mem') /\ CleanInv(place, mem')
      /\ \A y \in Own(place) : Resident(mem', y) <=> y = place.sink
      /\ \A y \in Lines(place) : mem'.writebacks[y] = mem.writebacks[y]
  BY <1>1, <1>2, Flushed
<1>4. /\ place.sink \notin Matrices(place) /\ place.C \subseteq Matrices(place)
      /\ Matrices(place) \subseteq Own(place) /\ Own(place) \subseteq Lines(place)
      /\ EvictBuf(place) \subseteq Lines(place)
  BY <1>1, PlaceFacts
<1>5. ControlInv'
  BY <1>1, Sizes DEF IndInv, ControlInv
<1>6. TrafficInv'
  <2>1. CASE step = 3
    <3>1. \A x \in Matrices(place) : ~Resident(mem', x)
      BY <1>3, <1>4
    <3> QED BY <1>1, <2>1, <3>1 DEF TrafficInv
  <2>2. CASE step = 11
    <3>1. place.C \cap mem'.dirty = {}
      BY <1>3, <1>4
    <3>2. ASSUME NEW x \in Matrices(place) \cup EvictBuf(place)
          PROVE  mem'.writebacks[x] = IF x \in place.C \ mem'.dirty THEN 1 ELSE 0
      <4>1. mem.writebacks[x] = IF x \in place.C \ mem.dirty THEN 1 ELSE 0
        BY <2>2 DEF IndInv, TrafficInv
      <4> QED BY <1>3, <1>4, <3>1, <4>1
    <3> QED BY <1>1, <2>2, <3>1, <3>2 DEF TrafficInv
  <2> QED BY <1>1, <2>1, <2>2
<1>7. ColdReads' /\ EvictWrites' /\ WarmHits'
  BY <1>1, SectionsKept DEF IndInv
<1> QED BY <1>1, <1>3, <1>5, <1>6, <1>7 DEF IndInv

LEMMA KernelReturnStep == IndInv /\ KernelReturn => IndInv'
<1> SUFFICES ASSUME IndInv, KernelReturn PROVE IndInv'
  OBVIOUS
<1>1. /\ UNCHANGED <<place, e, mem, sections>> /\ place \in Places
      /\ step \in {6, 13, 16} /\ step' = step + 1 /\ todo = {} /\ todo' = KernelWork(place)
  BY ProgramSteps DEF IndInv, ControlInv, KernelReturn
<1>2. CacheInv(place, mem)' /\ OwnInv(place, mem)' /\ CleanInv(place, mem)'
  BY <1>1 DEF IndInv
<1>3. \A a \in KernelWork(place) : Resident(mem, a[1]) /\ (a[2] = "write" => a[1] \in mem.dirty)
  <2>1. KernelInv /\ KernelWork(place) \ todo = KernelWork(place)
    BY <1>1 DEF IndInv
  <2> QED BY <2>1 DEF KernelInv
<1>4. \A x \in Kernels(place) : Resident(mem, x)
  BY <1>1, <1>3, WorkFacts
<1>5. place.C \subseteq mem.dirty
  <2>1. ASSUME NEW x \in place.C PROVE x \in mem.dirty
    <3>1. <<x, "write">> \in KernelWork(place)
      BY <1>1, WorkFacts
    <3> QED BY <1>3, <3>1
  <2> QED BY <2>1
<1>6. ControlInv'
  BY <1>1 DEF IndInv, ControlInv
<1>7. TrafficInv'
  <2>1. Matrices(place) \subseteq Kernels(place)
    BY <1>1, PlaceFacts
  <2>2. CASE step = 6
    BY <1>1, <1>4, <1>5, <2>1, <2>2 DEF IndInv, TrafficInv
  <2>3. CASE step \in {13, 16}
    BY <1>1, <1>4, <2>3 DEF IndInv, TrafficInv
  <2> QED BY <1>1, <2>2, <2>3
<1>8. ColdReads' /\ EvictWrites' /\ WarmHits'
  BY <1>1, SectionsKept DEF IndInv
<1> QED BY <1>1, <1>2, <1>6, <1>7, <1>8 DEF IndInv

LEMMA KernelAccessStep ==
  ASSUME NEW a \in KernelWork(place)
  PROVE  IndInv /\ KernelAccess(a[1], a[2]) => IndInv'
<1> SUFFICES ASSUME IndInv, KernelAccess(a[1], a[2]) PROVE IndInv'
  OBVIOUS
<1>1. /\ UNCHANGED <<place, step, e, sections>> /\ place \in Places
      /\ step \in {6, 13, 16} /\ mem' = Access(mem, a[1], a[2])
      /\ todo' = todo \ {<<a[1], a[2]>>}
  BY ProgramSteps DEF IndInv, ControlInv, KernelAccess
<1>2. CacheInv(place, mem) /\ CleanInv(place, mem) /\ OwnInv(place, mem) /\ KernelInv
  BY <1>1 DEF IndInv
<1>3. PICK x, op : x = a[1] /\ op = a[2]
  OBVIOUS
<1>4. x \in Kernels(place) /\ x \in Own(place) /\ (op = "write" => x \notin place.A \cup place.B)
  BY <1>1, <1>3, WorkFacts
<1>5. mem' = Access(mem, x, op) /\ todo' = todo \ {a}
  <2>1. a = <<a[1], a[2]>>
    BY <1>1, WorkFacts
  <2> QED BY <1>1, <1>3, <2>1
<1>6. /\ Matrices(place) \subseteq Kernels(place) /\ Kernels(place) \subseteq Own(place)
      /\ Own(place) \subseteq Lines(place) /\ EvictBuf(place) \subseteq Lines(place)
      /\ Own(place) \cap EvictBuf(place) = {}
  BY <1>1, PlaceFacts
<1>7. /\ CacheInv(place, mem') /\ OwnInv(place, mem')
      /\ \A y \in Own(place) : Resident(mem', y) <=> y = x \/ Resident(mem, y)
  BY <1>1, <1>2, <1>4, <1>5, OwnAccess
<1>8. /\ mem'.dirty = mem.dirty \cup (IF op = "write" THEN {x} ELSE {})
      /\ \A y \in Lines(place) : mem'.writebacks[y] = mem.writebacks[y]
      /\ \A y \in Lines(place) : mem'.fills[y] = IF y = x /\ ~Resident(mem, x) THEN mem.fills[y] + 1
                                                 ELSE mem.fills[y]
      /\ CleanInv(place, mem')
  BY <1>1, <1>2, <1>4, <1>5, OwnTraffic
<1>9. ControlInv'
  BY <1>1 DEF IndInv, ControlInv
<1>10. KernelInv'
  <2> SUFFICES ASSUME NEW b \in KernelWork(place) \ todo'
               PROVE  Resident(mem', b[1]) /\ (b[2] = "write" => b[1] \in mem'.dirty)
    BY <1>1 DEF KernelInv
  <2>1. b[1] \in Own(place)
    BY <1>1, WorkFacts
  <2>2. CASE b = a
    <3>1. b[1] = x /\ b[2] = op
      BY <1>3, <2>2
    <3> QED BY <1>4, <1>7, <1>8, <3>1
  <2>3. CASE b # a
    <3>1. Resident(mem, b[1]) /\ (b[2] = "write" => b[1] \in mem.dirty)
      <4>1. b \in KernelWork(place) \ todo
        BY <1>5, <2>3
      <4> QED BY <1>2, <4>1 DEF KernelInv
    <3> QED BY <1>7, <1>8, <2>1, <3>1
  <2> QED BY <2>2, <2>3
<1>11. TrafficInv'
  <2>1. CASE step = 6
    <3>1. ASSUME NEW y \in Matrices(place)
          PROVE  mem'.fills[y] = IF Resident(mem', y) THEN 1 ELSE 0
      <4>1. mem.fills[y] = IF Resident(mem, y) THEN 1 ELSE 0
        BY <2>1 DEF IndInv, TrafficInv
      <4> QED BY <1>6, <1>7, <1>8, <4>1
    <3>2. /\ \A y \in EvictBuf(place) : mem'.fills[y] = 0
          /\ \A y \in Lines(place) : mem'.writebacks[y] = 0
      BY <1>4, <1>6, <1>8, <2>1 DEF IndInv, TrafficInv
    <3> QED BY <1>1, <2>1, <3>1, <3>2 DEF TrafficInv
  <2>2. CASE step = 16
    <3>1. \A y \in Kernels(place) : /\ Resident(mem, y) /\ Resident(mem', y)
                                    /\ mem'.fills[y] = 0 /\ mem'.writebacks[y] = 0
      BY <1>4, <1>6, <1>7, <1>8, <2>2 DEF IndInv, TrafficInv
    <3> QED BY <1>1, <2>2, <3>1 DEF TrafficInv
  <2>3. CASE step = 13
    BY <1>1, <2>3 DEF TrafficInv
  <2> QED BY <1>1, <2>1, <2>2, <2>3
<1>12. ColdReads' /\ EvictWrites' /\ WarmHits'
  BY <1>1, SectionsKept DEF IndInv
<1> QED BY <1>1, <1>7, <1>8, <1>9, <1>10, <1>11, <1>12 DEF IndInv

-----------------------------------------------------------------------------
(* The theorems.                                                           *)

\* Every step keeps the inductive invariant.
LEMMA NextInv == IndInv /\ [Next]_vars => IndInv'
<1> SUFFICES ASSUME IndInv, [Next]_vars PROVE IndInv'
  OBVIOUS
<1>1. CASE BootWrite \/ BootNext
  BY <1>1, BootWriteStep, BootNextStep
<1>2. CASE m5_reset_stats \/ m5_dump_stats \/ Counters \/ Results
  BY <1>2, ResetStep, DumpStep, CountersStep, ResultsStep
<1>3. CASE EvictLoad \/ EvictSink
  BY <1>3, EvictLoadStep, EvictSinkStep
<1>4. CASE KernelReturn
  BY <1>4, KernelReturnStep
<1>5. ASSUME NEW a \in KernelWork(place), KernelAccess(a[1], a[2]) PROVE IndInv'
  BY <1>5, KernelAccessStep
<1>6. CASE UNCHANGED vars
  <2>1. UNCHANGED <<place, step, e, todo, mem, sections>>
    BY <1>6 DEF vars
  <2>2. ControlInv' /\ CacheInv(place, mem)'
    BY <2>1 DEF IndInv, ControlInv
  <2>3. EvictInv => EvictInv'
    BY <2>1 DEF EvictInv, Read
  <2>4. /\ CleanInv(place, mem) => CleanInv(place, mem)'
        /\ OwnInv(place, mem) => OwnInv(place, mem)'
    BY <2>1
  <2>5. (KernelInv => KernelInv') /\ TrafficInv'
    BY <2>1 DEF IndInv, KernelInv, TrafficInv
  <2>6. ColdReads' /\ EvictWrites' /\ WarmHits'
    BY <2>1, SectionsKept DEF IndInv
  <2> QED BY <2>1, <2>2, <2>3, <2>4, <2>5, <2>6 DEF IndInv
<1> QED BY <1>1, <1>2, <1>3, <1>4, <1>5, <1>6 DEF Next

\* The inductive invariant holds: between two evictions the program's own
\* lines stay in the cache whatever the order of the accesses (gemm.c:471-510).
THEOREM Invariance == Spec => []IndInv
BY InitInv, NextInv, PTL DEF Spec

\* The first section shows each line of A, B and C read once from DRAM,
\* nothing of the eviction buffer and no write-back (gemm.c:471), for every
\* placement of the data and every cache it fits in.
THEOREM ColdSection == Spec => []ColdReads
<1>1. IndInv => ColdReads
  BY DEF IndInv
<1> QED BY <1>1, Invariance, PTL

\* The second section shows each line of C written back once, and no line of
\* A, B or the eviction buffer (gemm.c:473).
THEOREM EvictSection == Spec => []EvictWrites
<1>1. IndInv => EvictWrites
  BY DEF IndInv
<1> QED BY <1>1, Invariance, PTL

\* The third section shows no traffic of A, B, C or the stack (gemm.c:475).
THEOREM WarmSection == Spec => []WarmHits
<1>1. IndInv => WarmHits
  BY DEF IndInv
<1> QED BY <1>1, Invariance, PTL

-----------------------------------------------------------------------------
(* What the plot makes of the sections.                                    *)

\* A step that leaves the sections alone leaves what they say.
LEMMA OthersKept ==
  ASSUME OthersInv, UNCHANGED <<place, sections>>
  PROVE  /\ Dumped(1)' => Once(Section(1).fills)'
         /\ Dumped(2)' => Once(Section(2).writebacks)'
         /\ Dumped(3)' => /\ Once(Section(3).fills)'
                          /\ \A x \in EvictBuf(place)' : Section(3).fills[x]' = 0
BY DEF OthersInv, Dumped, Section, Once

\* An access of the program fills its line if it is not there, and no other.
LEMMA OthersAccess ==
  ASSUME IndInv, OthersInv, step \in 5 .. 7 \cup 15 .. 17,
         NEW x \in Own(place), NEW op, mem' = Access(mem, x, op), UNCHANGED place
  PROVE  /\ \A y \in Own(place) : mem'.fills[y] <= IF Resident(mem', y) THEN 1 ELSE 0
         /\ step \in 15 .. 17 => \A y \in EvictBuf(place) : mem'.fills[y] = 0
<1>1. place \in Places /\ CacheInv(place, mem) /\ CleanInv(place, mem) /\ OwnInv(place, mem)
  BY DEF IndInv, ControlInv
<1>2. /\ Own(place) \subseteq Lines(place) /\ EvictBuf(place) \subseteq Lines(place)
      /\ Own(place) \cap EvictBuf(place) = {}
  BY <1>1, PlaceFacts
<1>3. \A y \in Own(place) : Resident(mem', y) <=> y = x \/ Resident(mem, y)
  BY <1>1, OwnAccess
<1>4. \A y \in Lines(place) : mem'.fills[y] = IF y = x /\ ~Resident(mem, x) THEN mem.fills[y] + 1
                                              ELSE mem.fills[y]
  BY <1>1, OwnTraffic
<1>5. ASSUME NEW y \in Own(place)
      PROVE  mem'.fills[y] <= IF Resident(mem', y) THEN 1 ELSE 0
  <2>1. mem.fills[y] <= IF Resident(mem, y) THEN 1 ELSE 0
    BY DEF OthersInv
  <2>2. mem.fills[y] \in Nat
    BY <1>1, <1>2 DEF CacheInv
  <2> QED BY <1>2, <1>3, <1>4, <2>1, <2>2
<1>6. ASSUME step \in 15 .. 17, NEW y \in EvictBuf(place)
      PROVE  mem'.fills[y] = 0
  <2>1. mem.fills[y] = 0
    BY <1>6 DEF OthersInv
  <2> QED BY <1>2, <1>4, <1>6, <2>1
<1> QED BY <1>5, <1>6

LEMMA OthersNext == IndInv /\ IndInv' /\ OthersInv /\ Next => OthersInv'
<1> SUFFICES ASSUME IndInv, IndInv', OthersInv, Next PROVE OthersInv'
  OBVIOUS
<1>0. /\ place \in Places /\ step \in 1 .. 20 /\ CacheInv(place, mem)
      /\ Len(sections) \in Nat
  BY DEF IndInv, ControlInv
<1>b. /\ Running("zero .bss") \/ Running("copy .data") => step \in {1, 2}
      /\ Running("reset") => step \in {4, 10, 14}
      /\ Running("dump") => step \in {8, 12, 18}
      /\ Running("evict") => step \in {3, 11}
      /\ Running("results") => step \in {9, 19}
  BY <1>0, ProgramSteps
<1>a. /\ Own(place) \subseteq Lines(place) /\ EvictBuf(place) \subseteq Lines(place)
      /\ Kernels(place) \subseteq Own(place)
      /\ place.counters \in Own(place) /\ place.results \in Own(place)
  BY <1>0, PlaceFacts
<1>1. CASE BootWrite \/ BootNext
  <2>1. /\ step \in {1, 2} /\ (step' = step \/ step' = step + 1)
        /\ UNCHANGED <<place, sections>>
    BY <1>1, <1>b DEF BootWrite, BootNext
  <2> QED BY <2>1, OthersKept DEF OthersInv
<1>2. CASE m5_reset_stats
  <2>1. /\ step \in {4, 10, 14} /\ step' = step + 1 /\ UNCHANGED <<place, sections>>
        /\ mem'.fills = NoTraffic(place) /\ mem'.writebacks = NoTraffic(place)
        /\ mem'.dirty = mem.dirty /\ mem.dirty \subseteq Lines(place)
    BY <1>0, <1>2, <1>b DEF m5_reset_stats, CacheInv
  <2>2. \A x \in Lines(place) : mem'.fills[x] = 0 /\ mem'.writebacks[x] = 0
    BY <2>1 DEF NoTraffic
  <2>3. \A x \in Own(place)' : mem'.fills[x] <= IF Resident(mem', x) THEN 1 ELSE 0
    BY <1>a, <2>1, <2>2
  <2>4. \A x \in EvictBuf(place)' : mem'.fills[x] = 0
    BY <1>a, <2>1, <2>2
  <2>5. Once(mem.writebacks)' /\ \A x \in mem'.dirty : mem'.writebacks[x] = 0
    BY <1>a, <2>1, <2>2 DEF Once
  <2> QED BY <2>1, <2>3, <2>4, <2>5, OthersKept DEF OthersInv
<1>3. CASE m5_dump_stats
  <2> DEFINE now == [fills |-> mem.fills, writebacks |-> mem.writebacks]
  <2>1. /\ UNCHANGED <<place, mem>> /\ step \in {8, 12, 18} /\ step' = step + 1
        /\ sections' = Append(sections, now)
        /\ sections \in Seq([fills : [Lines(place) -> Nat], writebacks : [Lines(place) -> Nat]])
    BY <1>0, <1>3, ProgramSteps DEF m5_dump_stats, IndInv, ControlInv
  <2>2. now \in [fills : [Lines(place) -> Nat], writebacks : [Lines(place) -> Nat]]
    BY <1>0 DEF CacheInv
  <2>3. /\ step = 8 => Len(sections) = 0
        /\ step = 12 => Len(sections) = 1
        /\ step = 18 => Len(sections) = 2
    BY DEF IndInv, ControlInv
  <2>4. now.fills = mem.fills /\ now.writebacks = mem.writebacks
    OBVIOUS
  <2> HIDE DEF now
  <2>5. /\ Len(sections') = Len(sections) + 1
        /\ \A i \in 1 .. Len(sections) : sections'[i] = sections[i]
        /\ sections'[Len(sections) + 1] = now
    BY <2>1, <2>2
  <2>9. \A x \in Own(place) : mem.fills[x] \in Nat
    BY <1>0, <1>a DEF CacheInv
  <2>6. CASE step = 8
    <3>0. Len(sections') = 1 /\ sections'[1] = now
      BY <2>3, <2>5, <2>6
    <3>1. Section(1)' = now /\ ~Dumped(2)' /\ ~Dumped(3)'
      BY <3>0 DEF Section, Dumped
    <3>2. Once(mem.fills)
      BY <2>6, <2>9 DEF OthersInv, Once
    <3> QED BY <2>1, <2>4, <2>6, <3>1, <3>2 DEF OthersInv, Once
  <2>7. CASE step = 12
    <3>2. Len(sections) = 1
      BY <2>3, <2>7
    <3>0. Len(sections) = 1 /\ Len(sections') = 2 /\ sections'[1] = sections[1] /\ sections'[2] = now
      BY <2>5, <3>2
    <3>1. Section(1)' = Section(1) /\ Section(2)' = now /\ Dumped(1) /\ ~Dumped(3)'
      BY <3>0 DEF Section, Dumped
    <3> QED BY <2>1, <2>4, <2>7, <3>1 DEF OthersInv, Once
  <2>8. CASE step = 18
    <3>3. Len(sections) = 2
      BY <2>3, <2>8
    <3>0. /\ Len(sections) = 2 /\ Len(sections') = 3
          /\ sections'[1] = sections[1] /\ sections'[2] = sections[2] /\ sections'[3] = now
      BY <2>5, <3>3
    <3>1. /\ Section(1)' = Section(1) /\ Section(2)' = Section(2) /\ Section(3)' = now
          /\ Dumped(1) /\ Dumped(2)
      BY <3>0 DEF Section, Dumped
    <3>2. Once(mem.fills) /\ \A x \in EvictBuf(place) : mem.fills[x] = 0
      BY <2>8, <2>9 DEF OthersInv, Once
    <3> QED BY <2>1, <2>4, <2>8, <3>1, <3>2 DEF OthersInv, Once
  <2> QED BY <2>1, <2>6, <2>7, <2>8
<1>4. CASE Counters
  <2>1. /\ step \in {5, 7, 15, 17} /\ step' = step + 1 /\ UNCHANGED <<place, sections>>
        /\ mem' = Access(mem, place.counters, "write")
    BY <1>0, <1>4, ProgramSteps DEF Counters
  <2>2. /\ \A y \in Own(place) : mem'.fills[y] <= IF Resident(mem', y) THEN 1 ELSE 0
        /\ step \in 15 .. 17 => \A y \in EvictBuf(place) : mem'.fills[y] = 0
    BY <1>a, <2>1, OthersAccess
  <2> QED BY <2>1, <2>2, OthersKept DEF OthersInv
<1>5. CASE Results
  <2>1. step \in {9, 19} /\ step' = step + 1 /\ UNCHANGED <<place, sections>>
    BY <1>5, <1>b DEF Results
  <2> QED BY <2>1, OthersKept DEF OthersInv
<1>6. CASE EvictLoad
  <2> DEFINE x == place.evict + e
  <2>1. /\ step \in {3, 11} /\ UNCHANGED <<place, step, sections>>
        /\ mem' = Access(mem, x, "read") /\ e \in 0 .. EvictLines - 1
    <3>1. e \in 0 .. EvictLines /\ e < EvictLines
      BY <1>6 DEF EvictLoad, IndInv, ControlInv
    <3>2. e \in 0 .. EvictLines - 1
      BY <3>1, Sizes
    <3> QED BY <1>6, <1>b, <3>2 DEF EvictLoad
  <2>2. x \in Lines(place)
    BY <1>0, <1>a, <2>1, ReadGrows
  <2>3. \A y \in Lines(place) : /\ y \in mem'.dirty <=> y \in mem.dirty /\ ~Evicted(mem, x, y)
                                /\ mem'.writebacks[y] = IF Evicted(mem, x, y) /\ y \in mem.dirty
                                                        THEN mem.writebacks[y] + 1
                                                        ELSE mem.writebacks[y]
    BY <1>0, <2>1, <2>2, AccessFacts
  <2>4. CASE step = 11
    <3>1. Once(mem.writebacks)'
      <4>1. \A y \in Own(place) : mem'.writebacks[y] <= 1
        BY <1>a, <2>3, <2>4 DEF OthersInv, Once
      <4> QED BY <2>1, <4>1 DEF Once
    <3>2. \A y \in mem'.dirty : mem'.writebacks[y] = 0
      <4>1. mem'.dirty \subseteq Lines(place)
        BY <2>1 DEF IndInv, CacheInv
      <4> QED BY <2>3, <2>4, <4>1 DEF OthersInv
    <3> QED BY <2>1, <2>4, <3>1, <3>2, OthersKept DEF OthersInv
  <2>5. CASE step = 3
    BY <2>1, <2>5, OthersKept DEF OthersInv
  <2> QED BY <2>1, <2>4, <2>5
<1>7. CASE EvictSink
  <2>1. /\ step \in {3, 11} /\ step' = step + 1 /\ UNCHANGED <<place, sections>>
        /\ mem' = Access(mem, place.sink, "write") /\ e = EvictLines
    BY <1>0, <1>7, ProgramSteps DEF EvictSink
  <2>2. \A y \in Lines(place) : mem'.writebacks[y] = mem.writebacks[y]
    <3>1. EvictInv
      BY <2>1 DEF IndInv
    <3> QED BY <1>0, <2>1, <3>1, Flushed
  <2>3. step = 11 => Once(mem.writebacks)'
    BY <1>a, <2>1, <2>2 DEF OthersInv, Once
  <2> QED BY <2>1, <2>3, OthersKept DEF OthersInv
<1>8. CASE KernelReturn
  <2>1. step \in {6, 13, 16} /\ step' = step + 1 /\ UNCHANGED <<place, mem, sections>>
    BY <1>0, <1>8, ProgramSteps DEF KernelReturn
  <2> QED BY <2>1, OthersKept DEF OthersInv, Resident
<1>9. ASSUME NEW a \in KernelWork(place), KernelAccess(a[1], a[2]) PROVE OthersInv'
  <2>1. step \in {6, 13, 16} /\ UNCHANGED <<place, step, sections>> /\ mem' = Access(mem, a[1], a[2])
    BY <1>0, <1>9, ProgramSteps DEF KernelAccess
  <2>2. a[1] \in Own(place)
    BY <1>0, <1>a, WorkFacts
  <2>3. step \in {6, 16} =>
          /\ \A y \in Own(place) : mem'.fills[y] <= IF Resident(mem', y) THEN 1 ELSE 0
          /\ step \in 15 .. 17 => \A y \in EvictBuf(place) : mem'.fills[y] = 0
    BY <2>1, <2>2, OthersAccess
  <2> QED BY <2>1, <2>3, OthersKept DEF OthersInv
<1> QED BY <1>1, <1>2, <1>3, <1>4, <1>5, <1>6, <1>7, <1>8, <1>9 DEF Next

\* No line of the program is filled twice in a section, or written back twice
\* in the second (gemm.c:471-510).
THEOREM OthersCountOnce == Spec => []OthersInv
<1>1. Init => OthersInv
  BY DEF Init, OthersInv, Dumped
<1>2. IndInv /\ IndInv' /\ OthersInv /\ [Next]_vars => OthersInv'
  <2>1. OthersInv /\ UNCHANGED vars => OthersInv'
    BY DEF OthersInv, vars, Resident, Once, Dumped, Section
  <2> QED BY <2>1, OthersNext
<1> QED BY <1>1, <1>2, Invariance, PTL DEF Spec

\* As many pairs with a 1 as elements.
LEMMA Tagged ==
  ASSUME NEW W, IsFiniteSet(W)
  PROVE  /\ IsFiniteSet(W \X {1})
         /\ Cardinality(W \X {1}) = Cardinality(W)
<1> DEFINE f == [x \in W |-> <<x, 1>>]
<1>1. f \in Bijection(W, W \X {1})
  <2>1. f \in [W -> W \X {1}]
    OBVIOUS
  <2>2. \A a, b \in W : f[a] = f[b] => a = b
    OBVIOUS
  <2>3. \A t \in W \X {1} : \E a \in W : f[a] = t
    OBVIOUS
  <2> QED BY <2>1, <2>2, <2>3 DEF Bijection, Injection, Surjection, IsInjective
<1> QED BY <1>1, FS_Bijection DEF ExistsBijection

\* What is counted once for each element of S and at most once for others, of T,
\* is counted Cardinality(S) times and at most Cardinality(T) times more.
LEMMA CountedOnce ==
  ASSUME NEW D, NEW count \in [D -> Nat], NEW S \in SUBSET D, NEW T,
         IsFiniteSet(S), IsFiniteSet(T),
         \A x \in S : count[x] = 1,
         \A x \in T \cap D : count[x] <= 1,
         \A x \in D \ (S \cup T) : count[x] = 0
  PROVE  /\ Cardinality(Units(count)) \in Nat
         /\ Cardinality(S) <= Cardinality(Units(count))
         /\ Cardinality(Units(count)) <= Cardinality(S) + Cardinality(T)
<1>1. Units(count) = UNION {{x} \X (1 .. count[x]) : x \in D}
  BY DEF Units
<1>2. ASSUME NEW x \in S PROVE <<x, 1>> \in Units(count)
  <2>1. x \in D /\ <<x, 1>> \in {x} \X (1 .. count[x])
    BY <1>2
  <2> QED BY <1>1, <2>1
<1>3. ASSUME NEW u \in Units(count) PROVE u \in (S \cup T) \X {1}
  <2>1. PICK x \in D : u \in {x} \X (1 .. count[x])
    BY <1>1, <1>3
  <2>2. count[x] \in Nat /\ count[x] # 0
    BY <2>1
  <2>3. x \in S \cup T
    BY <2>2
  <2>4. count[x] <= 1
    BY <2>3
  <2>5. 1 .. count[x] = {1}
    BY <2>2, <2>4
  <2> QED BY <2>1, <2>3, <2>5
<1>4. /\ IsFiniteSet(S \cup T)
      /\ Cardinality(S \cup T) = Cardinality(S) + Cardinality(T) - Cardinality(S \cap T)
  BY FS_Union
<1>5. IsFiniteSet(S \cap T) /\ Cardinality(S \cap T) \in Nat
  <2>1. S \cap T \in SUBSET S
    OBVIOUS
  <2> QED BY <2>1, FS_Subset, FS_CardinalityType
<1>6. /\ IsFiniteSet((S \cup T) \X {1})
      /\ Cardinality((S \cup T) \X {1}) = Cardinality(S \cup T)
  BY <1>4, Tagged
<1>7. Units(count) \in SUBSET ((S \cup T) \X {1})
  BY <1>3
<1>8. /\ IsFiniteSet(Units(count))
      /\ Cardinality(Units(count)) <= Cardinality((S \cup T) \X {1})
  BY <1>6, <1>7, FS_Subset
<1>9. S \X {1} \in SUBSET Units(count)
  BY <1>2
<1>10. Cardinality(S \X {1}) <= Cardinality(Units(count))
  BY <1>8, <1>9, FS_Subset
<1>11. Cardinality(S \X {1}) = Cardinality(S)
  BY Tagged
<1>12. /\ Cardinality(S) \in Nat /\ Cardinality(T) \in Nat
       /\ Cardinality(Units(count)) \in Nat
  BY <1>8, FS_CardinalityType
<1> QED BY <1>4, <1>5, <1>6, <1>8, <1>10, <1>11, <1>12

\* The lines of a place, counted.
LEMMA LineCounts ==
  ASSUME NEW p \in Places
  PROVE  /\ IsFiniteSet(Matrices(p)) /\ IsFiniteSet(p.C) /\ IsFiniteSet(Others(p))
         /\ Cardinality(Matrices(p)) \in Nat /\ Cardinality(p.C) \in Nat
         /\ Cardinality(Others(p)) \in Nat
         /\ Own(p) = Matrices(p) \cup Others(p) /\ Matrices(p) \cap Others(p) = {}
<1>1. IsFiniteSet(Own(p))
  BY PlacesAssumption
<1>2. Own(p) = Matrices(p) \cup Others(p)
  BY DEF Own, Kernels, Others
<1>3. Matrices(p) \cap Others(p) = {} /\ p.C \subseteq Matrices(p)
  BY PlaceFacts DEF Others
<1>4. Matrices(p) \in SUBSET Own(p) /\ p.C \in SUBSET Own(p) /\ Others(p) \in SUBSET Own(p)
  BY <1>2, <1>3
<1>5. IsFiniteSet(Matrices(p)) /\ IsFiniteSet(p.C) /\ IsFiniteSet(Others(p))
  BY <1>1, <1>4, FS_Subset
<1> QED BY <1>2, <1>3, <1>5, FS_CardinalityType

\* The points the plot makes of the sections: of a cold call the compulsory
\* traffic, and at most each line of the kernel's stack, of the counters, the
\* results and the sink read once and written back once, of a warm call at most
\* those read, however many lines the stack has and wherever everything lies;
\* and where the points are on the x axis (gen_hroofline_svg.py:111-122).
THEOREM PlottedPoints == Spec => []PlottedTraffic
<1>1. IndInv /\ OthersInv => PlottedTraffic
  <2> SUFFICES ASSUME IndInv, OthersInv, Len(sections) = 3 PROVE PlottedTraffic
    BY DEF PlottedTraffic
  <2> DEFINE D == Lines(place)
             M == Matrices(place)
             O == Others(place)
             m == Cardinality(M)
             c == Cardinality(place.C)
             o == Cardinality(O)
  <2>1. /\ place \in Places
        /\ sections \in Seq([fills : [D -> Nat], writebacks : [D -> Nat]])
        /\ ColdReads /\ EvictWrites /\ WarmHits
    BY DEF IndInv, ControlInv
  <2>2. /\ Dumped(1) /\ Dumped(2) /\ Dumped(3)
    BY DEF Dumped
  <2>3. /\ Section(1).fills \in [D -> Nat] /\ Section(2).writebacks \in [D -> Nat]
        /\ Section(3).fills \in [D -> Nat]
    <3> HIDE DEF D
    <3> DEFINE R == [fills : [D -> Nat], writebacks : [D -> Nat]]
    <3>1. \A r \in R : r.fills \in [D -> Nat] /\ r.writebacks \in [D -> Nat]
      OBVIOUS
    <3>2. sections \in Seq(R)
      BY <2>1
    <3> HIDE DEF R
    <3>3. sections[1] \in R /\ sections[2] \in R /\ sections[3] \in R
      BY <3>2
    <3> QED BY <3>1, <3>3 DEF Section
  <2>4. /\ IsFiniteSet(M) /\ IsFiniteSet(place.C) /\ IsFiniteSet(O) /\ IsFiniteSet({})
        /\ m \in Nat /\ c \in Nat /\ o \in Nat /\ Cardinality({}) = 0
        /\ Own(place) = M \cup O /\ M \cap O = {}
    BY <2>1, LineCounts, FS_EmptySet
  <2>5. /\ D = M \cup O \cup EvictBuf(place) /\ place.C \subseteq M
        /\ EvictBuf(place) \cap (M \cup O) = {}
    BY <2>1, <2>4, PlaceFacts
  <2> HIDE DEF D, M, O
  <2>6. /\ fills_cold \in Nat /\ m <= fills_cold /\ fills_cold <= m + o
    <3>1. /\ \A x \in M : Section(1).fills[x] = 1
          /\ \A x \in O \cap D : Section(1).fills[x] <= 1
          /\ \A x \in D \ (M \cup O) : Section(1).fills[x] = 0
      BY <2>1, <2>2, <2>4, <2>5 DEF ColdReads, OthersInv, Once, M
    <3>2. fills_cold = Cardinality(Units(Section(1).fills))
      BY DEF fills_cold, stat, secs, Section
    <3>3. M \in SUBSET D
      BY <2>5
    <3> QED BY <2>3, <2>4, <3>1, <3>2, <3>3, CountedOnce
  <2>7. /\ wb \in Nat /\ c <= wb /\ wb <= c + o
    <3>1. /\ \A x \in place.C : Section(2).writebacks[x] = 1
          /\ \A x \in O \cap D : Section(2).writebacks[x] <= 1
          /\ \A x \in D \ (place.C \cup O) : Section(2).writebacks[x] = 0
      BY <2>1, <2>2, <2>4, <2>5 DEF EvictWrites, OthersInv, Once, M
    <3>2. wb = Cardinality(Units(Section(2).writebacks))
      BY DEF wb, stat, secs, Section
    <3>3. place.C \in SUBSET D
      BY <2>5
    <3> QED BY <2>3, <2>4, <3>1, <3>2, <3>3, CountedOnce
  <2>8. /\ fills_warm \in Nat /\ fills_warm <= o
    <3>1. /\ \A x \in O \cap D : Section(3).fills[x] <= 1
          /\ \A x \in D \ ({} \cup O) : Section(3).fills[x] = 0
      <4>1. \A x \in M : Section(3).fills[x] = 0
        BY <2>1, <2>2 DEF WarmHits, Kernels, M
      <4> QED BY <2>2, <2>4, <2>5, <4>1 DEF OthersInv, Once
    <3>2. fills_warm = Cardinality(Units(Section(3).fills))
      BY DEF fills_warm, stat, secs, Section
    <3> QED BY <2>3, <2>4, <3>1, <3>2, CountedOnce
  <2>9. /\ q.cold = (fills_cold + wb) * LINE /\ q.warm = fills_warm * LINE
        /\ q["cold"] = q.cold /\ q["warm"] = q.warm
    BY DEF q
  <2>10. /\ FLOPS \in Nat /\ FLOPS <= 1000 * LINE /\ m + c > o
         /\ (m + c + 2 * o) * LINE <= 10 * FLOPS
    BY <2>1, FlopsAssumption DEF Compulsory, M, O
  <2> HIDE DEF m, c, o
  <2>11. /\ q.cold \in (m + c) * LINE .. (m + c + 2 * o) * LINE
         /\ q.warm \in 0 .. o * LINE /\ q.warm < q.cold
    BY <2>4, <2>6, <2>7, <2>8, <2>9, <2>10 DEF LINE
  <2>12. Plotted("cold") /\ (q.warm > 0 => Plotted("warm"))
    BY <2>4, <2>6, <2>7, <2>8, <2>9, <2>10 DEF LINE, Plotted
  <2>13. Compulsory(place) = m + c /\ Cardinality(Others(place)) = o
    BY DEF Compulsory, m, c, o, M, O
  <2> QED BY <2>11, <2>12, <2>13 DEF PlottedTraffic
<1> QED BY <1>1, Invariance, OthersCountOnce, PTL

-----------------------------------------------------------------------------
(* Numbers and sets.                                                       *)

\* A set of numbers has a least element.
LEMMA MinOf ==
  ASSUME NEW S, S \subseteq Nat, S # {}
  PROVE  Min(S) \in S /\ \A y \in S : Min(S) <= y
<1> DEFINE R == {ss \in Nat \X Nat : ss[1] < ss[2]}
<1>1. IsWellFoundedOn(R, Nat)
  BY NatLessThanWellFounded DEF OpToRel
<1>2. PICK x \in S : \A y \in S : ~ (<<y, x>> \in R)
  <2> HIDE DEF R
  <2> QED BY <1>1, WFMin
<1>3. ASSUME NEW y \in S PROVE x <= y
  <2>1. x \in Nat /\ y \in Nat /\ ~ (y < x)
    BY <1>2
  <2> QED BY <2>1
<1> QED BY <1>3 DEF Min

\* A bounded one has a greatest.
LEMMA MaxOf ==
  ASSUME NEW S, S \subseteq Nat, S # {}, NEW b \in Nat, \A x \in S : x <= b
  PROVE  Max(S) \in S /\ \A y \in S : y <= Max(S)
<1> DEFINE U == {c \in Nat : \A x \in S : x <= c}
<1>1. U \subseteq Nat /\ b \in U
  OBVIOUS
<1>2. PICK c \in U : \A d \in U : c <= d
  <2> HIDE DEF U
  <2> QED BY <1>1, MinOf
<1>3. c \in Nat /\ \A x \in S : x <= c
  OBVIOUS
<1>4. c \in S
  <2> SUFFICES ASSUME c \notin S PROVE FALSE
    OBVIOUS
  <2>1. PICK x \in S : TRUE
    OBVIOUS
  <2>2. c - 1 \in Nat
    BY <2>1, <1>3
  <2>3. ASSUME NEW y \in S PROVE y <= c - 1
    BY <1>3
  <2>4. c - 1 \in U
    BY <2>2, <2>3
  <2> QED BY <2>4, <1>2, <1>3
<1>5. \A y \in S : c >= y
  BY <1>3
<1> QED BY <1>4, <1>5, <1>3 DEF Max

\* A function from 1 .. n to numbers is bounded.
LEMMA BoundOf ==
  ASSUME NEW n \in Nat, NEW f, \A i \in 1 .. n : f[i] \in Nat
  PROVE  \E b \in Nat : \A i \in 1 .. n : f[i] <= b
<1> DEFINE Bounded(m) == \E b \in Nat : \A i \in 1 .. m : f[i] <= b
           Wrong == {m \in 0 .. n : ~Bounded(m)}
<1>1. SUFFICES Wrong = {}
  <2>1. n \in 0 .. n
    OBVIOUS
  <2>2. Bounded(n)
    <3> HIDE DEF Bounded
    <3> QED BY <1>1, <2>1
  <2> QED BY <2>2
<1>2. SUFFICES ASSUME Wrong # {} PROVE FALSE
  OBVIOUS
<1>3. PICK m \in Wrong : \A y \in Wrong : m <= y
  <2>1. Wrong \subseteq Nat
    OBVIOUS
  <2> HIDE DEF Wrong
  <2> QED BY <2>1, <1>2, MinOf
<1>4. m # 0
  <2>1. 0 \in Nat /\ \A i \in 1 .. 0 : f[i] <= 0
    OBVIOUS
  <2>2. Bounded(0)
    BY <2>1
  <2> QED BY <2>2
<1>5. PICK b \in Nat : \A i \in 1 .. m - 1 : f[i] <= b
  <2>1. m - 1 \in 0 .. n /\ ~(m <= m - 1)
    BY <1>4
  <2>2. Bounded(m - 1)
    <3> HIDE DEF Bounded
    <3> QED BY <2>1, <1>3
  <2> QED BY <2>2
<1>6. PICK v \in Nat : v = f[m]
  BY <1>4
<1>7. b + v \in Nat /\ \A i \in 1 .. m : f[i] <= b + v
  <2> SUFFICES ASSUME NEW i \in 1 .. m PROVE f[i] <= b + v
    BY <1>6
  <2>1. CASE i = m
    BY <2>1, <1>6
  <2>2. CASE i # m
    <3>1. i \in 1 .. m - 1 /\ f[i] \in Nat
      BY <2>2
    <3> QED BY <3>1, <1>5, <1>6
  <2> QED BY <2>1, <2>2
<1>8. Bounded(m)
  BY <1>7
<1> QED BY <1>8

\* Ticks are whole cycles.
LEMMA CycleOfTicks ==
  ASSUME NEW c \in Nat
  PROVE  Cycle(c * TICKS_PER_CYCLE) = c /\ c * TICKS_PER_CYCLE \in Nat
         /\ (c * TICKS_PER_CYCLE > 0 <=> c > 0)
<1>0. PICK t \in Nat \ {0} : t = TICKS_PER_CYCLE
  BY CoresAssumption
<1>1. PICK x \in Nat : x = c * t
  OBVIOUS
<1>2. PICK a \in Nat : a = x \div t /\ a * t <= x /\ x < a * t + t
  BY <1>1
<1>3. ~ (a < c)
  <2>1. ASSUME a < c PROVE a * t + t <= c * t
    <3>1. PICK d \in Nat : c = a + 1 + d
      BY <2>1
    <3>2. c * t = a * t + t + d * t /\ d * t >= 0
      BY <3>1
    <3> QED BY <3>2
  <2> QED BY <2>1, <1>1, <1>2
<1>4. ~ (c < a)
  <2>1. ASSUME c < a PROVE c * t + t <= a * t
    <3>1. PICK d \in Nat : a = c + 1 + d
      BY <2>1
    <3>2. a * t = c * t + t + d * t /\ d * t >= 0
      BY <3>1
    <3> QED BY <3>2
  <2> QED BY <2>1, <1>1, <1>2
<1>5. a = c
  BY <1>3, <1>4
<1>6. x > 0 <=> c > 0
  <2>1. CASE c > 0
    <3>1. PICK d \in Nat : c = d + 1
      BY <2>1
    <3>2. x = d * t + t /\ d * t >= 0
      BY <3>1, <1>1
    <3> QED BY <3>2, <2>1
  <2>2. CASE c = 0
    BY <2>2, <1>1
  <2> QED BY <2>1, <2>2
<1> QED BY <1>0, <1>1, <1>2, <1>5, <1>6 DEF Cycle

\* The cycle of a number of ticks is a number.
LEMMA CycleType ==
  ASSUME NEW x \in Nat
  PROVE  Cycle(x) \in Nat
<1> QED BY CoresAssumption DEF Cycle

-----------------------------------------------------------------------------
(* The cores.                                                              *)

\* What a record holds.  (The provers do not take "addi" for a string.)
Records == [pc : Nat, dis : STRING \cup {"addi"}, reg : Nat, unit : Nat, fetch : Nat, dispatch : Nat,
            issue : Nat, complete : Nat, retire : Nat]

CoreTypeOK ==
  /\ \E r \in RUNS : core = r.core /\ prog = r.prog
  /\ next \in 1 .. Len(prog) + 1 /\ trace \in Seq(Records)
  /\ lost \in BOOLEAN /\ faults \subseteq Kept

\* A committed micro-op goes through its stages in order, on a unit of its
\* class; a squashed one has only been fetched.
StageInv ==
  /\ \A k \in Indices : At(k, "fetch") >= 1 /\ (trace[k].issue > 0 <=> trace[k].retire > 0)
  /\ \A k \in Kept :
       /\ trace[k].unit \in Serving(OpClass(trace[k].dis))
       /\ At(k, "dispatch") = At(k, "fetch") + 1 /\ At(k, "dispatch") <= At(k, "issue")
       /\ At(k, "complete") = At(k, "issue") + core.units[trace[k].unit].lat[OpClass(trace[k].dis)]
       /\ At(k, "complete") < At(k, "retire")

\* Fetch and commit are in program order.
OrderInv ==
  \A j, k \in Indices : j < k =>
    /\ At(j, "fetch") <= At(k, "fetch")
    /\ {j, k} \subseteq Kept => At(j, "retire") <= At(k, "retire")

\* The squashed micro-ops follow a mispredicted branch and are fetched before it
\* is resolved, what comes after them is fetched later.
PathInv ==
  /\ \A k \in Indices \ Kept : \E b \in faults :
       /\ b < k /\ (b + 1 .. k) \cap Kept = {}
       /\ At(k, "fetch") <= At(b, "complete")
  /\ \A b \in faults, k \in Kept : b < k => At(b, "complete") < At(k, "fetch")
  /\ lost <=> \E b \in faults : (b + 1 .. Len(trace)) \cap Kept = {}

\* An in-order core follows the program and issues in its order; none issues
\* more than its width in a cycle.
IssueInv ==
  /\ ~core.ooo =>
       /\ ~lost /\ Kept = Indices /\ next = Len(trace) + 1
       /\ \A k \in Indices : trace[k].dis = prog[k].dis /\ trace[k].reg = prog[k].reg
       /\ \A j, k \in Indices : j < k => At(j, "issue") <= At(k, "issue")
  /\ \A t \in Nat : Cardinality({k \in Issued : At(k, "issue") = t}) <= core.width

CoreInv == CoreTypeOK /\ StageInv /\ OrderInv /\ PathInv /\ IssueInv

Stages == {"fetch", "dispatch", "issue", "complete", "retire"}
Instructions == [pc : Nat, dis : STRING, reg : Nat]

\* What the assumption on RUNS says of the core at work.
LEMMA CoreFacts ==
  ASSUME CoreTypeOK
  PROVE  /\ IsCore(core) /\ prog \in Seq(Instructions)
         /\ \A c : \A u \in Serving(c) :
              /\ u \in Nat /\ u \in DOMAIN core.units
              /\ core.units[u].lat[c] \in Nat \ {0}
              /\ core.units[u].issueLat \in Nat \ {0} /\ core.units[u].rel \in Nat
<1>1. IsCore(core) /\ prog \in Seq(Instructions)
  BY CoresAssumption DEF CoreTypeOK, Instructions
<1>2. ASSUME NEW c, NEW u \in Serving(c)
      PROVE  /\ u \in Nat /\ u \in DOMAIN core.units
             /\ core.units[u].lat[c] \in Nat \ {0}
             /\ core.units[u].issueLat \in Nat \ {0} /\ core.units[u].rel \in Nat
  <2>1. u \in Nat /\ u \in DOMAIN core.units /\ c \in DOMAIN core.units[u].lat
    BY <1>1 DEF IsCore, Serving
  <2>2. IsUnit(core.units[u])
    BY <1>1, <2>1 DEF IsCore
  <2> QED BY <2>1, <2>2 DEF IsUnit
<1> QED BY <1>1, <1>2

\* Records and their stages.
LEMMA TraceFacts ==
  ASSUME CoreTypeOK
  PROVE  /\ Len(trace) \in Nat /\ Indices \subseteq Nat /\ Kept \subseteq Indices /\ Issued \subseteq Indices
         /\ faults \subseteq Kept
         /\ \A k \in Indices : trace[k] \in Records
         /\ \A k \in Indices : \A s \in Stages : At(k, s) \in Nat
<1>1. trace \in Seq(Records) /\ Len(trace) \in Nat /\ Indices \subseteq Nat /\ faults \subseteq Kept
  BY DEF CoreTypeOK, Indices
<1>2. \A k \in Indices : trace[k] \in Records
  BY <1>1 DEF Indices
<1>3. Kept \subseteq Indices /\ Issued \subseteq Indices
  BY DEF Kept, Issued
<1>4. ASSUME NEW k \in Indices, NEW s \in Stages PROVE At(k, s) \in Nat
  <2>1. trace[k][s] \in Nat
    BY <1>2, <1>4 DEF Records, Stages
  <2> QED BY <2>1, CycleType DEF At
<1> QED BY <1>1, <1>2, <1>3, <1>4

\* Committed micro-ops are those that have been issued.
LEMMA IssuedKept ==
  ASSUME StageInv
  PROVE  Issued = Kept
<1> QED BY DEF StageInv, Issued, Kept, Indices

\* The pipeline drains.
LEMMA DrainedFacts ==
  ASSUME CoreTypeOK, StageInv, NEW t \in Nat
  PROVE  /\ Drained(t) \in Nat /\ t <= Drained(t)
         /\ \A k \in Issued : /\ At(k, "complete") <= Drained(t)
                              /\ At(k, "issue") + core.units[trace[k].unit].issueLat <= Drained(t)
<1> DEFINE free(k) == At(k, "issue") + core.units[trace[k].unit].issueLat
           S == {t} \cup {At(k, "complete") : k \in Issued} \cup {free(k) : k \in Issued}
<1>1. \A k \in Issued : At(k, "complete") \in Nat /\ free(k) \in Nat
  <2> SUFFICES ASSUME NEW k \in Issued PROVE At(k, "complete") \in Nat /\ free(k) \in Nat
    OBVIOUS
  <2>1. k \in Indices /\ trace[k].unit \in Serving(OpClass(trace[k].dis))
    BY IssuedKept, TraceFacts DEF StageInv
  <2>2. At(k, "complete") \in Nat /\ At(k, "issue") \in Nat
    BY <2>1, TraceFacts DEF Stages
  <2>3. core.units[trace[k].unit].issueLat \in Nat
    BY <2>1, CoreFacts
  <2> QED BY <2>2, <2>3
<1>2. S \subseteq Nat /\ S # {}
  BY <1>1
<1> DEFINE f == [k \in 1 .. Len(trace) |-> IF k \in Issued THEN At(k, "complete") + free(k) ELSE 0]
<1>3. PICK b \in Nat : \A k \in 1 .. Len(trace) : f[k] <= b
  <2>1. Len(trace) \in Nat /\ \A k \in 1 .. Len(trace) : f[k] \in Nat
    BY <1>1, TraceFacts
  <2> HIDE DEF f
  <2> QED BY <2>1, BoundOf
<1>4. \A k \in Issued : At(k, "complete") <= b + t /\ free(k) <= b + t
  <2> SUFFICES ASSUME NEW k \in Issued PROVE At(k, "complete") <= b + t /\ free(k) <= b + t
    OBVIOUS
  <2>1. k \in 1 .. Len(trace)
    BY TraceFacts DEF Indices
  <2>2. At(k, "complete") + free(k) <= b
    BY <2>1, <1>3
  <2> HIDE DEF free
  <2> QED BY <2>2, <1>1
<1>5. \A x \in S : x <= b + t
  BY <1>4
<1>6. b + t \in Nat
  OBVIOUS
<1>7. Max(S) \in S /\ \A y \in S : y <= Max(S)
  <2> HIDE DEF S
  <2> QED BY <1>2, <1>5, <1>6, MaxOf
<1>8. Drained(t) = Max(S)
  BY DEF Drained
<1>9. Max(S) \in Nat /\ t <= Max(S) /\ \A k \in Issued : At(k, "complete") <= Max(S) /\ free(k) <= Max(S)
  BY <1>2, <1>7
<1> QED BY <1>8, <1>9

LEMMA MaxOfTwo ==
  ASSUME NEW a \in Int, NEW b \in Int
  PROVE  Max({a, b}) = IF a >= b THEN a ELSE b
<1> DEFINE m == IF a >= b THEN a ELSE b
<1>1. m \in {a, b} /\ \A y \in {a, b} : m >= y
  OBVIOUS
<1>2. \A x \in {a, b} : (\A y \in {a, b} : x >= y) => x = m
  OBVIOUS
<1> QED BY <1>1, <1>2 DEF Max

\* When an instruction's operands are there.
LEMMA ReadyFacts ==
  ASSUME CoreTypeOK, StageInv, NEW x \in Instructions, NEW c, NEW u \in Serving(c)
  PROVE  \/ Producers(x) = {} /\ Ready(x, u) = 0
         \/ /\ Max(Producers(x)) \in Producers(x) /\ \A k \in Producers(x) : k <= Max(Producers(x))
            /\ LET p == Max(Producers(x))
                   d == At(p, "complete") - core.units[u].rel
               IN /\ p \in Issued /\ p \in Indices
                  /\ Ready(x, u) = IF At(p, "issue") + 1 >= d THEN At(p, "issue") + 1 ELSE d
<1>1. CASE Producers(x) = {}
  BY <1>1 DEF Ready
<1>2. CASE Producers(x) # {}
  <2>1. Producers(x) \subseteq Kept
    BY DEF Producers
  <2>2. Producers(x) \subseteq Nat /\ \A k \in Producers(x) : k <= Len(trace)
    BY <2>1, TraceFacts DEF Indices
  <2>3. Len(trace) \in Nat
    BY TraceFacts
  <2>4. PICK p : p = Max(Producers(x))
    OBVIOUS
  <2>5. p \in Producers(x) /\ \A k \in Producers(x) : k <= p
    BY <1>2, <2>2, <2>3, <2>4, MaxOf
  <2>6. p \in Issued /\ p \in Indices
    BY <2>1, <2>5, IssuedKept, TraceFacts
  <2>7. At(p, "issue") + 1 \in Int /\ At(p, "complete") - core.units[u].rel \in Int
    BY <2>6, TraceFacts, CoreFacts DEF Stages
  <2>8. Ready(x, u) = Max({At(p, "issue") + 1, At(p, "complete") - core.units[u].rel})
    BY <1>2, <2>4 DEF Ready
  <2> QED BY <2>4, <2>5, <2>6, <2>7, <2>8, MaxOfTwo
<1> QED BY <1>1, <1>2

\* Once the pipeline has drained any unit of the class takes an instruction.
LEMMA DrainedTakes ==
  ASSUME CoreTypeOK, StageInv, NEW x \in Instructions, NEW t \in Nat,
         Serving(OpClass(x.dis)) # {}
  PROVE  Takers(x, Drained(t)) # {}
<1>1. PICK u : u \in Serving(OpClass(x.dis))
  OBVIOUS
<1>2. PICK h \in Nat : h = Drained(t)
  BY DrainedFacts
<1>3. \A k \in Issued : /\ k \in Indices /\ At(k, "complete") <= h
                        /\ At(k, "issue") + core.units[trace[k].unit].issueLat <= h
                        /\ core.units[trace[k].unit].issueLat \in Nat \ {0}
                        /\ At(k, "issue") \in Nat /\ At(k, "complete") \in Nat
  <2> SUFFICES ASSUME NEW k \in Issued
               PROVE  /\ k \in Indices /\ At(k, "complete") <= h
                      /\ At(k, "issue") + core.units[trace[k].unit].issueLat <= h
                      /\ core.units[trace[k].unit].issueLat \in Nat \ {0}
                      /\ At(k, "issue") \in Nat /\ At(k, "complete") \in Nat
    OBVIOUS
  <2>1. k \in Indices /\ trace[k].unit \in Serving(OpClass(trace[k].dis))
    BY IssuedKept, TraceFacts DEF StageInv
  <2>2. At(k, "complete") \in Nat /\ At(k, "issue") \in Nat
    BY <2>1, TraceFacts DEF Stages
  <2>3. core.units[trace[k].unit].issueLat \in Nat \ {0}
    BY <2>1, CoreFacts
  <2> QED BY <1>2, <2>1, <2>2, <2>3, DrainedFacts
<1>4. \A k \in Issued : At(k, "issue") < h
  BY <1>3
<1>5. Allowed(h)
  <2>1. {k \in Issued : At(k, "issue") = h} = {}
    BY <1>3, <1>4
  <2>2. 0 < core.width
    BY CoreFacts DEF IsCore
  <2>3. Cardinality({k \in Issued : At(k, "issue") = h}) < core.width
    BY <2>1, <2>2, FS_EmptySet
  <2> QED BY <2>3, <1>3, <1>4 DEF Allowed
<1>6. Idle(u, h)
  BY <1>3 DEF Idle
<1>7. Ready(x, u) <= h
  <2>1. CASE Producers(x) = {} /\ Ready(x, u) = 0
    BY <2>1
  <2>2. CASE ~(Producers(x) = {} /\ Ready(x, u) = 0)
    <3> DEFINE d(p) == At(p, "complete") - core.units[u].rel
    <3>1. PICK p : p \in Issued /\ Ready(x, u) = IF At(p, "issue") + 1 >= d(p) THEN At(p, "issue") + 1 ELSE d(p)
      BY <1>1, <2>2, ReadyFacts
    <3>2. core.units[u].rel \in Nat
      BY <1>1, CoreFacts
    <3>3. d(p) <= h /\ At(p, "issue") + 1 <= h
      BY <3>1, <3>2, <1>3, <1>4
    <3> QED BY <3>1, <3>3
  <2> QED BY <2>1, <2>2
<1> QED BY <1>1, <1>2, <1>5, <1>6, <1>7 DEF Takers

\* An instruction issues in the first cycle in which a unit takes it.
LEMMA IssueFacts ==
  ASSUME CoreTypeOK, StageInv, NEW x \in Instructions, NEW t \in Nat,
         Serving(OpClass(x.dis)) # {}
  PROVE  /\ IssueAt(x, t) \in Nat /\ t <= IssueAt(x, t)
         /\ Takers(x, IssueAt(x, t)) # {}
         /\ \A c \in Nat : (t <= c /\ Takers(x, c) # {}) => IssueAt(x, t) <= c
<1>1. PICK h \in Nat : h = Drained(t) /\ t <= h
  BY DrainedFacts
<1> DEFINE S == {c \in t .. h : Takers(x, c) # {}}
<1>2. h \in S
  BY <1>1, DrainedTakes
<1>3. S \subseteq Nat
  OBVIOUS
<1>4. PICK i : i = IssueAt(x, t) /\ i = Min(S)
  BY <1>1 DEF IssueAt
<1>5. i \in S /\ \A y \in S : i <= y
  <2> HIDE DEF S
  <2> QED BY <1>2, <1>3, <1>4, MinOf
<1>6. i \in Nat /\ t <= i /\ i <= h /\ Takers(x, i) # {}
  BY <1>5
<1>7. ASSUME NEW c \in Nat, t <= c, Takers(x, c) # {} PROVE i <= c
  <2>1. CASE c <= h
    <3>1. c \in S
      BY <2>1, <1>7
    <3> QED BY <3>1, <1>5
  <2>2. CASE ~(c <= h)
    BY <2>2, <1>6
  <2> QED BY <2>1, <2>2
<1> QED BY <1>4, <1>6, <1>7

\* The unit an instruction goes to.
LEMMA UnitFacts ==
  ASSUME CoreTypeOK, NEW x \in Instructions, NEW t, Takers(x, t) # {}
  PROVE  /\ Min(Takers(x, t)) \in Takers(x, t) /\ Takers(x, t) \subseteq Serving(OpClass(x.dis))
         /\ Allowed(t)
<1>1. Takers(x, t) \subseteq Serving(OpClass(x.dis)) /\ Allowed(t)
  BY DEF Takers
<1>2. Takers(x, t) \subseteq Nat
  BY <1>1, CoreFacts
<1> QED BY <1>1, <1>2, MinOf

\* An instruction retires after it has completed, after those before it.
LEMMA RetireFacts ==
  ASSUME CoreTypeOK, NEW c \in Nat
  PROVE  /\ RetireAt(c) \in Nat /\ c < RetireAt(c)
         /\ \A k \in Kept : At(k, "retire") <= RetireAt(c)
<1>1. \A k \in Kept : At(k, "retire") \in Nat
  BY TraceFacts DEF Stages
<1> DEFINE S == {c + 1} \cup {At(k, "retire") : k \in Kept}
           f == [k \in 1 .. Len(trace) |-> IF k \in Kept THEN At(k, "retire") ELSE 0]
<1>2. PICK b \in Nat : \A k \in 1 .. Len(trace) : f[k] <= b
  <2>1. Len(trace) \in Nat /\ \A k \in 1 .. Len(trace) : f[k] \in Nat
    BY <1>1, TraceFacts
  <2> HIDE DEF f
  <2> QED BY <2>1, BoundOf
<1>3. S \subseteq Nat /\ S # {}
  BY <1>1
<1>4. \A x \in S : x <= b + c + 1
  <2>1. \A k \in Kept : At(k, "retire") <= b
    BY <1>2, TraceFacts DEF Indices
  <2> QED BY <2>1, <1>1
<1>5. PICK m : m = Max(S)
  OBVIOUS
<1>6. m \in S /\ \A y \in S : y <= m
  <2>1. b + c + 1 \in Nat
    OBVIOUS
  <2> HIDE DEF S
  <2> QED BY <1>3, <1>4, <1>5, <2>1, MaxOf
<1>7. m \in Nat /\ c < m /\ \A k \in Kept : At(k, "retire") <= m
  BY <1>3, <1>6
<1> DEFINE room(t) == Cardinality({k \in Kept : At(k, "retire") = t}) < core.width
           T == {t \in m .. m + 1 : room(t)}
<1>8. room(m + 1)
  <2>1. {k \in Kept : At(k, "retire") = m + 1} = {}
    BY <1>1, <1>7
  <2>2. 0 < core.width
    BY CoreFacts DEF IsCore
  <2> QED BY <2>1, <2>2, FS_EmptySet
<1>9. T \subseteq Nat /\ T # {}
  <2> HIDE DEF room
  <2> QED BY <1>7, <1>8
<1>10. RetireAt(c) = Min(T)
  BY <1>5 DEF RetireAt
<1>11. Min(T) \in T
  <2> HIDE DEF T
  <2> QED BY <1>9, MinOf
<1>12. RetireAt(c) \in m .. m + 1
  BY <1>10, <1>11
<1> QED BY <1>1, <1>7, <1>12

\* One more record.
LEMMA AppendFacts ==
  ASSUME CoreTypeOK, NEW r \in Records, trace' = Append(trace, r), NEW n, n = Len(trace) + 1
  PROVE  /\ n \in Nat \ {0} /\ Len(trace') = n /\ trace' \in Seq(Records)
         /\ Indices' = Indices \cup {n} /\ n \notin Indices /\ \A k \in Indices : k < n
         /\ \A k \in Indices : trace'[k] = trace[k]
         /\ trace'[n] = r
         /\ \A k \in Indices, s \in Stages : At(k, s)' = At(k, s)
         /\ \A s \in Stages : At(n, s)' = Cycle(r[s])
         /\ Kept' = Kept \cup (IF r.retire > 0 THEN {n} ELSE {})
         /\ Issued' = Issued \cup (IF r.issue > 0 THEN {n} ELSE {})
<1>1. trace \in Seq(Records) /\ Len(trace) \in Nat
  BY DEF CoreTypeOK
<1>2. n \in Nat \ {0} /\ Len(trace') = n /\ trace' \in Seq(Records)
      /\ \A k \in 1 .. Len(trace) : trace'[k] = trace[k]
  BY <1>1
<1>3. trace'[n] = r
  BY <1>1
<1>4. Indices' = Indices \cup {n} /\ n \notin Indices /\ \A k \in Indices : k < n
  BY <1>1, <1>2 DEF Indices
<1>5. \A k \in Indices : trace'[k] = trace[k]
  BY <1>2 DEF Indices
<1>6. \A k \in Indices, s \in Stages : At(k, s)' = At(k, s)
  BY <1>5 DEF At, Cycle
<1>7. \A s \in Stages : At(n, s)' = Cycle(r[s])
  BY <1>3 DEF At, Cycle
<1>8. Kept' = Kept \cup (IF r.retire > 0 THEN {n} ELSE {})
  BY <1>3, <1>4, <1>5 DEF Kept
<1>9. Issued' = Issued \cup (IF r.issue > 0 THEN {n} ELSE {})
  BY <1>3, <1>4, <1>5 DEF Issued
<1> QED BY <1>2, <1>3, <1>4, <1>5, <1>6, <1>7, <1>8, <1>9

\* A branch that fetch is lost behind is the last one mispredicted; the cycles of
\* the branches are numbers.
LEMMA LostFacts ==
  ASSUME CoreTypeOK, PathInv
  PROVE  /\ \A b \in faults : b \in Indices /\ b \in Kept /\ b \in Nat
         /\ lost => /\ Max(faults) \in faults /\ \A b \in faults : b <= Max(faults)
                    /\ (Max(faults) + 1 .. Len(trace)) \cap Kept = {}
<1>1. \A b \in faults : b \in Indices /\ b \in Kept /\ b \in Nat
  BY TraceFacts
<1>2. ASSUME lost
      PROVE  /\ Max(faults) \in faults /\ \A b \in faults : b <= Max(faults)
             /\ (Max(faults) + 1 .. Len(trace)) \cap Kept = {}
  <2>1. PICK b \in faults : (b + 1 .. Len(trace)) \cap Kept = {}
    BY <1>2 DEF PathInv
  <2>2. faults \subseteq Nat /\ faults # {} /\ \A k \in faults : k <= Len(trace)
    BY <1>1, <2>1 DEF Indices
  <2>3. PICK m : m = Max(faults)
    OBVIOUS
  <2>4. m \in faults /\ \A k \in faults : k <= m
    BY <2>2, <2>3, MaxOf, TraceFacts
  <2>5. m = b
    <3>1. b <= m /\ m \in Nat /\ b \in Nat /\ m \in Kept /\ m <= Len(trace)
      BY <2>4, <1>1 DEF Indices
    <3>2. ~ (b < m)
      BY <3>1, <2>1, TraceFacts
    <3> QED BY <3>1, <3>2
  <2> QED BY <2>1, <2>3, <2>4, <2>5
<1> QED BY <1>1, <1>2

\* When the record before was fetched.
LEMMA LastFetchFacts ==
  ASSUME CoreTypeOK, StageInv, OrderInv
  PROVE  /\ LastFetch \in Nat \ {0}
         /\ \A k \in Indices : At(k, "fetch") <= LastFetch
         /\ trace # <<>> => Len(trace) \in Indices /\ LastFetch = At(Len(trace), "fetch")
<1>1. Len(trace) \in Nat /\ trace \in Seq(Records)
  BY DEF CoreTypeOK
<1>2. CASE trace = <<>>
  BY <1>2 DEF LastFetch, Indices
<1>3. CASE trace # <<>>
  <2>1. Len(trace) \in Indices /\ LastFetch = At(Len(trace), "fetch")
    BY <1>1, <1>3 DEF LastFetch, Indices
  <2>2. LastFetch \in Nat /\ LastFetch >= 1
    BY <2>1, TraceFacts DEF StageInv, Stages
  <2>3. ASSUME NEW k \in Indices PROVE At(k, "fetch") <= LastFetch
    <3>1. k = Len(trace) \/ k < Len(trace)
      BY <1>1 DEF Indices
    <3> QED BY <3>1, <2>1, <2>2 DEF OrderInv
  <2> QED BY <2>1, <2>2, <2>3
<1> QED BY <1>2, <1>3

\* The next instruction is fetched after those before it, and after every branch
\* mispredicted so far has been resolved.
LEMMA FetchFacts ==
  ASSUME CoreTypeOK, StageInv, OrderInv, PathInv, NEW x \in Instructions, NEW f \in FetchAt(x)
  PROVE  /\ f \in Nat \ {0} /\ \A k \in Indices : At(k, "fetch") <= f
         /\ \A b \in faults : At(b, "complete") < f
<1>1. CASE trace = <<>>
  <2>1. Indices = {} /\ faults = {}
    BY <1>1, TraceFacts DEF Indices
  <2>2. f = 1
    BY <1>1 DEF FetchAt, LastFetch
  <2> QED BY <2>1, <2>2
<1>2. CASE trace # <<>>
  <2> DEFINE resume == IF lost THEN At(Max(faults), "complete") + 1 ELSE LastFetch
             line == x.pc \div ICACHE_LINE
             cost == IF line = trace[Len(trace)].pc \div ICACHE_LINE THEN {0, 1}
                     ELSE IF line \in FetchedLines
                     THEN (IF core.fetches > 1 THEN {0, core.icache} ELSE {core.icache})
                     ELSE (IF core.prefetch > 0 THEN {0, MISS} ELSE {MISS})
  <2>1. core.icache \in Nat /\ MISS \in Nat
    BY CoreFacts, CoresAssumption DEF IsCore
  <2>2. cost \subseteq Nat
    BY <2>1
  <2>3. \E c \in cost : f = resume + c
    BY <1>2 DEF FetchAt
  <2>4. PICK c \in Nat : f = resume + c
    <3> HIDE DEF cost, resume
    <3> QED BY <2>2, <2>3
  <2>5. CASE ~lost
    <3>1. f = LastFetch + c
      BY <2>4, <2>5
    <3>2. f \in Nat \ {0} /\ LastFetch <= f
      BY <3>1, LastFetchFacts
    <3>3. \A k \in Indices : At(k, "fetch") <= f
      BY <3>2, LastFetchFacts, TraceFacts DEF Stages
    <3>4. ASSUME NEW b \in faults PROVE At(b, "complete") < f
      <4>1. PICK k \in (b + 1 .. Len(trace)) \cap Kept : TRUE
        BY <2>5 DEF PathInv
      <4>2. k \in Indices /\ b \in Indices /\ b < k /\ k \in Kept
        BY <4>1, TraceFacts
      <4>3. At(b, "complete") < At(k, "fetch")
        BY <4>2 DEF PathInv
      <4>4. At(b, "complete") \in Nat /\ At(k, "fetch") \in Nat
        BY <4>2, TraceFacts DEF Stages
      <4> QED BY <4>2, <4>3, <4>4, <3>3, <3>2
    <3> QED BY <3>2, <3>3, <3>4
  <2>6. CASE lost
    <3>1. PICK m \in faults : m = Max(faults) /\ (\A b \in faults : b <= m)
                              /\ (m + 1 .. Len(trace)) \cap Kept = {}
      BY <2>6, LostFacts
    <3>2. m \in Indices /\ m \in Kept /\ m \in Nat
      BY <3>1, LostFacts
    <3>3. PICK cpl \in Nat : cpl = At(m, "complete")
      BY <3>2, TraceFacts DEF Stages
    <3>4. f = cpl + 1 + c
      BY <2>4, <2>6, <3>1, <3>3
    <3>5. At(m, "fetch") < cpl
      <4>1. trace[m].unit \in Serving(OpClass(trace[m].dis))
            /\ At(m, "complete") = At(m, "issue") + core.units[trace[m].unit].lat[OpClass(trace[m].dis)]
            /\ At(m, "dispatch") = At(m, "fetch") + 1 /\ At(m, "dispatch") <= At(m, "issue")
        BY <3>2 DEF StageInv
      <4>2. PICK l \in Nat \ {0} : l = core.units[trace[m].unit].lat[OpClass(trace[m].dis)]
        BY <4>1, CoreFacts
      <4>3. At(m, "issue") \in Nat /\ At(m, "dispatch") \in Nat /\ At(m, "fetch") \in Nat
        BY <3>2, TraceFacts DEF Stages
      <4> QED BY <4>1, <4>2, <4>3, <3>3
    <3>6. ASSUME NEW k \in Indices PROVE At(k, "fetch") <= cpl
      <4>1. k \in Nat /\ k <= Len(trace) /\ Len(trace) \in Nat
        BY TraceFacts DEF Indices
      <4>2. CASE k <= m
        <5>1. At(k, "fetch") <= At(m, "fetch")
          <6>1. CASE k = m
            BY <6>1, <3>2, TraceFacts DEF Stages
          <6>2. CASE k < m
            BY <6>2, <3>2 DEF OrderInv
          <6> QED BY <6>1, <6>2, <4>1, <4>2, <3>2
        <5>2. At(k, "fetch") \in Nat /\ At(m, "fetch") \in Nat
          BY <3>2, TraceFacts DEF Stages
        <5> QED BY <5>1, <5>2, <3>5
      <4>3. CASE m < k
        <5>1. k \notin Kept
          BY <4>1, <4>3, <3>1, <3>2
        <5>2. PICK b \in faults : b < k /\ (b + 1 .. k) \cap Kept = {} /\ At(k, "fetch") <= At(b, "complete")
          BY <5>1 DEF PathInv
        <5>3. b = m
          <6>1. b <= m /\ b \in Nat
            BY <3>1, LostFacts
          <6>2. ~ (b < m)
            BY <6>1, <5>2, <4>1, <4>3, <3>2
          <6> QED BY <6>1, <6>2, <3>2
        <5> QED BY <5>2, <5>3, <3>3
      <4> QED BY <4>1, <4>2, <4>3, <3>2
    <3>7. \A k \in Indices : At(k, "fetch") <= f
      <4>1. \A k \in Indices : At(k, "fetch") \in Nat
        BY TraceFacts DEF Stages
      <4> QED BY <4>1, <3>6, <3>4
    <3>8. ASSUME NEW b \in faults PROVE At(b, "complete") < f
      <4>1. b <= m /\ b \in Nat /\ b \in Indices
        BY <3>1, LostFacts
      <4>2. CASE b = m
        BY <4>2, <3>3, <3>4
      <4>3. CASE b < m
        <5>1. At(b, "complete") < At(m, "fetch")
          BY <4>3, <3>2 DEF PathInv
        <5>2. At(b, "complete") \in Nat /\ At(m, "fetch") \in Nat
          BY <4>1, <3>2, TraceFacts DEF Stages
        <5> QED BY <5>1, <5>2, <3>5, <3>4
      <4> QED BY <4>1, <4>2, <4>3, <3>2
    <3> QED BY <3>4, <3>7, <3>8
  <2> QED BY <2>5, <2>6
<1> QED BY <1>1, <1>2

\* The record of an instruction of the program.
LEMMA RecordFacts ==
  ASSUME CoreTypeOK, StageInv, NEW x \in Instructions, Serving(OpClass(x.dis)) # {},
         NEW f \in Nat, NEW r, r = Record(x, f)
  PROVE  /\ r \in Records /\ r.retire > 0 /\ r.issue > 0
         /\ r.pc = x.pc /\ r.dis = x.dis /\ r.reg = x.reg
         /\ Cycle(r.fetch) = f /\ Cycle(r.dispatch) = f + 1
         /\ Cycle(r.issue) = IssueAt(x, f + 1)
         /\ r.unit \in Takers(x, IssueAt(x, f + 1)) /\ r.unit \in Serving(OpClass(x.dis))
         /\ Cycle(r.complete) = Cycle(r.issue) + core.units[r.unit].lat[OpClass(x.dis)]
         /\ Cycle(r.complete) < Cycle(r.retire)
         /\ \A k \in Kept : At(k, "retire") <= Cycle(r.retire)
<1>1. PICK i \in Nat : i = IssueAt(x, f + 1) /\ f + 1 <= i /\ Takers(x, i) # {}
  BY IssueFacts
<1>2. PICK u : u = Min(Takers(x, i)) /\ u \in Takers(x, i) /\ u \in Serving(OpClass(x.dis))
  BY <1>1, UnitFacts
<1>3. u \in Nat /\ core.units[u].lat[OpClass(x.dis)] \in Nat \ {0}
  BY <1>2, CoreFacts
<1>4. PICK cpl \in Nat : cpl = i + core.units[u].lat[OpClass(x.dis)]
  BY <1>3
<1>5. PICK ret \in Nat : ret = RetireAt(cpl) /\ cpl < ret /\ \A k \in Kept : At(k, "retire") <= ret
  BY RetireFacts
<1>6. r = [pc |-> x.pc, dis |-> x.dis, reg |-> x.reg, unit |-> u,
           fetch |-> f * TICKS_PER_CYCLE, dispatch |-> (f + 1) * TICKS_PER_CYCLE,
           issue |-> i * TICKS_PER_CYCLE, complete |-> cpl * TICKS_PER_CYCLE,
           retire |-> ret * TICKS_PER_CYCLE]
  BY <1>1, <1>2, <1>4, <1>5, Zenon DEF Record
<1>7. /\ Cycle(f * TICKS_PER_CYCLE) = f /\ f * TICKS_PER_CYCLE \in Nat
      /\ Cycle((f + 1) * TICKS_PER_CYCLE) = f + 1 /\ (f + 1) * TICKS_PER_CYCLE \in Nat
      /\ Cycle(i * TICKS_PER_CYCLE) = i /\ i * TICKS_PER_CYCLE \in Nat /\ i * TICKS_PER_CYCLE > 0
      /\ Cycle(cpl * TICKS_PER_CYCLE) = cpl /\ cpl * TICKS_PER_CYCLE \in Nat
      /\ Cycle(ret * TICKS_PER_CYCLE) = ret /\ ret * TICKS_PER_CYCLE \in Nat /\ ret * TICKS_PER_CYCLE > 0
  <2>1. f + 1 \in Nat /\ i > 0 /\ ret > 0
    BY <1>1, <1>5
  <2> QED BY <2>1, CycleOfTicks
<1>8. x.pc \in Nat /\ x.dis \in STRING /\ x.reg \in Nat
  BY DEF Instructions
<1>9. /\ r.pc = x.pc /\ r.dis = x.dis /\ r.reg = x.reg /\ r.unit = u
      /\ r.fetch = f * TICKS_PER_CYCLE /\ r.dispatch = (f + 1) * TICKS_PER_CYCLE
      /\ r.issue = i * TICKS_PER_CYCLE /\ r.complete = cpl * TICKS_PER_CYCLE
      /\ r.retire = ret * TICKS_PER_CYCLE
  BY <1>6
<1>10. r \in Records
  <2> DEFINE t(v) == v * TICKS_PER_CYCLE
  <2>1. t(f) \in Nat /\ t(f + 1) \in Nat /\ t(i) \in Nat /\ t(cpl) \in Nat /\ t(ret) \in Nat
    BY <1>7
  <2>2. r = [pc |-> x.pc, dis |-> x.dis, reg |-> x.reg, unit |-> u,
           fetch |-> t(f), dispatch |-> t(f + 1), issue |-> t(i), complete |-> t(cpl), retire |-> t(ret)]
    BY <1>6
  <2> HIDE DEF t
  <2> QED BY <2>1, <2>2, <1>3, <1>8 DEF Records
<1> QED BY <1>1, <1>2, <1>4, <1>5, <1>7, <1>9, <1>10

LEMMA CoreInitInv == CoreInit => CoreInv
<1> SUFFICES ASSUME CoreInit PROVE CoreInv
  OBVIOUS
<1>1. trace = <<>> /\ lost = FALSE /\ faults = {} /\ next = 1
  BY DEF CoreInit
<1>2. \E r \in RUNS : core = r.core /\ prog = r.prog
  BY DEF CoreInit
<1>3. Indices = {} /\ Kept = {} /\ Issued = {} /\ Len(trace) = 0
  BY <1>1 DEF Indices, Kept, Issued
<1>4. CoreTypeOK
  <2>1. prog \in Seq(Instructions)
    BY <1>2, CoresAssumption DEF Instructions
  <2>2. Len(prog) \in Nat
    BY <2>1
  <2>3. next \in 1 .. Len(prog) + 1 /\ trace \in Seq(Records) /\ lost \in BOOLEAN
    <3>1. <<>> \in Seq(Records)
      OBVIOUS
    <3>2. next \in 1 .. Len(prog) + 1
      BY <1>1, <2>2
    <3> QED BY <1>1, <3>1, <3>2
  <2> QED BY <1>1, <1>2, <2>3 DEF CoreTypeOK
<1>5. StageInv /\ OrderInv
  BY <1>3 DEF StageInv, OrderInv
<1>6. PathInv
  BY <1>1, <1>3 DEF PathInv
<1>7. IssueInv
  <2>1. ASSUME NEW t \in Nat PROVE Cardinality({k \in Issued : At(k, "issue") = t}) <= core.width
    <3>1. {k \in Issued : At(k, "issue") = t} = {}
      BY <1>3
    <3>2. core.width \in Nat
      BY <1>4, CoreFacts DEF IsCore
    <3> QED BY <3>1, <3>2, FS_EmptySet
  <2> QED BY <1>1, <1>3, <2>1 DEF IssueInv
<1> QED BY <1>4, <1>5, <1>6, <1>7 DEF CoreInv

\* What Execute adds.
LEMMA ExecuteFacts ==
  ASSUME CoreInv, Execute
  PROVE  \E x \in Instructions, f \in Nat \ {0}, r \in Records :
           LET n == Len(trace) + 1 IN
           /\ x = prog[next] /\ next \in 1 .. Len(prog) /\ next' = next + 1
           /\ Serving(OpClass(x.dis)) # {}
           /\ r = Record(x, f) /\ trace' = Append(trace, r)
           /\ \A k \in Indices : At(k, "fetch") <= f
           /\ \A b \in faults : At(b, "complete") < f
           /\ faults' = faults \cup (IF lost' THEN {n} ELSE {})
           /\ Kept' = Kept \cup {n} /\ Issued' = Issued \cup {n}
           /\ core' = core /\ prog' = prog
           /\ lost' \in BOOLEAN /\ (~core.ooo => ~lost')
<1>1. CoreTypeOK /\ StageInv /\ OrderInv /\ PathInv
  BY DEF CoreInv
<1>2. PICK x : x = prog[next]
  OBVIOUS
<1>3. next \in 1 .. Len(prog) /\ x \in Instructions
  <2>1. prog \in Seq(Instructions) /\ Len(prog) \in Nat
    BY <1>1, CoreFacts
  <2>2. next \in 1 .. Len(prog)
    BY <1>1, <2>1 DEF CoreTypeOK, Execute, Done
  <2> QED BY <1>2, <2>1, <2>2
<1>4. PICK f \in FetchAt(x) : trace' = Append(trace, Record(x, f))
  BY <1>2 DEF Execute
<1>5. f \in Nat \ {0} /\ (\A k \in Indices : At(k, "fetch") <= f) /\ \A b \in faults : At(b, "complete") < f
  BY <1>1, <1>3, FetchFacts
<1>6. Serving(OpClass(x.dis)) # {}
  BY <1>2 DEF Execute
<1>7. PICK r : r = Record(x, f)
  OBVIOUS
<1>8. r \in Records /\ r.retire > 0 /\ r.issue > 0
  BY <1>1, <1>3, <1>5, <1>6, <1>7, RecordFacts
<1>9. /\ Len(trace') = Len(trace) + 1
      /\ Kept' = Kept \cup {Len(trace) + 1} /\ Issued' = Issued \cup {Len(trace) + 1}
  BY <1>1, <1>4, <1>7, <1>8, AppendFacts
<1>10. /\ faults' = faults \cup (IF lost' THEN {Len(trace) + 1} ELSE {})
       /\ next' = next + 1 /\ core' = core /\ prog' = prog
       /\ lost' \in BOOLEAN /\ (~core.ooo => ~lost')
  BY <1>9 DEF Execute
<1> QED BY <1>2, <1>3, <1>4, <1>5, <1>6, <1>7, <1>8, <1>9, <1>10

LEMMA ExecuteInv ==
  ASSUME CoreInv, Execute
  PROVE  CoreInv'
<1>0. PICK n : n = Len(trace) + 1
  OBVIOUS
<1>1. CoreTypeOK /\ StageInv /\ OrderInv /\ PathInv /\ IssueInv
  BY DEF CoreInv
<1>2. PICK x \in Instructions, f \in Nat \ {0}, r \in Records :
        /\ x = prog[next] /\ next \in 1 .. Len(prog) /\ next' = next + 1
        /\ Serving(OpClass(x.dis)) # {}
        /\ r = Record(x, f) /\ trace' = Append(trace, r)
        /\ \A k \in Indices : At(k, "fetch") <= f
        /\ \A b \in faults : At(b, "complete") < f
        /\ faults' = faults \cup (IF lost' THEN {n} ELSE {})
        /\ Kept' = Kept \cup {n} /\ Issued' = Issued \cup {n}
        /\ core' = core /\ prog' = prog
        /\ lost' \in BOOLEAN /\ (~core.ooo => ~lost')
  BY <1>0, ExecuteFacts
<1>3. PICK i \in Nat : i = IssueAt(x, f + 1) /\ f + 1 <= i /\ Takers(x, i) # {}
  <2>1. f + 1 \in Nat
    OBVIOUS
  <2> QED BY <1>1, <1>2, <2>1, IssueFacts
<1>4. /\ Cycle(r.fetch) = f /\ Cycle(r.dispatch) = f + 1 /\ Cycle(r.issue) = i
      /\ r.issue > 0 /\ r.retire > 0 /\ r.dis = x.dis /\ r.reg = x.reg
      /\ r.unit \in Serving(OpClass(x.dis))
      /\ Cycle(r.complete) = i + core.units[r.unit].lat[OpClass(x.dis)]
      /\ Cycle(r.complete) < Cycle(r.retire)
      /\ \A k \in Kept : At(k, "retire") <= Cycle(r.retire)
  <2>1. f \in Nat
    OBVIOUS
  <2>2. r = Record(x, f) /\ Serving(OpClass(x.dis)) # {}
    BY <1>2
  <2>3. /\ r.issue > 0 /\ r.retire > 0 /\ r.dis = x.dis /\ r.reg = x.reg
        /\ Cycle(r.fetch) = f /\ Cycle(r.dispatch) = f + 1
        /\ Cycle(r.issue) = IssueAt(x, f + 1)
        /\ r.unit \in Serving(OpClass(x.dis))
        /\ Cycle(r.complete) = Cycle(r.issue) + core.units[r.unit].lat[OpClass(x.dis)]
        /\ Cycle(r.complete) < Cycle(r.retire)
        /\ \A k \in Kept : At(k, "retire") <= Cycle(r.retire)
    BY <2>1, <2>2, RecordFacts, <1>1
  <2> QED BY <1>3, <2>3
<1>5. /\ n \in Nat \ {0} /\ Len(trace') = n /\ trace' \in Seq(Records)
      /\ Indices' = Indices \cup {n} /\ n \notin Indices /\ \A k \in Indices : k < n
      /\ \A k \in Indices : trace'[k] = trace[k]
      /\ trace'[n] = r
      /\ \A k \in Indices, s \in Stages : At(k, s)' = At(k, s)
      /\ \A s \in Stages : At(n, s)' = Cycle(r[s])
  <2>1. r \in Records /\ trace' = Append(trace, r)
    BY <1>2
  <2>2. CoreTypeOK
    BY <1>1
  <2>3. /\ n \in Nat \ {0} /\ Len(trace') = n /\ trace' \in Seq(Records)
        /\ Indices' = Indices \cup {n} /\ n \notin Indices /\ \A k \in Indices : k < n
        /\ \A k \in Indices : trace'[k] = trace[k]
        /\ trace'[n] = r
    BY <1>0, <2>1, <2>2, AppendFacts
  <2>4. \A k \in Indices, s \in Stages : At(k, s)' = At(k, s)
    BY <1>0, <2>1, <2>2, AppendFacts
  <2>5. \A s \in Stages : At(n, s)' = Cycle(r[s])
    BY <1>0, <2>1, <2>2, AppendFacts
  <2> QED BY <2>3, <2>4, <2>5
<1>6. /\ \A k \in Indices : k \in Nat
      /\ Kept \subseteq Indices /\ Issued = Kept /\ faults \subseteq Kept
      /\ \A k \in Indices : \A s \in Stages : At(k, s) \in Nat
  BY <1>1, TraceFacts, IssuedKept
<1>7. \A c : Serving(c)' = Serving(c)
  BY <1>2 DEF Serving
<1>8. CoreTypeOK'
  <2>1. next' \in 1 .. Len(prog)' + 1
    BY <1>1, <1>2, CoreFacts
  <2>2. faults' \subseteq Kept'
    BY <1>2, <1>6
  <2>3. (\E run \in RUNS : core = run.core /\ prog = run.prog)'
    BY <1>1, <1>2 DEF CoreTypeOK
  <2> QED BY <2>1, <2>2, <2>3, <1>2, <1>5 DEF CoreTypeOK
<1>9. StageInv'
  <2>1. /\ At(n, "fetch")' = f /\ At(n, "dispatch")' = f + 1 /\ At(n, "issue")' = i
        /\ At(n, "complete")' = Cycle(r.complete) /\ At(n, "retire")' = Cycle(r.retire)
    BY <1>4, <1>5 DEF Stages
  <2>2. \A k \in Indices' : At(k, "fetch")' >= 1 /\ (trace'[k].issue > 0 <=> trace'[k].retire > 0)
    <3> SUFFICES ASSUME NEW k \in Indices'
                 PROVE  At(k, "fetch")' >= 1 /\ (trace'[k].issue > 0 <=> trace'[k].retire > 0)
      OBVIOUS
    <3>1. CASE k = n
      BY <3>1, <2>1, <1>4, <1>5
    <3>2. CASE k \in Indices
      BY <3>2, <1>1, <1>5 DEF StageInv, Stages
    <3> QED BY <3>1, <3>2, <1>5
  <2>3. \A k \in Kept' :
          /\ trace'[k].unit \in Serving(OpClass(trace'[k].dis))
          /\ At(k, "dispatch")' = At(k, "fetch")' + 1 /\ At(k, "dispatch")' <= At(k, "issue")'
          /\ At(k, "complete")' = At(k, "issue")' + core.units[trace'[k].unit].lat[OpClass(trace'[k].dis)]
          /\ At(k, "complete")' < At(k, "retire")'
    <3> SUFFICES ASSUME NEW k \in Kept'
                 PROVE
          /\ trace'[k].unit \in Serving(OpClass(trace'[k].dis))
          /\ At(k, "dispatch")' = At(k, "fetch")' + 1 /\ At(k, "dispatch")' <= At(k, "issue")'
          /\ At(k, "complete")' = At(k, "issue")' + core.units[trace'[k].unit].lat[OpClass(trace'[k].dis)]
          /\ At(k, "complete")' < At(k, "retire")'
      OBVIOUS
    <3>1. CASE k = n
      BY <3>1, <2>1, <1>3, <1>4, <1>5
    <3>2. CASE k \in Kept
      <4>1. k \in Indices /\ trace'[k] = trace[k]
        BY <3>2, <1>5, <1>6
      <4>2. /\ At(k, "dispatch")' = At(k, "dispatch") /\ At(k, "fetch")' = At(k, "fetch")
            /\ At(k, "issue")' = At(k, "issue") /\ At(k, "complete")' = At(k, "complete")
            /\ At(k, "retire")' = At(k, "retire")
        BY <4>1, <1>5 DEF Stages
      <4> QED BY <3>2, <4>1, <4>2, <1>1 DEF StageInv
    <3> QED BY <3>1, <3>2, <1>2
  <2> QED BY <2>2, <2>3, <1>2, <1>7 DEF StageInv
<1>10. OrderInv'
  <2> SUFFICES ASSUME NEW j \in Indices', NEW k \in Indices', j < k
               PROVE  /\ At(j, "fetch")' <= At(k, "fetch")'
                      /\ {j, k} \subseteq Kept' => At(j, "retire")' <= At(k, "retire")'
    BY DEF OrderInv
  <2>1. CASE k = n
    <3>1. j \in Indices
      BY <2>1, <1>5
    <3>2. At(j, "fetch")' = At(j, "fetch") /\ At(j, "retire")' = At(j, "retire")
          /\ At(n, "fetch")' = f /\ At(n, "retire")' = Cycle(r.retire)
      BY <3>1, <1>4, <1>5 DEF Stages
    <3>3. j \in Kept' => j \in Kept
      BY <3>1, <1>2, <1>5
    <3> QED BY <2>1, <3>1, <3>2, <3>3, <1>2, <1>4
  <2>2. CASE k \in Indices
    <3>1. j \in Indices
      BY <2>2, <1>5, <1>6
    <3>2. At(j, "fetch")' = At(j, "fetch") /\ At(j, "retire")' = At(j, "retire")
          /\ At(k, "fetch")' = At(k, "fetch") /\ At(k, "retire")' = At(k, "retire")
      BY <3>1, <2>2, <1>5 DEF Stages
    <3>3. {j, k} \subseteq Kept' => {j, k} \subseteq Kept
      BY <3>1, <2>2, <1>2, <1>5
    <3> QED BY <2>2, <3>1, <3>2, <3>3, <1>1 DEF OrderInv
  <2> QED BY <2>1, <2>2, <1>5
<1>11. PathInv'
  <2>1. ASSUME NEW k \in Indices' \ Kept'
        PROVE  \E b \in faults' : /\ b < k /\ (b + 1 .. k) \cap Kept' = {}
                                  /\ At(k, "fetch")' <= At(b, "complete")'
    <3>1. k \in Indices \ Kept
      BY <1>2, <1>5
    <3>2. PICK b \in faults : /\ b < k /\ (b + 1 .. k) \cap Kept = {}
                              /\ At(k, "fetch") <= At(b, "complete")
      BY <3>1, <1>1 DEF PathInv
    <3>3. At(k, "fetch")' = At(k, "fetch") /\ At(b, "complete")' = At(b, "complete") /\ b \in Indices
      BY <3>1, <3>2, <1>5, <1>6 DEF Stages
    <3>4. (b + 1 .. k) \cap Kept' = {}
      <4>1. n \notin b + 1 .. k
        BY <3>1, <3>3, <1>5, <1>6
      <4> QED BY <4>1, <3>2, <1>2
    <3> QED BY <3>2, <3>3, <3>4, <1>2
  <2>2. ASSUME NEW b \in faults', NEW k \in Kept', b < k
        PROVE  At(b, "complete")' < At(k, "fetch")'
    <3>1. b \in faults /\ b \in Indices
      <4>1. k \in Indices \cup {n}
        BY <1>2, <1>6
      <4>2. b # n
        BY <4>1, <2>2, <1>5, <1>6
      <4> QED BY <4>2, <1>2, <1>6
    <3>2. At(b, "complete")' = At(b, "complete")
      BY <3>1, <1>5 DEF Stages
    <3>3. CASE k = n
      <4>1. At(n, "fetch")' = f
        BY <1>4, <1>5 DEF Stages
      <4> QED BY <4>1, <3>1, <3>2, <3>3, <1>2
    <3>4. CASE k \in Kept
      <4>1. At(k, "fetch")' = At(k, "fetch")
        BY <3>4, <1>5, <1>6 DEF Stages
      <4> QED BY <4>1, <3>1, <3>2, <3>4, <2>2, <1>1 DEF PathInv
    <3> QED BY <3>3, <3>4, <1>2
  <2>3. lost' <=> \E b \in faults' : (b + 1 .. Len(trace')) \cap Kept' = {}
    <3>1. ASSUME lost' PROVE \E b \in faults' : (b + 1 .. Len(trace')) \cap Kept' = {}
      <4>1. n \in faults' /\ (n + 1 .. Len(trace')) \cap Kept' = {}
        BY <3>1, <1>2, <1>5
      <4> QED BY <4>1
    <3>2. ASSUME ~lost', NEW b \in faults' PROVE (b + 1 .. Len(trace')) \cap Kept' # {}
      <4>1. b \in faults /\ b \in Nat /\ b < n
        BY <3>2, <1>2, <1>5, <1>6
      <4>2. n \in b + 1 .. Len(trace') /\ n \in Kept'
        BY <4>1, <1>2, <1>5
      <4> QED BY <4>2
    <3> QED BY <3>1, <3>2
  <2> QED BY <2>1, <2>2, <2>3 DEF PathInv
<1>12. IssueInv'
  <2>1. At(n, "issue")' = i /\ \A k \in Indices : At(k, "issue")' = At(k, "issue")
    BY <1>4, <1>5 DEF Stages
  <2>2. Allowed(i)
    BY <1>1, <1>3, UnitFacts
  <2>3. ASSUME ~core.ooo
        PROVE  /\ ~lost' /\ Kept' = Indices' /\ next' = Len(trace') + 1
               /\ \A k \in Indices' : trace'[k].dis = prog[k].dis /\ trace'[k].reg = prog[k].reg
               /\ \A j, k \in Indices' : j < k => At(j, "issue")' <= At(k, "issue")'
    <3>1. /\ Kept = Indices /\ next = Len(trace) + 1
          /\ \A k \in Indices : trace[k].dis = prog[k].dis /\ trace[k].reg = prog[k].reg
          /\ \A j, k \in Indices : j < k => At(j, "issue") <= At(k, "issue")
      BY <2>3, <1>1 DEF IssueInv
    <3>2. ~lost' /\ Kept' = Indices' /\ next' = Len(trace') + 1
      BY <3>1, <2>3, <1>2, <1>5
    <3>3. \A k \in Indices' : trace'[k].dis = prog[k].dis /\ trace'[k].reg = prog[k].reg
      <4> SUFFICES ASSUME NEW k \in Indices'
                   PROVE  trace'[k].dis = prog[k].dis /\ trace'[k].reg = prog[k].reg
        OBVIOUS
      <4>1. CASE k = n
        <5>1. next = n /\ trace'[n] = r /\ r.dis = prog[next].dis /\ r.reg = prog[next].reg
          BY <3>1, <1>0, <1>2, <1>4, <1>5
        <5> QED BY <4>1, <5>1
      <4>2. CASE k \in Indices
        BY <4>2, <3>1, <1>5
      <4> QED BY <4>1, <4>2, <1>5
    <3>4. ASSUME NEW j \in Indices', NEW k \in Indices', j < k
          PROVE  At(j, "issue")' <= At(k, "issue")'
      <4>1. CASE k = n
        <5>1. j \in Issued /\ j \in Indices
          BY <4>1, <3>4, <3>1, <1>5, <1>6
        <5>2. At(j, "issue") <= i
          BY <5>1, <2>2, <2>3 DEF Allowed
        <5> QED BY <5>1, <5>2, <4>1, <2>1
      <4>2. CASE k \in Indices
        <5>1. j \in Indices
          BY <4>2, <3>4, <1>5, <1>6
        <5> QED BY <5>1, <4>2, <3>1, <3>4, <2>1
      <4> QED BY <4>1, <4>2, <1>5
    <3> QED BY <3>2, <3>3, <3>4
  <2>4. ASSUME NEW t \in Nat
        PROVE  Cardinality({k \in Issued' : At(k, "issue")' = t}) <= core.width
    <3> DEFINE S == {k \in Issued : At(k, "issue") = t}
    <3>1. IsFiniteSet(S)
      <4>1. S \subseteq Indices /\ Len(trace) \in Nat
        BY <1>1, <1>6, TraceFacts
      <4>2. S \subseteq 1 .. Len(trace)
        BY <4>1 DEF Indices
      <4>3. IsFiniteSet(1 .. Len(trace))
        BY <4>1, FS_Interval
      <4> HIDE DEF S
      <4> QED BY <4>2, <4>3, FS_Subset
    <3>2. n \notin S
      BY <1>5, <1>6
    <3>3. Cardinality(S) <= core.width
      BY <1>1 DEF IssueInv
    <3>4. CASE i = t
      <4>1. {k \in Issued' : At(k, "issue")' = t} = S \cup {n}
        BY <3>4, <2>1, <1>2, <1>6
      <4>2. Cardinality(S \cup {n}) = Cardinality(S) + 1
        <5> HIDE DEF S
        <5> QED BY <3>1, <3>2, FS_AddElement
      <4>3. Cardinality(S) < core.width
        BY <3>4, <2>2 DEF Allowed
      <4>4. Cardinality(S) \in Nat /\ core.width \in Nat
        <5>1. core.width \in Nat
          BY <1>1, CoreFacts DEF IsCore
        <5> HIDE DEF S
        <5> QED BY <5>1, <3>1, FS_CardinalityType
      <4>5. Cardinality(S) + 1 <= core.width
        <5> HIDE DEF S
        <5> QED BY <4>3, <4>4
      <4> HIDE DEF S
      <4> QED BY <4>1, <4>2, <4>5, Zenon
    <3>5. CASE i # t
      <4>1. {k \in Issued' : At(k, "issue")' = t} = S
        BY <3>5, <2>1, <1>2, <1>6
      <4> QED BY <4>1, <3>3
    <3> QED BY <3>4, <3>5
  <2> QED BY <2>3, <2>4, <1>2 DEF IssueInv
<1> QED BY <1>8, <1>9, <1>10, <1>11, <1>12 DEF CoreInv

LEMMA WrongPathInv ==
  ASSUME CoreInv, WrongPath
  PROVE  CoreInv'
<1>0. PICK n : n = Len(trace) + 1
  OBVIOUS
<1>1. CoreTypeOK /\ StageInv /\ OrderInv /\ PathInv /\ IssueInv
  BY DEF CoreInv
<1>2. PICK f \in {LastFetch, LastFetch + 1}, pc \in WRONGPCS :
       /\ f <= At(Max(faults), "complete")
       /\ trace' = Append(trace, [pc |-> pc, dis |-> "addi", reg |-> 0, unit |-> 0,
                                  fetch |-> f * TICKS_PER_CYCLE, dispatch |-> 0,
                                  issue |-> 0, complete |-> 0, retire |-> 0])
  BY DEF WrongPath
<1>3. /\ lost /\ core' = core /\ prog' = prog /\ next' = next /\ lost' = lost /\ faults' = faults
  BY DEF WrongPath
<1>4. f \in Nat \ {0} /\ LastFetch <= f /\ LastFetch \in Nat
  BY <1>1, <1>2, LastFetchFacts
<1>5. PICK r : r = [pc |-> pc, dis |-> "addi", reg |-> 0, unit |-> 0,
                    fetch |-> f * TICKS_PER_CYCLE, dispatch |-> 0,
                    issue |-> 0, complete |-> 0, retire |-> 0]
  OBVIOUS
<1>6. Cycle(f * TICKS_PER_CYCLE) = f /\ f * TICKS_PER_CYCLE \in Nat
  BY <1>4, CycleOfTicks
<1>7. r \in Records
  <2> DEFINE t(v) == v * TICKS_PER_CYCLE
  <2>1. pc \in Nat
    BY CoresAssumption
  <2>4. PICK d \in {"addi"} : d = "addi"
    OBVIOUS
  <2>2. r = [pc |-> pc, dis |-> d, reg |-> 0, unit |-> 0, fetch |-> t(f), dispatch |-> 0,
             issue |-> 0, complete |-> 0, retire |-> 0]
    BY <1>5, <2>4
  <2>3. t(f) \in Nat
    BY <1>6
  <2> HIDE DEF t
  <2> QED BY <2>1, <2>2, <2>3 DEF Records
<1>8. r.issue = 0 /\ r.retire = 0 /\ r.fetch = f * TICKS_PER_CYCLE
  BY <1>5
<1>9. trace' = Append(trace, r)
  BY <1>2, <1>5
<1>10. CoreTypeOK
  BY <1>1
<1>11. /\ n \in Nat \ {0} /\ Len(trace') = n /\ trace' \in Seq(Records)
       /\ Indices' = Indices \cup {n} /\ n \notin Indices /\ \A k \in Indices : k < n
       /\ \A k \in Indices : trace'[k] = trace[k]
       /\ trace'[n] = r
  BY <1>0, <1>7, <1>9, <1>10, AppendFacts
<1>12. \A k \in Indices, s \in Stages : At(k, s)' = At(k, s)
  BY <1>0, <1>7, <1>9, <1>10, AppendFacts
<1>13. \A s \in Stages : At(n, s)' = Cycle(r[s])
  BY <1>0, <1>7, <1>9, <1>10, AppendFacts
<1>14. Kept' = Kept /\ Issued' = Issued
  <2>1. Kept' = Kept \cup (IF r.retire > 0 THEN {n} ELSE {})
    BY <1>0, <1>7, <1>9, <1>10, AppendFacts
  <2>2. Issued' = Issued \cup (IF r.issue > 0 THEN {n} ELSE {})
    BY <1>0, <1>7, <1>9, <1>10, AppendFacts
  <2> QED BY <2>1, <2>2, <1>8
<1>15. /\ \A k \in Indices : k \in Nat
       /\ Kept \subseteq Indices /\ Issued = Kept /\ faults \subseteq Kept
       /\ \A k \in Indices : \A s \in Stages : At(k, s) \in Nat
  BY <1>1, TraceFacts, IssuedKept
<1>16. \A c : Serving(c)' = Serving(c)
  BY <1>3 DEF Serving
<1>17. At(n, "fetch")' = f
  BY <1>6, <1>8, <1>13 DEF Stages
<1>18. n \notin Kept
  BY <1>11, <1>15
<1>19. CoreTypeOK'
  <2>1. next' \in 1 .. Len(prog)' + 1
    BY <1>1, <1>3, CoreFacts DEF CoreTypeOK
  <2>2. faults' \subseteq Kept'
    BY <1>3, <1>14, <1>15
  <2>3. (\E run \in RUNS : core = run.core /\ prog = run.prog)'
    BY <1>1, <1>3 DEF CoreTypeOK
  <2>4. lost' \in BOOLEAN
    BY <1>1, <1>3 DEF CoreTypeOK
  <2> QED BY <2>1, <2>2, <2>3, <2>4, <1>11 DEF CoreTypeOK
<1>20. StageInv'
  <2>1. ASSUME NEW k \in Indices'
        PROVE  At(k, "fetch")' >= 1 /\ (trace'[k].issue > 0 <=> trace'[k].retire > 0)
    <3>1. CASE k = n
      <4>1. ~(r.issue > 0) /\ ~(r.retire > 0) /\ f >= 1
        BY <1>4, <1>8
      <4> QED BY <3>1, <4>1, <1>11, <1>17
    <3>2. CASE k \in Indices
      BY <3>2, <1>1, <1>11, <1>12 DEF StageInv, Stages
    <3> QED BY <3>1, <3>2, <1>11
  <2>2. ASSUME NEW k \in Kept'
        PROVE
          /\ trace'[k].unit \in Serving(OpClass(trace'[k].dis))
          /\ At(k, "dispatch")' = At(k, "fetch")' + 1 /\ At(k, "dispatch")' <= At(k, "issue")'
          /\ At(k, "complete")' = At(k, "issue")' + core.units[trace'[k].unit].lat[OpClass(trace'[k].dis)]
          /\ At(k, "complete")' < At(k, "retire")'
    <3>1. k \in Indices /\ k \in Kept /\ trace'[k] = trace[k]
      BY <1>11, <1>14, <1>15
    <3>2. /\ At(k, "dispatch")' = At(k, "dispatch") /\ At(k, "fetch")' = At(k, "fetch")
          /\ At(k, "issue")' = At(k, "issue") /\ At(k, "complete")' = At(k, "complete")
          /\ At(k, "retire")' = At(k, "retire")
      BY <3>1, <1>12 DEF Stages
    <3> QED BY <3>1, <3>2, <1>1 DEF StageInv
  <2> QED BY <2>1, <2>2, <1>3, <1>16 DEF StageInv
<1>21. OrderInv'
  <2> SUFFICES ASSUME NEW j \in Indices', NEW k \in Indices', j < k
               PROVE  /\ At(j, "fetch")' <= At(k, "fetch")'
                      /\ {j, k} \subseteq Kept' => At(j, "retire")' <= At(k, "retire")'
    BY DEF OrderInv
  <2>1. CASE k = n
    <3>1. j \in Indices
      BY <2>1, <1>11
    <3>2. At(j, "fetch") <= LastFetch /\ At(j, "fetch") \in Nat
      BY <3>1, <1>1, <1>15, LastFetchFacts DEF Stages
    <3>3. At(j, "fetch")' <= f
      BY <3>1, <3>2, <1>4, <1>12 DEF Stages
    <3> QED BY <2>1, <3>3, <1>14, <1>17, <1>18
  <2>2. CASE k \in Indices
    <3>1. j \in Indices
      BY <2>2, <1>11, <1>15
    <3>2. At(j, "fetch")' = At(j, "fetch") /\ At(j, "retire")' = At(j, "retire")
          /\ At(k, "fetch")' = At(k, "fetch") /\ At(k, "retire")' = At(k, "retire")
      BY <3>1, <2>2, <1>12 DEF Stages
    <3> QED BY <2>2, <3>1, <3>2, <1>1, <1>14 DEF OrderInv
  <2> QED BY <2>1, <2>2, <1>11
<1>22. PathInv'
  <2>0. PICK m \in faults : m = Max(faults) /\ (m + 1 .. Len(trace)) \cap Kept = {}
    BY <1>1, <1>3, LostFacts
  <2>1. m \in Indices /\ m < n /\ m \in Nat
    BY <1>11, <1>15
  <2>2. (m + 1 .. n) \cap Kept = {}
    <3> SUFFICES ASSUME NEW k \in m + 1 .. n, k \in Kept PROVE FALSE
      OBVIOUS
    <3>1. k \in Indices /\ k # n
      BY <1>15, <1>18
    <3>2. k \in m + 1 .. Len(trace)
      BY <3>1 DEF Indices
    <3> QED BY <3>2, <2>0
  <2>3. At(m, "complete")' = At(m, "complete")
    BY <2>1, <1>12 DEF Stages
  <2>4. ASSUME NEW k \in Indices' \ Kept'
        PROVE  \E b \in faults' : /\ b < k /\ (b + 1 .. k) \cap Kept' = {}
                                  /\ At(k, "fetch")' <= At(b, "complete")'
    <3>1. CASE k = n
      <4>1. At(k, "fetch")' <= At(m, "complete")'
        BY <3>1, <2>0, <2>3, <1>2, <1>17
      <4> QED BY <4>1, <3>1, <2>1, <2>2, <1>3, <1>14
    <3>2. CASE k \in Indices
      <4>1. PICK b \in faults : /\ b < k /\ (b + 1 .. k) \cap Kept = {}
                                /\ At(k, "fetch") <= At(b, "complete")
        BY <3>2, <1>1, <1>14 DEF PathInv
      <4>2. At(k, "fetch")' = At(k, "fetch") /\ At(b, "complete")' = At(b, "complete")
        BY <3>2, <4>1, <1>12, <1>15 DEF Stages
      <4> QED BY <4>1, <4>2, <1>3, <1>14
    <3> QED BY <3>1, <3>2, <1>11
  <2>5. ASSUME NEW b \in faults', NEW k \in Kept', b < k
        PROVE  At(b, "complete")' < At(k, "fetch")'
    <3>1. b \in faults /\ k \in Kept /\ b \in Indices /\ k \in Indices
      BY <1>3, <1>14, <1>15
    <3>2. At(b, "complete")' = At(b, "complete") /\ At(k, "fetch")' = At(k, "fetch")
      BY <3>1, <1>12 DEF Stages
    <3> QED BY <2>5, <3>1, <3>2, <1>1 DEF PathInv
  <2>6. lost' <=> \E b \in faults' : (b + 1 .. Len(trace')) \cap Kept' = {}
    BY <2>2, <1>3, <1>11, <1>14
  <2> QED BY <2>4, <2>5, <2>6 DEF PathInv
<1>23. IssueInv'
  <2>1. core.ooo
    BY <1>1, <1>3 DEF IssueInv
  <2>2. ASSUME NEW t \in Nat
        PROVE  Cardinality({k \in Issued' : At(k, "issue")' = t}) <= core.width
    <3>1. {k \in Issued' : At(k, "issue")' = t} = {k \in Issued : At(k, "issue") = t}
      BY <1>12, <1>14, <1>15 DEF Stages
    <3>2. Cardinality({k \in Issued : At(k, "issue") = t}) <= core.width
      BY <1>1 DEF IssueInv
    <3> QED BY <3>1, <3>2
  <2> QED BY <2>1, <2>2, <1>3 DEF IssueInv
<1> QED BY <1>19, <1>20, <1>21, <1>22, <1>23 DEF CoreInv

LEMMA CoreStutterInv ==
  ASSUME CoreInv, UNCHANGED coreVars
  PROVE  CoreInv'
<1>1. core' = core /\ prog' = prog /\ next' = next /\ trace' = trace /\ lost' = lost /\ faults' = faults
  BY DEF coreVars
<1> QED BY <1>1 DEF CoreInv, CoreTypeOK, StageInv, OrderInv, PathInv, IssueInv, Kept, Indices, Issued,
                    At, Serving

\* In every trace the stages of a micro-op are in order, fetch and commit follow
\* the program, squashed micro-ops stand behind the branch they were fetched
\* after, and an in-order core issues in program order.
THEOREM CoreInvariance == CoreSpec => []CoreInv
<1>1. CoreInit => CoreInv
  BY CoreInitInv
<1>2. CoreInv /\ [CoreNext]_coreVars => CoreInv'
  BY ExecuteInv, WrongPathInv, CoreStutterInv DEF CoreNext
<1> QED BY <1>1, <1>2, PTL DEF CoreSpec

-----------------------------------------------------------------------------
(* The superscalar core.                                                   *)

\* The units of the superscalar core.
LEMMA SuperscalarFacts ==
  ASSUME NEW DLEN, NEW VPU_OPLAT, NEW SCALAR_FP_OPLAT,
         core = Superscalar(DLEN, VPU_OPLAT, SCALAR_FP_OPLAT)
  PROVE  /\ core.width = 2 /\ ~core.ooo /\ core.pipelined
         /\ Serving("IntAlu") = {1, 2} /\ Serving("SimdConfig") = {1, 2}
         /\ Serving("FloatMultAcc") = {3}
         /\ Serving("SimdFloatMultAcc") = {4} /\ Serving("SimdFloatReduceAdd") = {4}
         /\ \A u \in 1 .. 3 : core.units[u].issueLat = 1 /\ core.units[u].rel = 2
         /\ core.units[4].issueLat = 512 \div DLEN /\ core.dlen = DLEN
<1> DEFINE fp  == ScalarFpFU(SCALAR_FP_OPLAT)
           vec == VectorFU(VPU_OPLAT, 512, DLEN)
           int == Copies(2, IntAluConfigFU)
<1>1. PICK units : units = core.units
  OBVIOUS
<1>2. core.width = 2 /\ ~core.ooo /\ core.pipelined /\ units = int \o <<fp, vec, MemFU>>
  <2> DEFINE pool == InOrderDualIssueFUPool(DLEN, VPU_OPLAT, SCALAR_FP_OPLAT)
  <2>1. core.width = 2 /\ core.ooo = FALSE /\ core.pipelined = TRUE /\ core.units = pool
    <3> HIDE DEF pool
    <3> QED BY DEF Superscalar, pool
  <2>2. pool = int \o <<fp, vec, MemFU>>
    BY DEF InOrderDualIssueFUPool
  <2> QED BY <2>1, <2>2, <1>1
<1>3. PICK a, b, c, d : a = IntAluConfigFU /\ b = fp /\ c = vec /\ d = MemFU
  OBVIOUS
<1>4. units = <<a, a>> \o <<b, c, d>>
  <2>1. int = [u \in 1 .. 2 |-> a]
    BY <1>3 DEF Copies
  <2> HIDE DEF int, fp, vec
  <2>2. int = <<a, a>>
    BY <2>1
  <2> QED BY <2>2, <1>2, <1>3
<1>5. /\ DOMAIN units = 1 .. 5
      /\ units[1] = IntAluConfigFU /\ units[2] = IntAluConfigFU
      /\ units[3] = fp /\ units[4] = vec /\ units[5] = MemFU
  <2>1. PICK s, w : s = <<a, a>> /\ w = <<b, c, d>> /\ units = s \o w
    BY <1>4
  <2>2. s \in Seq({a, b, c, d}) /\ w \in Seq({a, b, c, d}) /\ Len(s) = 2 /\ Len(w) = 3
    BY <2>1
  <2>3. /\ s \o w \in Seq({a, b, c, d}) /\ Len(s \o w) = 5
        /\ (s \o w)[1] = s[1] /\ (s \o w)[2] = s[2]
        /\ (s \o w)[3] = w[1] /\ (s \o w)[4] = w[2] /\ (s \o w)[5] = w[3]
    <3>1. \A i \in 1 .. Len(s) + Len(w) : (s \o w)[i] = IF i <= Len(s) THEN s[i] ELSE w[i - Len(s)]
      BY <2>2, ConcatProperties, Zenon
    <3>2. s \o w \in Seq({a, b, c, d}) /\ Len(s \o w) = Len(s) + Len(w)
      BY <2>2, ConcatProperties, Zenon
    <3>3. \A i \in 1 .. 2 + 3 : (s \o w)[i] = IF i <= 2 THEN s[i] ELSE w[i - 2]
      BY <3>1, <2>2, Zenon
    <3> QED BY <3>2, <3>3, <2>2
  <2>4. /\ DOMAIN units = 1 .. 5 /\ units[1] = a /\ units[2] = a /\ units[3] = b /\ units[4] = c
        /\ units[5] = d
    BY <2>1, <2>3
  <2> HIDE DEF fp, vec
  <2> QED BY <2>4, <1>3
<1>6. /\ DOMAIN IntAluConfigFU.lat = {"IntAlu", "SimdConfig"}
      /\ IntAluConfigFU.issueLat = 1 /\ IntAluConfigFU.rel = 2
      /\ DOMAIN fp.lat = {"FloatMultAcc"} /\ fp.issueLat = 1 /\ fp.rel = 2
      /\ DOMAIN vec.lat = {"SimdFloatMultAcc", "SimdFloatReduceAdd"}
      /\ DOMAIN MemFU.lat = {"Mem"}
  BY DEF IntAluConfigFU, ScalarFpFU, VectorFU, MemFU, FU, SCALAR_FP_OPS, VECTOR_OPS
<1>7. ASSUME NEW cl PROVE Serving(cl) = {u \in 1 .. 5 : cl \in DOMAIN units[u].lat}
  BY <1>1, <1>5 DEF Serving
<1>8. \A u \in 1 .. 5 : u = 1 \/ u = 2 \/ u = 3 \/ u = 4 \/ u = 5
  OBVIOUS
<1>9. /\ Serving("IntAlu") = {1, 2} /\ Serving("SimdConfig") = {1, 2}
      /\ Serving("FloatMultAcc") = {3}
      /\ Serving("SimdFloatMultAcc") = {4} /\ Serving("SimdFloatReduceAdd") = {4}
  <2> HIDE DEF fp, vec
  <2> QED BY <1>5, <1>6, <1>7, <1>8
<1>10. \A u \in 1 .. 3 : core.units[u].issueLat = 1 /\ core.units[u].rel = 2
  <2> HIDE DEF fp, vec
  <2> QED BY <1>1, <1>5, <1>6
<1>11. core.units[4].issueLat = 512 \div DLEN
  <2>1. vec.issueLat = 512 \div DLEN
    BY DEF VectorFU, FU
  <2> HIDE DEF fp, vec
  <2> QED BY <2>1, <1>1, <1>5
<1>12. core.dlen = DLEN
  BY DEF Superscalar
<1> QED BY <1>2, <1>9, <1>10, <1>11, <1>12

\* The classes of instructions.
LEMMA Classes ==
  ASSUME NEW dis
  PROVE  OpClass(dis) \in {"SimdFloatMultAcc", "SimdFloatReduceAdd", "FloatMultAcc", "SimdConfig",
                           "Mem", "IntAlu"}
<1> QED BY DEF OpClass

\* What DualIssue says of micro-op k.
Dual(k) ==
  LET t == Max({At(k, "fetch") + 1, At(k - 1, "issue")})
      vector(i) == OpClass(trace[i].dis) \in VECTOR_OPS
      waits == \E p \in 1 .. k - 1 :
                 /\ trace[k].reg # 0 /\ trace[p].reg = trace[k].reg
                 /\ At(p, "complete") > t
      full == Cardinality({i \in 1 .. k - 1 : At(i, "issue") = t}) = core.width
  IN (vector(k - 1) /\ ~vector(k) /\ OpClass(trace[k].dis) # "Mem" /\ ~waits /\ ~full)
       => At(k, "issue") = t

\* A scalar instruction behind a vector one finds a unit and its operands.
LEMMA DualIssues ==
  ASSUME CoreTypeOK, StageInv, IssueInv,
         NEW DLEN, NEW VPU_OPLAT, NEW SCALAR_FP_OPLAT,
         core = Superscalar(DLEN, VPU_OPLAT, SCALAR_FP_OPLAT),
         NEW x \in Instructions, Serving(OpClass(x.dis)) # {}, NEW f \in Nat,
         NEW m \in Indices, m = Len(trace),
         OpClass(trace[m].dis) \in VECTOR_OPS,
         OpClass(x.dis) \notin VECTOR_OPS, OpClass(x.dis) # "Mem",
         NEW t \in Nat, t = Max({f + 1, At(m, "issue")}),
         \A p \in Indices : (x.reg # 0 /\ trace[p].reg = x.reg) => At(p, "complete") <= t,
         Cardinality({i \in Indices : At(i, "issue") = t}) # core.width
  PROVE  IssueAt(x, f + 1) = t
<1>1. /\ core.width = 2 /\ ~core.ooo /\ core.pipelined
      /\ Serving("IntAlu") = {1, 2} /\ Serving("SimdConfig") = {1, 2}
      /\ Serving("FloatMultAcc") = {3}
      /\ Serving("SimdFloatMultAcc") = {4} /\ Serving("SimdFloatReduceAdd") = {4}
      /\ \A u \in 1 .. 3 : core.units[u].issueLat = 1 /\ core.units[u].rel = 2
  BY SuperscalarFacts
<1>2. /\ Kept = Indices /\ Issued = Indices
      /\ \A j, k \in Indices : j < k => At(j, "issue") <= At(k, "issue")
  BY <1>1, IssuedKept DEF IssueInv
<1>3. \A k \in Indices : /\ k \in Nat /\ k <= m /\ At(k, "issue") \in Nat /\ At(k, "complete") \in Nat
  BY TraceFacts DEF Indices, Stages
<1>4. \A k \in Indices : At(k, "issue") <= At(m, "issue")
  <2> SUFFICES ASSUME NEW k \in Indices PROVE At(k, "issue") <= At(m, "issue")
    OBVIOUS
  <2>1. CASE k = m
    BY <2>1, <1>3
  <2>2. CASE k # m
    BY <2>2, <1>2, <1>3
  <2> QED BY <2>1, <2>2
<1>5. /\ f + 1 <= t /\ At(m, "issue") <= t /\ (t = f + 1 \/ t = At(m, "issue"))
  <2>1. PICK a \in Nat : a = At(m, "issue")
    BY <1>3
  <2>2. t = IF f + 1 >= a THEN f + 1 ELSE a
    BY <2>1, MaxOfTwo
  <2> QED BY <2>1, <2>2
<1> DEFINE S == {i \in Indices : At(i, "issue") = t}
<1>6. IsFiniteSet(S) /\ Cardinality(S) \in Nat /\ Cardinality(S) < 2
  <2>1. S \subseteq Indices /\ IsFiniteSet(Indices)
    BY FS_Interval, TraceFacts DEF Indices
  <2>2. {k \in Issued : At(k, "issue") = t} = S
    BY <1>2
  <2>3. Cardinality(S) <= 2
    BY <2>2, <1>1 DEF IssueInv
  <2>4. Cardinality(S) # 2
    BY <1>1
  <2>5. IsFiniteSet(S) /\ Cardinality(S) \in Nat
    <3> HIDE DEF S
    <3> QED BY <2>1, FS_Subset, FS_CardinalityType
  <2> HIDE DEF S
  <2> QED BY <2>3, <2>4, <2>5
<1>7. Allowed(t)
  <2>1. {k \in Issued : At(k, "issue") = t} = S
    BY <1>2
  <2>2. Cardinality({k \in Issued : At(k, "issue") = t}) < core.width
    <3> HIDE DEF S
    <3> QED BY <2>1, <1>1, <1>6
  <2>3. \A k \in Issued : At(k, "issue") <= t
    BY <1>2, <1>3, <1>4, <1>5
  <2> QED BY <2>2, <2>3, <1>1 DEF Allowed
<1>8. PICK u \in 1 .. 3 : u \in Serving(OpClass(x.dis))
  <2>1. OpClass(x.dis) \in {"IntAlu", "SimdConfig", "FloatMultAcc"}
    BY Classes DEF VECTOR_OPS
  <2> QED BY <2>1, <1>1
<1>9. trace[m].unit = 4
  <2>1. trace[m].unit \in Serving(OpClass(trace[m].dis))
    BY <1>2 DEF StageInv
  <2>2. OpClass(trace[m].dis) \in {"SimdFloatMultAcc", "SimdFloatReduceAdd"}
    BY DEF VECTOR_OPS
  <2> QED BY <2>1, <2>2, <1>1
<1>10. Idle(u, t)
  <2> SUFFICES ASSUME NEW k \in Issued, trace[k].unit = u, At(k, "issue") <= t
               PROVE  t - At(k, "issue") >= core.units[u].issueLat
    BY DEF Idle
  <2>1. k \in Indices /\ k # m
    BY <1>2, <1>9
  <2>2. At(k, "issue") # t
    <3> SUFFICES ASSUME At(k, "issue") = t PROVE FALSE
      OBVIOUS
    <3>1. At(m, "issue") = t
      BY <2>1, <1>3, <1>4, <1>5
    <3>2. {k, m} \subseteq S
      BY <2>1, <3>1
    <3>3. Cardinality({k, m}) = 2
      <4>1. {k, m} = {k} \cup {m} /\ m \notin {k}
        BY <2>1
      <4>2. IsFiniteSet({k}) /\ Cardinality({k}) = 1
        BY FS_Singleton
      <4>3. Cardinality({k} \cup {m}) = Cardinality({k}) + 1
        BY <4>1, <4>2, FS_AddElement
      <4>4. Cardinality({k, m}) = 1 + 1
        BY <4>1, <4>2, <4>3, Zenon
      <4> QED BY <4>4
    <3>4. Cardinality({k, m}) <= Cardinality(S)
      <4> HIDE DEF S
      <4> QED BY <3>2, <1>6, FS_Subset
    <3> HIDE DEF S
    <3> QED BY <3>3, <3>4, <1>6
  <2> QED BY <2>1, <2>2, <1>1, <1>3
<1>11. Ready(x, u) <= t
  <2>1. CASE Producers(x) = {} /\ Ready(x, u) = 0
    BY <2>1
  <2>2. CASE ~(Producers(x) = {} /\ Ready(x, u) = 0)
    <3> DEFINE d(p) == At(p, "complete") - core.units[u].rel
    <3>1. PICK p : /\ p \in Producers(x) /\ p \in Indices
                   /\ Ready(x, u) = IF At(p, "issue") + 1 >= d(p) THEN At(p, "issue") + 1 ELSE d(p)
      BY <1>8, <2>2, ReadyFacts
    <3>2. x.reg # 0 /\ trace[p].reg = x.reg /\ p \in Kept
      BY <3>1 DEF Producers
    <3>3. At(p, "complete") <= t
      BY <3>1, <3>2
    <3>4. At(p, "issue") + 1 <= At(p, "complete")
      <4>1. /\ trace[p].unit \in Serving(OpClass(trace[p].dis))
            /\ At(p, "complete") = At(p, "issue") + core.units[trace[p].unit].lat[OpClass(trace[p].dis)]
        BY <3>2 DEF StageInv
      <4>2. PICK l \in Nat \ {0} : l = core.units[trace[p].unit].lat[OpClass(trace[p].dis)]
        BY <4>1, CoreFacts
      <4>3. At(p, "issue") \in Nat
        BY <3>1, <1>3
      <4> QED BY <4>1, <4>2, <4>3
    <3>5. core.units[u].rel = 2
      BY <1>1
    <3>6. At(p, "issue") + 1 <= t /\ d(p) <= t
      BY <3>1, <3>3, <3>4, <3>5, <1>3
    <3> QED BY <3>1, <3>6
  <2> QED BY <2>1, <2>2
<1>12. Takers(x, t) # {}
  BY <1>7, <1>8, <1>10, <1>11 DEF Takers
<1>13. f + 1 \in Nat
  OBVIOUS
<1>14. PICK i \in Nat : /\ i = IssueAt(x, f + 1) /\ f + 1 <= i /\ Takers(x, i) # {}
                        /\ \A c \in Nat : (f + 1 <= c /\ Takers(x, c) # {}) => i <= c
  BY <1>13, IssueFacts
<1>15. i <= t
  BY <1>5, <1>12, <1>14
<1>16. At(m, "issue") <= i
  <2>1. Allowed(i)
    BY <1>14, UnitFacts
  <2> QED BY <2>1, <1>1, <1>2 DEF Allowed
<1> QED BY <1>5, <1>14, <1>15, <1>16

\* Every superscalar core among the runs is that of its configuration file.
SuperscalarRuns ==
  \A r \in RUNS : r.core.cpu = "superscalar" =>
    \E DLEN, VPU_OPLAT, SCALAR_FP_OPLAT \in Int :
      r.core = Superscalar(DLEN, VPU_OPLAT, SCALAR_FP_OPLAT)

LEMMA DualIsIssue == DualIssue <=> (core.cpu = "superscalar" => \A k \in Indices \ {1} : Dual(k))
<1> QED BY DEF DualIssue, Dual

LEMMA DualStep ==
  ASSUME CoreInv, DualIssue, SuperscalarRuns, Execute
  PROVE  DualIssue'
<1>0. PICK n : n = Len(trace) + 1
  OBVIOUS
<1>1. CoreTypeOK /\ StageInv /\ OrderInv /\ PathInv /\ IssueInv
  BY DEF CoreInv
<1>2. PICK x \in Instructions, f \in Nat \ {0}, r \in Records :
        /\ Serving(OpClass(x.dis)) # {}
        /\ r = Record(x, f) /\ trace' = Append(trace, r)
        /\ core' = core
  BY ExecuteFacts
<1>3. SUFFICES ASSUME core.cpu = "superscalar", NEW k \in Indices' \ {1} PROVE Dual(k)'
  BY <1>2, DualIsIssue DEF DualIssue, Dual
<1>4. /\ n \in Nat \ {0}
      /\ Indices' = Indices \cup {n} /\ n \notin Indices /\ \A j \in Indices : j < n
      /\ \A j \in Indices : trace'[j] = trace[j]
      /\ trace'[n] = r
  BY <1>0, <1>1, <1>2, AppendFacts
<1>5. \A j \in Indices, s \in Stages : At(j, s)' = At(j, s)
  BY <1>0, <1>1, <1>2, AppendFacts
<1>6. \A s \in Stages : At(n, s)' = Cycle(r[s])
  BY <1>0, <1>1, <1>2, AppendFacts
<1>7. PICK DLEN, VPU_OPLAT, SCALAR_FP_OPLAT \in Int : core = Superscalar(DLEN, VPU_OPLAT, SCALAR_FP_OPLAT)
  <2>1. PICK run \in RUNS : core = run.core
    BY <1>1 DEF CoreTypeOK
  <2> QED BY <2>1, <1>3 DEF SuperscalarRuns
<1>8. k - 1 \in Indices /\ k \in Nat /\ 1 .. k - 1 \subseteq Indices /\ Len(trace) \in Nat
  BY <1>0, <1>1, <1>3, <1>4, TraceFacts DEF Indices
<1>9. \A j \in 1 .. k - 1 : /\ trace'[j] = trace[j]
                           /\ At(j, "issue")' = At(j, "issue") /\ At(j, "complete")' = At(j, "complete")
  BY <1>4, <1>5, <1>8 DEF Stages
<1>10. k - 1 \in 1 .. k - 1 /\ At(k - 1, "issue")' = At(k - 1, "issue") /\ trace'[k - 1] = trace[k - 1]
  <2>1. k - 1 \in 1 .. k - 1
    BY <1>8 DEF Indices
  <2> QED BY <2>1, <1>4, <1>5, <1>8 DEF Stages
<1> DEFINE fetched == Max({At(k, "fetch")' + 1, At(k - 1, "issue")})
<1>11. \A t : {i \in 1 .. k - 1 : At(i, "issue")' = t} = {i \in 1 .. k - 1 : At(i, "issue") = t}
  BY <1>9
<1>12. \A t : (\E p \in 1 .. k - 1 :
                  /\ trace'[k].reg # 0 /\ trace'[p].reg = trace'[k].reg
                  /\ At(p, "complete")' > t)
              <=> \E p \in 1 .. k - 1 :
                    /\ trace'[k].reg # 0 /\ trace[p].reg = trace'[k].reg
                    /\ At(p, "complete") > t
  BY <1>9
<1>13. SUFFICES ASSUME OpClass(trace[k - 1].dis) \in VECTOR_OPS,
                       OpClass(trace'[k].dis) \notin VECTOR_OPS,
                       OpClass(trace'[k].dis) # "Mem",
                       ~ \E p \in 1 .. k - 1 :
                           /\ trace'[k].reg # 0 /\ trace[p].reg = trace'[k].reg
                           /\ At(p, "complete") > fetched,
                       Cardinality({i \in 1 .. k - 1 : At(i, "issue") = fetched}) # core.width
                PROVE  At(k, "issue")' = fetched
  <2>1. At(k - 1, "issue")' = At(k - 1, "issue") /\ trace'[k - 1] = trace[k - 1]
    BY <1>10
  <2> QED BY <2>1, <1>2, <1>11, <1>12 DEF Dual
<1>14. CASE k \in Indices
  <2>1. Dual(k)
    BY <1>3, <1>14, DualIsIssue
  <2>2. At(k, "fetch")' = At(k, "fetch") /\ At(k, "issue")' = At(k, "issue") /\ trace'[k] = trace[k]
    BY <1>14, <1>4, <1>5 DEF Stages
  <2>3. fetched = Max({At(k, "fetch") + 1, At(k - 1, "issue")})
    BY <2>2
  <2> QED BY <2>1, <2>2, <2>3, <1>13 DEF Dual
<1>15. CASE k = n
  <2>1. f \in Nat /\ f + 1 \in Nat
    OBVIOUS
  <2>2. /\ Cycle(r.fetch) = f /\ Cycle(r.issue) = IssueAt(x, f + 1)
        /\ r.dis = x.dis /\ r.reg = x.reg
    <3>1. r = Record(x, f) /\ Serving(OpClass(x.dis)) # {} /\ CoreTypeOK /\ StageInv
      BY <1>1, <1>2
    <3> QED BY <2>1, <3>1, RecordFacts
  <2>3. PICK m \in Indices : m = Len(trace) /\ m = k - 1
    BY <1>0, <1>8, <1>15
  <2>4. At(k, "fetch")' = f /\ At(k, "issue")' = IssueAt(x, f + 1) /\ trace'[k] = r
    BY <2>2, <1>4, <1>6, <1>15 DEF Stages
  <2>5. PICK a \in Nat : a = At(m, "issue")
    BY <1>1, TraceFacts DEF Stages
  <2>6. PICK t \in Nat : t = fetched /\ t = Max({f + 1, At(m, "issue")})
    <3>1. fetched = Max({f + 1, a})
      BY <2>3, <2>4, <2>5
    <3>2. Max({f + 1, a}) \in Nat
      BY <2>1, <2>5, MaxOfTwo
    <3> HIDE DEF fetched
    <3> QED BY <3>1, <3>2, <2>5
  <2>7. 1 .. k - 1 = Indices
    BY <1>0, <1>15, <1>8 DEF Indices
  <2>8. \A p \in Indices : (x.reg # 0 /\ trace[p].reg = x.reg) => At(p, "complete") <= t
    <3> SUFFICES ASSUME NEW p \in Indices, x.reg # 0, trace[p].reg = x.reg
                 PROVE  At(p, "complete") <= t
      OBVIOUS
    <3>1. ~(At(p, "complete") > t)
      <4> HIDE DEF fetched
      <4> QED BY <2>2, <2>4, <2>6, <2>7, <1>13
    <3>2. At(p, "complete") \in Nat
      BY <1>1, TraceFacts DEF Stages
    <3> QED BY <3>1, <3>2
  <2>9. Cardinality({i \in Indices : At(i, "issue") = t}) # core.width
    <3> HIDE DEF fetched
    <3> QED BY <2>6, <2>7, <1>13
  <2>10. /\ OpClass(trace[m].dis) \in VECTOR_OPS
         /\ OpClass(x.dis) \notin VECTOR_OPS /\ OpClass(x.dis) # "Mem"
    BY <2>2, <2>3, <2>4, <1>13
  <2>11. IssueAt(x, f + 1) = t
    <3> HIDE DEF fetched
    <3> QED BY <1>1, <1>2, <1>7, <2>1, <2>3, <2>6, <2>8, <2>9, <2>10, DualIssues
  <2> HIDE DEF fetched
  <2> QED BY <2>4, <2>6, <2>11
<1> QED BY <1>4, <1>14, <1>15

\* On the superscalar core, for every setting of its knobs and every program, a
\* scalar instruction behind a vector one issues in the same cycle, unless its
\* operands, its fetch or the issue width hold it up: the reason given for its
\* two units.
THEOREM DualIssueCorrect ==
  ASSUME SuperscalarRuns
  PROVE  CoreSpec => []DualIssue
<1>1. CoreInit => DualIssue
  <2> SUFFICES ASSUME CoreInit PROVE DualIssue
    OBVIOUS
  <2>1. Indices = {}
    BY DEF CoreInit, Indices
  <2> QED BY <2>1 DEF DualIssue
<1>2. CoreInv /\ DualIssue /\ [CoreNext]_coreVars => DualIssue'
  <2> SUFFICES ASSUME CoreInv, DualIssue, [CoreNext]_coreVars PROVE DualIssue'
    OBVIOUS
  <2>1. CASE Execute
    BY <2>1, DualStep
  <2>2. CASE WrongPath
    <3>1. lost /\ core' = core
      BY <2>2 DEF WrongPath
    <3>2. core.ooo /\ CoreTypeOK
      BY <3>1 DEF CoreInv, IssueInv
    <3>3. core.cpu # "superscalar"
      <4> SUFFICES ASSUME core.cpu = "superscalar" PROVE FALSE
        OBVIOUS
      <4>1. PICK run \in RUNS : core = run.core
        BY <3>2 DEF CoreTypeOK
      <4>2. PICK DLEN, VPU_OPLAT, SCALAR_FP_OPLAT : core = Superscalar(DLEN, VPU_OPLAT, SCALAR_FP_OPLAT)
        BY <4>1 DEF SuperscalarRuns
      <4> QED BY <4>2, <3>2, SuperscalarFacts
    <3> QED BY <3>1, <3>3 DEF DualIssue
  <2>3. CASE UNCHANGED coreVars
    BY <2>3 DEF DualIssue, coreVars, Indices, At, Cycle
  <2> QED BY <2>1, <2>2, <2>3 DEF CoreNext
<1> QED BY <1>1, <1>2, CoreInvariance, PTL DEF CoreSpec

-----------------------------------------------------------------------------
(* The configurations.                                                     *)

LEMMA UnitIs ==
  ASSUME NEW D, NEW lat \in [D -> Nat \ {0}], NEW issueLat \in Nat \ {0}, NEW rel \in Nat
  PROVE  IsUnit(FU(lat, issueLat, rel))
BY DEF IsUnit, FU

LEMMA CopiesAre ==
  ASSUME NEW S, NEW fu \in S, NEW n \in Nat
  PROVE  Copies(n, fu) \in Seq(S)
BY DEF Copies

LEMMA PoolIs ==
  ASSUME NEW S, \A fu \in S : IsUnit(fu), NEW units \in Seq(S)
  PROVE  DOMAIN units \subseteq Nat /\ \A u \in DOMAIN units : IsUnit(units[u])
OBVIOUS

AreUnits(S) == \A fu \in S : IsUnit(fu)

LEMMA CoreIs ==
  ASSUME NEW S, AreUnits(S), NEW c, c.units \in Seq(S), c.width \in Nat \ {0},
         {c.ooo, c.pipelined} \subseteq BOOLEAN, {c.fetches, c.icache, c.prefetch} \subseteq Nat
  PROVE  IsCore(c)
<1>1. PICK units : units = c.units
  OBVIOUS
<1>2. DOMAIN units \subseteq Nat /\ \A u \in DOMAIN units : IsUnit(units[u])
  BY <1>1, PoolIs DEF AreUnits
<1> QED BY <1>1, <1>2 DEF IsCore

LEMMA StockUnits == IsUnit(IntFU) /\ IsUnit(MemFU) /\ IsUnit(IntAluConfigFU)
<1>1. /\ [c \in {"IntAlu"} |-> 3] \in [{"IntAlu"} -> Nat \ {0}]
      /\ [c \in {"Mem"} |-> 1] \in [{"Mem"} -> Nat \ {0}]
      /\ [c \in {"IntAlu", "SimdConfig"} |-> 3] \in [{"IntAlu", "SimdConfig"} -> Nat \ {0}]
  OBVIOUS
<1>2. IsUnit(IntFU)
  BY <1>1, UnitIs DEF IntFU
<1>3. IsUnit(MemFU)
  BY <1>1, UnitIs DEF MemFU
<1>4. IsUnit(IntAluConfigFU)
  BY <1>1, UnitIs DEF IntAluConfigFU
<1> QED BY <1>2, <1>3, <1>4

LEMMA TimingSimpleIs == IsCore(TimingSimple)
<1> DEFINE D == {"IntAlu", "Mem", "SimdConfig"} \cup SCALAR_FP_OPS \cup VECTOR_OPS
           fu == FU([c \in D |-> 1], 1, 0)
<1>1. IsUnit(fu)
  <2> HIDE DEF D
  <2>1. [c \in D |-> 1] \in [D -> Nat \ {0}]
    OBVIOUS
  <2> QED BY <2>1, UnitIs
<1>2. TimingSimple.units = <<fu>>
  BY DEF TimingSimple
<1>3. L1(2) \in Nat
  BY DEF L1
<1>4. /\ TimingSimple.width = 1 /\ TimingSimple.ooo = FALSE /\ TimingSimple.pipelined = FALSE
      /\ TimingSimple.fetches = 1 /\ TimingSimple.icache = L1(2) /\ TimingSimple.prefetch = 0
  BY DEF TimingSimple
<1> HIDE DEF fu
<1>5. TimingSimple.units \in Seq({fu})
  <2>1. <<fu>> \in Seq({fu})
    OBVIOUS
  <2> QED BY <2>1, <1>2, Zenon
<1>6. AreUnits({fu})
  BY <1>1 DEF AreUnits
<1>7. {TimingSimple.ooo, TimingSimple.pipelined} \subseteq BOOLEAN
  BY <1>4
<1>8. /\ {TimingSimple.fetches, TimingSimple.icache, TimingSimple.prefetch} \subseteq Nat
      /\ TimingSimple.width \in Nat \ {0}
  BY <1>3, <1>4
<1> QED BY <1>5, <1>6, <1>7, <1>8, CoreIs

LEMMA MinorIs ==
  ASSUME NEW FLOAT_FU_COUNT \in Nat, NEW SIMD_OPLAT \in Nat \ {0}, NEW FETCH_LIMIT \in Nat,
         NEW ICACHE_LAT \in Nat
  PROVE  IsCore(Minor(FLOAT_FU_COUNT, SIMD_OPLAT, FETCH_LIMIT, ICACHE_LAT))
<1> DEFINE fu == FloatSimdFU(SIMD_OPLAT)
           S  == {IntFU, fu, MemFU}
           c  == Minor(FLOAT_FU_COUNT, SIMD_OPLAT, FETCH_LIMIT, ICACHE_LAT)
<1>1. IsUnit(fu)
  <2> DEFINE D == SCALAR_FP_OPS \cup VECTOR_OPS \cup {"SimdConfig"}
  <2>1. fu = FU([k \in D |-> SIMD_OPLAT], 1, 2)
    BY DEF FloatSimdFU
  <2> HIDE DEF D
  <2>2. [k \in D |-> SIMD_OPLAT] \in [D -> Nat \ {0}]
    OBVIOUS
  <2> QED BY <2>1, <2>2, UnitIs
<1>2. CustomMinorFUPool(FLOAT_FU_COUNT, SIMD_OPLAT) \in Seq(S)
  <2> HIDE DEF fu
  <2>1. /\ Copies(2, IntFU) \in Seq(S) /\ Copies(FLOAT_FU_COUNT, fu) \in Seq(S) /\ <<MemFU>> \in Seq(S)
    <3>1. IntFU \in S /\ fu \in S /\ MemFU \in S
      OBVIOUS
    <3> HIDE DEF S
    <3>2. <<MemFU>> \in Seq(S)
      BY <3>1
    <3> QED BY <3>1, <3>2, CopiesAre
  <2> HIDE DEF S
  <2>2. (Copies(2, IntFU) \o Copies(FLOAT_FU_COUNT, fu)) \o <<MemFU>> \in Seq(S)
    BY <2>1
  <2> QED BY <2>2 DEF CustomMinorFUPool, fu
<1>3. L1(ICACHE_LAT) \in Nat
  BY DEF L1
<1>4. /\ c.units = CustomMinorFUPool(FLOAT_FU_COUNT, SIMD_OPLAT)
      /\ c.width = 2 /\ c.ooo = FALSE /\ c.pipelined = TRUE
      /\ c.fetches = FETCH_LIMIT /\ c.icache = L1(ICACHE_LAT) /\ c.prefetch = 0
  BY DEF Minor
<1>5. AreUnits(S)
  BY <1>1, StockUnits DEF AreUnits
<1> HIDE DEF S, c
<1>6. {c.ooo, c.pipelined} \subseteq BOOLEAN
  BY <1>4
<1>7. {c.fetches, c.icache, c.prefetch} \subseteq Nat /\ c.width \in Nat \ {0}
  BY <1>3, <1>4
<1>8. c.units \in Seq(S)
  BY <1>2, <1>4, Zenon
<1>9. IsCore(c)
  BY <1>5, <1>6, <1>7, <1>8, CoreIs
<1> QED BY <1>9 DEF c

LEMMA SuperscalarIs ==
  ASSUME NEW DLEN \in 1 .. 512, NEW VPU_OPLAT \in Nat \ {0}, NEW SCALAR_FP_OPLAT \in Nat \ {0}
  PROVE  IsCore(Superscalar(DLEN, VPU_OPLAT, SCALAR_FP_OPLAT))
<1> DEFINE fp  == ScalarFpFU(SCALAR_FP_OPLAT)
           vec == VectorFU(VPU_OPLAT, 512, DLEN)
           S   == {IntAluConfigFU, fp, vec, MemFU}
           c   == Superscalar(DLEN, VPU_OPLAT, SCALAR_FP_OPLAT)
<1>1. IsUnit(fp)
  <2>1. [k \in SCALAR_FP_OPS |-> SCALAR_FP_OPLAT] \in [SCALAR_FP_OPS -> Nat \ {0}]
    OBVIOUS
  <2> QED BY <2>1, UnitIs DEF ScalarFpFU
<1>2. IsUnit(vec)
  <2>1. [k \in VECTOR_OPS |-> VPU_OPLAT] \in [VECTOR_OPS -> Nat \ {0}]
    OBVIOUS
  <2>2. 512 \div DLEN \in Nat \ {0}
    OBVIOUS
  <2> QED BY <2>1, <2>2, UnitIs DEF VectorFU
<1>3. InOrderDualIssueFUPool(DLEN, VPU_OPLAT, SCALAR_FP_OPLAT) \in Seq(S)
  <2> HIDE DEF fp, vec
  <2>1. Copies(2, IntAluConfigFU) \in Seq(S) /\ <<fp, vec, MemFU>> \in Seq(S)
    BY CopiesAre
  <2> HIDE DEF S
  <2>2. Copies(2, IntAluConfigFU) \o <<fp, vec, MemFU>> \in Seq(S)
    BY <2>1
  <2> QED BY <2>2 DEF InOrderDualIssueFUPool, fp, vec
<1>4. L1(1) \in Nat
  BY DEF L1
<1>5. /\ c.units = InOrderDualIssueFUPool(DLEN, VPU_OPLAT, SCALAR_FP_OPLAT)
      /\ c.width = 2 /\ c.ooo = FALSE /\ c.pipelined = TRUE
      /\ c.fetches = 2 /\ c.icache = L1(1) /\ c.prefetch = 0
  BY DEF Superscalar
<1>6. AreUnits(S)
  BY <1>1, <1>2, StockUnits DEF AreUnits
<1> HIDE DEF S, c
<1>7. {c.ooo, c.pipelined} \subseteq BOOLEAN
  BY <1>5
<1>8. {c.fetches, c.icache, c.prefetch} \subseteq Nat /\ c.width \in Nat \ {0}
  BY <1>4, <1>5
<1>9. c.units \in Seq(S)
  BY <1>3, <1>5, Zenon
<1>10. IsCore(c)
  BY <1>6, <1>7, <1>8, <1>9, CoreIs
<1> QED BY <1>10 DEF c

LEMMA O3Is ==
  ASSUME NEW SIMD_FMA_OPLAT \in Nat \ {0}, NEW ICACHE_PF_DEGREE \in Nat
  PROVE  IsCore(O3(SIMD_FMA_OPLAT, ICACHE_PF_DEGREE))
<1> DEFINE alu  == FU([c \in {"IntAlu"} |-> 1], 1, 0)
           fp   == FU([c \in SCALAR_FP_OPS |-> 5], 1, 0)
           simd == CustomSIMDUnit(SIMD_FMA_OPLAT)
           S    == {alu, fp, simd, MemFU}
           c    == O3(SIMD_FMA_OPLAT, ICACHE_PF_DEGREE)
<1>1. IsUnit(alu) /\ IsUnit(fp)
  <2>1. /\ [k \in {"IntAlu"} |-> 1] \in [{"IntAlu"} -> Nat \ {0}]
        /\ [k \in SCALAR_FP_OPS |-> 5] \in [SCALAR_FP_OPS -> Nat \ {0}]
    OBVIOUS
  <2> QED BY <2>1, UnitIs
<1>2. IsUnit(simd)
  <2> DEFINE D == VECTOR_OPS \cup {"SimdConfig"}
             lat == [k \in D |-> IF k = "SimdFloatMultAcc" THEN SIMD_FMA_OPLAT ELSE 1]
  <2>1. simd = FU(lat, 1, 0)
    BY DEF CustomSIMDUnit
  <2>2. lat \in [D -> Nat \ {0}]
    <3> HIDE DEF D
    <3> QED OBVIOUS
  <2> HIDE DEF D, lat, simd
  <2> QED BY <2>1, <2>2, UnitIs
<1>3. CustomFUPool(SIMD_FMA_OPLAT) \in Seq(S)
  <2> HIDE DEF alu, fp, simd
  <2>1. /\ Copies(6, alu) \in Seq(S) /\ Copies(2, fp) \in Seq(S)
        /\ Copies(4, simd) \in Seq(S) /\ Copies(4, MemFU) \in Seq(S)
    BY CopiesAre
  <2> HIDE DEF S
  <2>2. ((Copies(6, alu) \o Copies(2, fp)) \o Copies(4, simd)) \o Copies(4, MemFU) \in Seq(S)
    BY <2>1
  <2> QED BY <2>2 DEF CustomFUPool, alu, fp, simd
<1>4. L1(2) \in Nat
  BY DEF L1
<1>5. /\ c.units = CustomFUPool(SIMD_FMA_OPLAT)
      /\ c.width = 8 /\ c.ooo = TRUE /\ c.pipelined = TRUE
      /\ c.fetches = 4 /\ c.icache = L1(2) /\ c.prefetch = ICACHE_PF_DEGREE
  BY DEF O3
<1>6. AreUnits(S)
  BY <1>1, <1>2, StockUnits DEF AreUnits
<1> HIDE DEF S, c
<1>7. {c.ooo, c.pipelined} \subseteq BOOLEAN
  BY <1>5
<1>8. {c.fetches, c.icache, c.prefetch} \subseteq Nat /\ c.width \in Nat \ {0}
  BY <1>4, <1>5
<1>9. c.units \in Seq(S)
  BY <1>3, <1>5, Zenon
<1>10. IsCore(c)
  BY <1>6, <1>7, <1>8, <1>9, CoreIs
<1> QED BY <1>10 DEF c

\* What CoresAssumption asks of a core holds of every configuration file for
\* every setting of its knobs that takes a cycle at least; a vector unit of 1 to
\* 512 bits.
THEOREM ConfigurationsAreCores ==
  /\ IsCore(TimingSimple)
  /\ \A FLOAT_FU_COUNT, FETCH_LIMIT, ICACHE_LAT \in Nat, SIMD_OPLAT \in Nat \ {0} :
       IsCore(Minor(FLOAT_FU_COUNT, SIMD_OPLAT, FETCH_LIMIT, ICACHE_LAT))
  /\ \A DLEN \in 1 .. 512, VPU_OPLAT, SCALAR_FP_OPLAT \in Nat \ {0} :
       IsCore(Superscalar(DLEN, VPU_OPLAT, SCALAR_FP_OPLAT))
  /\ \A SIMD_FMA_OPLAT \in Nat \ {0}, ICACHE_PF_DEGREE \in Nat :
       IsCore(O3(SIMD_FMA_OPLAT, ICACHE_PF_DEGREE))
BY TimingSimpleIs, MinorIs, SuperscalarIs, O3Is

-----------------------------------------------------------------------------
(* The vector pipe.                                                        *)

\* Quotient and remainder.
LEMMA DivMod ==
  ASSUME NEW d \in Nat \ {0}, NEW x \in Nat
  PROVE  x \div d \in Nat /\ x % d \in 0 .. d - 1 /\ x = d * (x \div d) + (x % d)
OBVIOUS

LEMMA DivUnique ==
  ASSUME NEW d \in Nat \ {0}, NEW g \in Nat, NEW r \in 0 .. d - 1, NEW x \in Nat, x = d * g + r
  PROVE  x \div d = g /\ x % d = r
<1>1. PICK a \in Nat, b \in 0 .. d - 1 : a = x \div d /\ b = x % d /\ x = d * a + b
  BY DivMod
<1>2. PICK h \in Int : h = g - a
  BY <1>1
<1>3. d * h = b - r
  BY <1>1, <1>2
<1>4. ~(h >= 1)
  <2> SUFFICES ASSUME h >= 1 PROVE FALSE
    OBVIOUS
  <2>1. d * h >= d
    BY <1>2
  <2> QED BY <2>1, <1>1, <1>3
<1>5. ~(h <= -1)
  <2> SUFFICES ASSUME h <= -1 PROVE FALSE
    OBVIOUS
  <2>1. d * h <= -d
    BY <1>2
  <2> QED BY <2>1, <1>1, <1>3
<1>6. h = 0
  BY <1>2, <1>4, <1>5
<1>7. g = a
  BY <1>1, <1>2, <1>6
<1>8. b = r
  BY <1>1, <1>7
<1> QED BY <1>1, <1>7, <1>8

\* How long after the first the k-th vfmacc of a stream on C accumulators issues,
\* with E cycles to the next and P to the next on the same accumulator.
Later(C, P, E, k) == ((k - 1) \div C) * P + ((k - 1) % C) * E

LEMMA LaterType ==
  ASSUME NEW C \in Nat \ {0}, NEW P \in Nat, NEW E \in Nat, NEW k \in Nat \ {0}
  PROVE  Later(C, P, E, k) \in Nat
<1>1. k - 1 \in Nat
  OBVIOUS
<1>2. PICK g \in Nat, r \in Nat : g = (k - 1) \div C /\ r = (k - 1) % C
  <2>1. PICK y \in Nat : y = k - 1
    OBVIOUS
  <2>2. y \div C \in Nat /\ y % C \in Nat
    BY DivMod
  <2> QED BY <2>1, <2>2
<1>3. g * P + r * E \in Nat
  <2>1. g * P \in Nat /\ r * E \in Nat
    OBVIOUS
  <2> QED BY <2>1
<1> QED BY <1>2, <1>3 DEF Later

\* It is a step after the one before or, where a round of the accumulators begins
\* and P is longer than the round, P after the one a round before.
Follows(C, P, E, k) ==
  /\ Later(C, P, E, k - 1) + E <= Later(C, P, E, k)
  /\ k > C => Later(C, P, E, k) = Later(C, P, E, k - C) + P
  /\ \/ Later(C, P, E, k) = Later(C, P, E, k - 1) + E
     \/ k > C /\ C * E < P

LEMMA LaterSteps ==
  ASSUME NEW C \in Nat \ {0}, NEW P \in Nat, NEW E \in Nat, C * E <= P, NEW k \in Nat \ {0, 1}
  PROVE  Follows(C, P, E, k)
<1>0. SUFFICES /\ Later(C, P, E, k - 1) + E <= Later(C, P, E, k)
               /\ k > C => Later(C, P, E, k) = Later(C, P, E, k - C) + P
               /\ \/ Later(C, P, E, k) = Later(C, P, E, k - 1) + E
                  \/ k > C /\ C * E < P
  BY DEF Follows
<1>1. k - 1 \in Nat \ {0} /\ k - 2 \in Nat
  OBVIOUS
<1>2. PICK g \in Nat, r \in 0 .. C - 1 : /\ g = (k - 1) \div C /\ r = (k - 1) % C
                                         /\ k - 1 = C * g + r
  BY <1>1, DivMod
<1>3. Later(C, P, E, k) = g * P + r * E
  BY <1>2 DEF Later
<1>4. g * P \in Nat /\ r * E \in Nat /\ C * E \in Nat /\ C * g \in Nat
  BY <1>2
<1>5. ASSUME k > C PROVE Later(C, P, E, k) = Later(C, P, E, k - C) + P
  <2>1. g # 0
    BY <1>2, <1>5
  <2>2. g - 1 \in Nat /\ k - C - 1 \in Nat
    BY <2>1, <1>2, <1>5
  <2>3. k - C - 1 = C * (g - 1) + r
    BY <1>2
  <2>4. (k - C - 1) \div C = g - 1 /\ (k - C - 1) % C = r
    <3>1. PICK y \in Nat, h \in Nat : y = k - C - 1 /\ h = g - 1
      BY <2>2
    <3>2. y = C * h + r
      BY <2>3, <3>1
    <3>3. y \div C = h /\ y % C = r
      BY <3>2, DivUnique
    <3> QED BY <3>1, <3>3, Zenon
  <2>5. Later(C, P, E, k - C) = (g - 1) * P + r * E
    BY <2>4 DEF Later
  <2>6. (g - 1) * P = g * P - P
    BY <1>2
  <2> QED BY <2>5, <2>6, <1>3, <1>4
<1>6. CASE r # 0
  <2>1. r - 1 \in 0 .. C - 1 /\ k - 2 = C * g + (r - 1)
    BY <1>2, <1>6
  <2>2. (k - 2) \div C = g /\ (k - 2) % C = r - 1
    <3>1. PICK y \in Nat, b \in 0 .. C - 1 : y = k - 2 /\ b = r - 1
      BY <1>1, <2>1
    <3>2. y = C * g + b
      BY <2>1, <3>1
    <3>3. y \div C = g /\ y % C = b
      BY <3>2, DivUnique
    <3> QED BY <3>1, <3>3, Zenon
  <2>3. (k - 1) - 1 = k - 2
    OBVIOUS
  <2>4. Later(C, P, E, k - 1) = g * P + (r - 1) * E
    BY <2>2, <2>3 DEF Later
  <2>5. (r - 1) * E = r * E - E
    BY <1>2
  <2>6. Later(C, P, E, k) = Later(C, P, E, k - 1) + E
    BY <2>4, <2>5, <1>3, <1>4
  <2>7. Later(C, P, E, k) \in Nat
    BY <1>3, <1>4
  <2> QED BY <1>5, <2>6, <2>7
<1>7. CASE r = 0
  <2>1. g # 0
    BY <1>2, <1>7
  <2>2. g - 1 \in Nat /\ C - 1 \in 0 .. C - 1
    BY <2>1, <1>2
  <2>3. k - 2 = C * (g - 1) + (C - 1)
    BY <1>2, <1>7
  <2>4. (k - 2) \div C = g - 1 /\ (k - 2) % C = C - 1
    <3>1. PICK y \in Nat, h \in Nat, b \in 0 .. C - 1 : y = k - 2 /\ h = g - 1 /\ b = C - 1
      BY <1>1, <2>2
    <3>2. y = C * h + b
      BY <2>3, <3>1
    <3>3. y \div C = h /\ y % C = b
      BY <3>2, DivUnique
    <3> QED BY <3>1, <3>3, Zenon
  <2>5. (k - 1) - 1 = k - 2
    OBVIOUS
  <2>6. Later(C, P, E, k - 1) = (g - 1) * P + (C - 1) * E
    BY <2>4, <2>5 DEF Later
  <2>7. (g - 1) * P = g * P - P /\ (C - 1) * E = C * E - E /\ r * E = 0
    BY <1>2, <1>7
  <2>8. Later(C, P, E, k) = g * P /\ Later(C, P, E, k - 1) = g * P - P + C * E - E
    BY <2>6, <2>7, <1>3, <1>4
  <2>9. k > C
    <3>1. C * g >= C
      BY <2>1, <1>2
    <3> QED BY <3>1, <1>2, <1>7, <1>4
  <2> QED BY <2>8, <2>9, <1>4, <1>5
<1> QED BY <1>6, <1>7

\* An earlier one on the same accumulator is a round before or earlier.
LEMMA RoundBefore ==
  ASSUME NEW C \in Nat \ {0}, NEW p \in Nat \ {0}, NEW k \in Nat \ {0}, p < k,
         (p - 1) % C = (k - 1) % C
  PROVE  p <= k - C
<1>1. PICK g \in Nat, r \in 0 .. C - 1 : r = (k - 1) % C /\ k - 1 = C * g + r
  <2>1. k - 1 \in Nat
    OBVIOUS
  <2> QED BY <2>1, DivMod
<1>2. PICK a \in Nat : p - 1 = C * a + r
  <2>1. PICK y \in Nat : y = p - 1
    OBVIOUS
  <2>2. y \div C \in Nat /\ y = C * (y \div C) + (y % C)
    BY <2>1, DivMod
  <2>3. y % C = r
    BY <2>1, <1>1
  <2> QED BY <2>1, <2>2, <2>3
<1>3. PICK h \in Int : h = g - a
  BY <1>1, <1>2
<1>4. C * h = k - p
  BY <1>1, <1>2, <1>3
<1>5. h >= 1
  <2> SUFFICES ASSUME h <= 0 PROVE FALSE
    BY <1>3
  <2>1. C * h <= 0
    BY <1>3
  <2> QED BY <2>1, <1>4
<1>6. C * h >= C
  BY <1>3, <1>5
<1> QED BY <1>4, <1>6

\* The one a round before is on the same accumulator.
LEMMA RoundAgo ==
  ASSUME NEW C \in Nat \ {0}, NEW k \in Nat \ {0}, k - C \in Nat \ {0}
  PROVE  (k - C - 1) % C = (k - 1) % C
<1>1. PICK y \in Nat, z \in Nat : y = k - 1 /\ z = k - C - 1
  OBVIOUS
<1>2. PICK g \in Nat, r \in 0 .. C - 1 : r = z % C /\ z = C * g + r
  <2>1. z \div C \in Nat /\ z % C \in 0 .. C - 1 /\ z = C * (z \div C) + (z % C)
    BY DivMod
  <2> QED BY <2>1
<1>3. PICK h \in Nat : h = g + 1
  OBVIOUS
<1>4. y = C * h + r
  <2>1. C * h = C * g + C
    BY <1>3
  <2> QED BY <2>1, <1>1, <1>2
<1>5. y % C = r
  BY <1>4, DivUnique
<1> QED BY <1>1, <1>2, <1>5, Zenon

\* One pipe for vector operations, which takes one every VLEN/DLEN cycles.
OnePipe(u) ==
  /\ Serving("SimdFloatMultAcc") = {u} /\ u \in Nat
  /\ core.units[u].issueLat = 512 \div core.dlen
  /\ ~core.ooo

\* The superscalar core, or Minor with one FP and SIMD unit, as it is without any
\* setting.
OnePipeCore ==
  \/ \E DLEN, VPU_OPLAT, SCALAR_FP_OPLAT \in Int :
       core = Superscalar(DLEN, VPU_OPLAT, SCALAR_FP_OPLAT)
  \/ \E SIMD_OPLAT, FETCH_LIMIT, ICACHE_LAT \in Int :
       core = Minor(1, SIMD_OPLAT, FETCH_LIMIT, ICACHE_LAT)

LEMMA MinorFacts ==
  ASSUME NEW SIMD_OPLAT, NEW FETCH_LIMIT, NEW ICACHE_LAT,
         core = Minor(1, SIMD_OPLAT, FETCH_LIMIT, ICACHE_LAT)
  PROVE  OnePipe(3)
<1> DEFINE fu == FloatSimdFU(SIMD_OPLAT)
<1>1. PICK units : units = core.units
  OBVIOUS
<1>2. PICK a, b, c : a = IntFU /\ b = fu /\ c = MemFU
  OBVIOUS
<1>3. units = (Copies(2, a) \o Copies(1, b)) \o <<c>> /\ core.ooo = FALSE /\ core.dlen = 512
  <2> DEFINE pool == CustomMinorFUPool(1, SIMD_OPLAT)
  <2>1. core.ooo = FALSE /\ core.units = pool /\ core.dlen = 512
    <3> HIDE DEF pool
    <3> QED BY DEF Minor, pool
  <2>2. pool = (Copies(2, a) \o Copies(1, b)) \o <<c>>
    <3>1. pool = (Copies(2, IntFU) \o Copies(1, fu)) \o <<MemFU>>
      BY DEF CustomMinorFUPool
    <3> HIDE DEF fu, pool
    <3> QED BY <3>1, <1>2
  <2> QED BY <2>1, <2>2, <1>1
<1>4. DOMAIN units = 1 .. 4 /\ units[1] = a /\ units[2] = a /\ units[3] = b /\ units[4] = c
  <2>1. PICK s, w, v : s = Copies(2, a) /\ w = Copies(1, b) /\ v = <<c>> /\ units = (s \o w) \o v
    BY <1>3
  <2>2. /\ s \in Seq({a, b, c}) /\ w \in Seq({a, b, c}) /\ v \in Seq({a, b, c})
        /\ Len(s) = 2 /\ Len(w) = 1 /\ Len(v) = 1
        /\ s[1] = a /\ s[2] = a /\ w[1] = b /\ v[1] = c
    <3>1. s = [i \in 1 .. 2 |-> a] /\ w = [i \in 1 .. 1 |-> b]
      BY <2>1 DEF Copies
    <3> QED BY <3>1, <2>1
  <2>3. PICK t : t = s \o w
    OBVIOUS
  <2>4. t \in Seq({a, b, c}) /\ Len(t) = 3 /\ t[1] = a /\ t[2] = a /\ t[3] = b
    <3>1. \A i \in 1 .. Len(s) + Len(w) : (s \o w)[i] = IF i <= Len(s) THEN s[i] ELSE w[i - Len(s)]
      BY <2>2, ConcatProperties, Zenon
    <3>2. s \o w \in Seq({a, b, c}) /\ Len(s \o w) = Len(s) + Len(w)
      BY <2>2, ConcatProperties, Zenon
    <3>3. \A i \in 1 .. 2 + 1 : t[i] = IF i <= 2 THEN s[i] ELSE w[i - 2]
      BY <3>1, <2>2, <2>3, Zenon
    <3>4. t \in Seq({a, b, c}) /\ Len(t) = 2 + 1
      BY <3>2, <2>2, <2>3, Zenon
    <3> QED BY <3>3, <3>4, <2>2
  <2>5. units \in Seq({a, b, c}) /\ Len(units) = 4 /\ units[1] = a /\ units[2] = a /\ units[3] = b /\ units[4] = c
    <3>1. \A i \in 1 .. Len(t) + Len(v) : (t \o v)[i] = IF i <= Len(t) THEN t[i] ELSE v[i - Len(t)]
      BY <2>2, <2>4, ConcatProperties, Zenon
    <3>2. t \o v \in Seq({a, b, c}) /\ Len(t \o v) = Len(t) + Len(v)
      BY <2>2, <2>4, ConcatProperties, Zenon
    <3>3. \A i \in 1 .. 3 + 1 : units[i] = IF i <= 3 THEN t[i] ELSE v[i - 3]
      BY <3>1, <2>1, <2>2, <2>3, <2>4, Zenon
    <3>4. units \in Seq({a, b, c}) /\ Len(units) = 3 + 1
      BY <3>2, <2>1, <2>2, <2>3, <2>4, Zenon
    <3> QED BY <3>3, <3>4, <2>2, <2>4
  <2> QED BY <2>5
<1>5. /\ "SimdFloatMultAcc" \in DOMAIN b.lat /\ b.issueLat = 1
      /\ "SimdFloatMultAcc" \notin DOMAIN a.lat /\ "SimdFloatMultAcc" \notin DOMAIN c.lat
  BY <1>2 DEF FloatSimdFU, IntFU, MemFU, FU, VECTOR_OPS
<1>6. \A u \in 1 .. 4 : u = 1 \/ u = 2 \/ u = 3 \/ u = 4
  OBVIOUS
<1>7. Serving("SimdFloatMultAcc") = {u \in 1 .. 4 : "SimdFloatMultAcc" \in DOMAIN units[u].lat}
  BY <1>1, <1>4 DEF Serving
<1> HIDE DEF fu
<1>8. Serving("SimdFloatMultAcc") = {3}
  BY <1>4, <1>5, <1>6, <1>7
<1>9. core.units[3].issueLat = 512 \div core.dlen
  BY <1>1, <1>3, <1>4, <1>5
<1> QED BY <1>3, <1>8, <1>9 DEF OnePipe

LEMMA PipeExists ==
  ASSUME CoreTypeOK, OnePipeCore
  PROVE  \E u : OnePipe(u)
<1>1. CASE \E DLEN, VPU_OPLAT, SCALAR_FP_OPLAT \in Int : core = Superscalar(DLEN, VPU_OPLAT, SCALAR_FP_OPLAT)
  <2>1. PICK DLEN, VPU_OPLAT, SCALAR_FP_OPLAT : core = Superscalar(DLEN, VPU_OPLAT, SCALAR_FP_OPLAT)
    BY <1>1
  <2>2. /\ ~core.ooo /\ Serving("SimdFloatMultAcc") = {4}
        /\ core.units[4].issueLat = 512 \div DLEN /\ core.dlen = DLEN
    BY <2>1, SuperscalarFacts
  <2>3. OnePipe(4)
    BY <2>2 DEF OnePipe
  <2> QED BY <2>3
<1>2. CASE \E SIMD_OPLAT, FETCH_LIMIT, ICACHE_LAT \in Int : core = Minor(1, SIMD_OPLAT, FETCH_LIMIT, ICACHE_LAT)
  <2>1. PICK SIMD_OPLAT, FETCH_LIMIT, ICACHE_LAT : core = Minor(1, SIMD_OPLAT, FETCH_LIMIT, ICACHE_LAT)
    BY <1>2
  <2> QED BY <2>1, MinorFacts
<1> QED BY <1>1, <1>2 DEF OnePipeCore

\* The accumulators of a stream.
LEMMA StreamFacts ==
  ASSUME CoreTypeOK, Stream
  PROVE  /\ DOMAIN prog = 1 .. Len(prog) /\ Len(prog) \in Nat
         /\ Chains \in Nat /\ (prog # <<>> => Chains # 0)
         /\ \A k \in 1 .. Len(prog) : prog[k].dis = "vfmacc_vv" /\ prog[k].reg = 1 + ((k - 1) % Chains)
<1>1. PICK n \in Nat : n = Len(prog) /\ DOMAIN prog = 1 .. n
  BY CoreFacts
<1> DEFINE R == {x.reg : x \in {prog[k] : k \in DOMAIN prog}}
           f == [k \in 1 .. n |-> prog[k].reg]
<1>2. f \in Surjection(1 .. n, R)
  BY <1>1 DEF Surjection
<1>3. IsFiniteSet(R)
  <2>1. IsFiniteSet(1 .. n)
    BY FS_Interval
  <2> HIDE DEF f, R
  <2> QED BY <2>1, <1>2, FS_Surjection
<1>4. Chains = Cardinality(R)
  BY DEF Chains
<1>5. Cardinality(R) \in Nat /\ (Cardinality(R) = 0 <=> R = {})
  <2> HIDE DEF R
  <2> QED BY <1>3, FS_CardinalityType, FS_EmptySet
<1>6. prog # <<>> => R # {}
  <2> SUFFICES ASSUME prog # <<>> PROVE R # {}
    OBVIOUS
  <2>1. n # 0
    BY <1>1, CoreFacts
  <2>2. prog[1].reg \in R
    BY <2>1, <1>1
  <2> QED BY <2>2
<1>7. \A k \in 1 .. n : prog[k].dis = "vfmacc_vv" /\ prog[k].reg = 1 + ((k - 1) % Chains)
  BY <1>1 DEF Stream
<1> HIDE DEF R
<1> QED BY <1>1, <1>4, <1>5, <1>6, <1>7

\* The cycles from one vfmacc to the next on the same accumulator: until the result
\* is there, and the pipe has taken one for each accumulator.
Space(u)  == Max({1, core.units[u].lat["SimdFloatMultAcc"] - core.units[u].rel})
Period(u) == Max({Space(u), Chains * core.units[u].issueLat})

LEMMA PeriodFacts ==
  ASSUME CoreTypeOK, NEW u, OnePipe(u), Stream
  PROVE  /\ core.units[u].issueLat \in Nat \ {0} /\ core.units[u].rel \in Nat
         /\ core.units[u].lat["SimdFloatMultAcc"] \in Nat \ {0}
         /\ Space(u) \in Nat \ {0} /\ Period(u) \in Nat
         /\ Space(u) <= Period(u) /\ Chains * core.units[u].issueLat <= Period(u)
         /\ Chains * core.units[u].issueLat < Period(u) => Period(u) = Space(u)
<1>1. PICK l, E \in Nat \ {0}, v \in Nat :
        /\ l = core.units[u].lat["SimdFloatMultAcc"] /\ E = core.units[u].issueLat
        /\ v = core.units[u].rel
  <2>1. u \in Serving("SimdFloatMultAcc")
    BY DEF OnePipe
  <2>2. \A c : \A p \in Serving(c) : /\ core.units[p].lat[c] \in Nat \ {0}
                                     /\ core.units[p].issueLat \in Nat \ {0}
                                     /\ core.units[p].rel \in Nat
    BY CoreFacts
  <2> QED BY <2>1, <2>2, Zenon
<1>2. Space(u) = IF 1 >= l - v THEN 1 ELSE l - v
  <2>1. Space(u) = Max({1, l - v})
    BY <1>1 DEF Space
  <2>2. 1 \in Int /\ l - v \in Int
    OBVIOUS
  <2> QED BY <2>1, <2>2, MaxOfTwo
<1>3. PICK s \in Nat \ {0} : s = Space(u)
  BY <1>2
<1>4. PICK r \in Nat : r = Chains * E
  BY StreamFacts
<1>5. Period(u) = IF s >= r THEN s ELSE r
  <2>1. Period(u) = Max({s, r})
    BY <1>1, <1>3, <1>4 DEF Period
  <2> QED BY <2>1, MaxOfTwo
<1> QED BY <1>1, <1>3, <1>4, <1>5

\* On one pipe the formula of the comments is Later.
LEMMA IdealIs ==
  ASSUME CoreTypeOK, NEW u, OnePipe(u), Stream, prog # <<>>, At(1, "issue") \in Nat,
         NEW k \in Nat \ {0}
  PROVE  Ideal(k) = At(1, "issue") + Later(Chains, Period(u), core.units[u].issueLat, k)
<1> DEFINE pipes  == Serving("SimdFloatMultAcc")
           pipe   == core.units[Min(pipes)]
           n      == Cardinality(pipes)
           space  == Max({1, pipe.lat["SimdFloatMultAcc"] - pipe.rel})
           every  == 512 \div core.dlen
           period == Max({space, (Chains * every + n - 1) \div n})
<1>1. Ideal(k) = At(1, "issue") + ((k - 1) \div Chains) * period + (((k - 1) % Chains) * every) \div n
  BY DEF Ideal
<1>2. pipes = {u} /\ u \in Nat /\ every = core.units[u].issueLat
  BY DEF OnePipe
<1>3. n = 1
  BY <1>2, FS_Singleton
<1>4. Min(pipes) = u
  <2>1. {u} \subseteq Nat /\ {u} # {}
    BY <1>2
  <2>2. Min({u}) \in {u}
    BY <2>1, MinOf
  <2> HIDE DEF pipes
  <2> QED BY <2>2, <1>2
<1>5. space = Space(u)
  BY <1>4 DEF Space
<1>6. PICK C \in Nat \ {0}, E \in Nat, g \in Nat, r \in Nat, i \in Nat :
        /\ C = Chains /\ E = core.units[u].issueLat /\ g = (k - 1) \div Chains /\ r = (k - 1) % Chains
        /\ i = At(1, "issue")
  <2>1. PICK y \in Nat : y = k - 1
    OBVIOUS
  <2>2. PICK C \in Nat \ {0} : C = Chains
    BY StreamFacts
  <2>3. y \div C \in Nat /\ y % C \in Nat
    BY DivMod
  <2> QED BY <2>1, <2>2, <2>3, PeriodFacts
<1>7. (C * E + 1 - 1) \div 1 = C * E /\ (r * E) \div 1 = r * E
  <2>1. PICK a, b \in Nat : a = C * E /\ b = r * E
    OBVIOUS
  <2>2. (a + 1 - 1) \div 1 = a /\ b \div 1 = b
    OBVIOUS
  <2> QED BY <2>1, <2>2
<1>8. period = Period(u)
  <2>1. period = Max({Space(u), (C * E + 1 - 1) \div 1})
    <3> HIDE DEF n, space, every
    <3> QED BY <1>2, <1>3, <1>5, <1>6
  <2>2. Period(u) = Max({Space(u), C * E})
    BY <1>6 DEF Period
  <2> QED BY <2>1, <2>2, <1>7
<1>9. PICK P \in Nat : P = Period(u)
  BY PeriodFacts
<1>10. Ideal(k) = i + g * P + r * E
  <2>1. Ideal(k) = i + g * P + (r * E) \div 1
    <3> HIDE DEF period, n, every
    <3> QED BY <1>1, <1>2, <1>3, <1>6, <1>8, <1>9
  <2> QED BY <2>1, <1>7
<1>11. Later(Chains, Period(u), core.units[u].issueLat, k) = g * P + r * E
  BY <1>6, <1>9 DEF Later
<1>12. i + g * P + r * E = i + (g * P + r * E)
  <2>1. PICK a, b \in Nat : a = g * P /\ b = r * E
    OBVIOUS
  <2> QED BY <2>1
<1> QED BY <1>6, <1>10, <1>11, <1>12

\* The next vfmacc of a stream whose vfmaccs so far issued in their cycles issues in its own,
\* if it is fetched before.
InTime == \A k \in Indices : At(k, "issue") = Ideal(k)

LEMMA StreamIssues ==
  ASSUME CoreTypeOK, StageInv, IssueInv, NEW u, OnePipe(u), Stream, core.pipelined,
         NEW n \in Nat \ {0, 1}, n = Len(trace) + 1, n <= Len(prog),
         NEW x \in Instructions, x = prog[n], Serving(OpClass(x.dis)) # {},
         NEW f \in Nat, f < Ideal(n), InTime
  PROVE  IssueAt(x, f + 1) = Ideal(n)
<1>1. /\ Kept = Indices /\ Issued = Indices /\ Indices = 1 .. n - 1
      /\ \A j, k \in Indices : j < k => At(j, "issue") <= At(k, "issue")
      /\ \A k \in Indices : trace[k].dis = "vfmacc_vv" /\ trace[k].reg = prog[k].reg
  <2>1. Kept = Indices /\ Issued = Indices
    BY IssuedKept DEF IssueInv, OnePipe
  <2>2. Indices = 1 .. n - 1
    BY DEF Indices
  <2>3. \A k \in Indices : trace[k].dis = prog[k].dis /\ trace[k].reg = prog[k].reg
    BY DEF IssueInv, OnePipe
  <2>4. \A k \in Indices : k \in 1 .. Len(prog)
    BY <2>2, StreamFacts
  <2>5. \A k \in Indices : prog[k].dis = "vfmacc_vv"
    BY <2>4, StreamFacts
  <2> QED BY <2>1, <2>2, <2>3, <2>5 DEF IssueInv, OnePipe
<1>2. PICK m \in Nat \ {0} : m = n - 1 /\ m \in Indices /\ 1 \in Indices
  BY <1>1
<1>3. \A k \in Indices : At(k, "issue") \in Nat /\ At(k, "complete") \in Nat
  BY TraceFacts DEF Stages
<1>4. prog # <<>>
  BY StreamFacts
<1>5. PICK C, E \in Nat \ {0}, P \in Nat, l \in Nat \ {0}, v \in Nat, s \in Nat \ {0} :
        /\ C = Chains /\ E = core.units[u].issueLat /\ P = Period(u)
        /\ l = core.units[u].lat["SimdFloatMultAcc"] /\ v = core.units[u].rel
        /\ s = Space(u) /\ s <= P /\ C * E <= P /\ (C * E < P => P = s)
  BY <1>4, StreamFacts, PeriodFacts
<1>0. Follows(C, P, E, n)
  <2>1. C \in Nat \ {0} /\ P \in Nat /\ E \in Nat /\ C * E <= P /\ n \in Nat \ {0, 1}
    BY <1>5
  <2> QED BY <2>1, LaterSteps, Zenon
<1>6. PICK i \in Nat : i = At(1, "issue")
  BY <1>2, <1>3
<1>7. \A k \in Nat \ {0} : Ideal(k) = i + Later(C, P, E, k)
  BY <1>4, <1>5, <1>6, IdealIs
<1>8. PICK t \in Nat, a \in Nat : t = Ideal(n) /\ a = At(m, "issue") /\ a = Ideal(m)
  <2>1. Later(C, P, E, n) \in Nat
    BY LaterType
  <2> QED BY <2>1, <1>2, <1>3, <1>7 DEF InTime
<1>9. a + E <= t /\ (t = a + E \/ (n > C /\ P = s))
  <2>1. PICK y \in Nat, z \in Nat : y = Later(C, P, E, n) /\ z = Later(C, P, E, m)
    <3>1. C \in Nat \ {0} /\ P \in Nat /\ E \in Nat /\ n \in Nat \ {0} /\ m \in Nat \ {0}
      OBVIOUS
    <3>2. Later(C, P, E, n) \in Nat /\ Later(C, P, E, m) \in Nat
      BY <3>1, LaterType, Zenon
    <3> QED BY <3>2, Zenon
  <2>2. z + E <= y /\ (y = z + E \/ (n > C /\ C * E < P))
    <3>1. Later(C, P, E, n - 1) = z
      BY <2>1, <1>2, Zenon
    <3> QED BY <2>1, <3>1, <1>0, Zenon DEF Follows
  <2>3. t = i + y /\ a = i + z
    <3>1. m \in Nat \ {0} /\ n \in Nat \ {0}
      OBVIOUS
    <3>2. Ideal(n) = i + Later(C, P, E, n) /\ Ideal(m) = i + Later(C, P, E, m)
      BY <3>1, <1>7, Zenon
    <3> QED BY <3>2, <1>8, <2>1, Zenon
  <2>4. a + E <= t /\ (y = z + E => t = a + E)
    <3>1. z + E <= y
      BY <2>2, Zenon
    <3> QED BY <3>1, <2>3
  <2>5. C * E < P => P = s
    BY <1>5, Zenon
  <2> QED BY <2>2, <2>4, <2>5, Zenon
<1>10. ASSUME n > C PROVE n - C \in Indices /\ At(n - C, "issue") + P = t
  <2>1. PICK p \in Nat \ {0} : p = n - C /\ p \in Indices
    <3>1. n - C \in Nat \ {0} /\ n - C \in 1 .. n - 1
      BY <1>10
    <3>2. n - C \in Indices
      BY <3>1, <1>1, Zenon
    <3> QED BY <3>1, <3>2, Zenon
  <2>2. PICK y \in Nat, z \in Nat : y = Later(C, P, E, n) /\ z = Later(C, P, E, p)
    <3>1. C \in Nat \ {0} /\ P \in Nat /\ E \in Nat /\ n \in Nat \ {0}
      OBVIOUS
    <3>2. Later(C, P, E, n) \in Nat /\ Later(C, P, E, p) \in Nat
      BY <3>1, LaterType, Zenon
    <3> QED BY <3>2, Zenon
  <2>3. y = z + P
    <3>1. Later(C, P, E, n) = Later(C, P, E, n - C) + P
      BY <1>0, <1>10, Zenon DEF Follows
    <3> QED BY <2>1, <2>2, <3>1, Zenon
  <2>4. t = i + y /\ At(p, "issue") = i + z
    <3>1. n \in Nat \ {0}
      OBVIOUS
    <3>2. Ideal(n) = i + Later(C, P, E, n) /\ Ideal(p) = i + Later(C, P, E, p)
      BY <3>1, <1>7, Zenon
    <3>3. At(p, "issue") = Ideal(p)
      BY <2>1 DEF InTime
    <3> QED BY <3>2, <3>3, <1>8, <2>2, Zenon
  <2>5. At(p, "issue") + P = t
    BY <2>3, <2>4
  <2> QED BY <2>1, <2>5, Zenon
<1>11. \A k \in Indices : At(k, "issue") <= a
  <2> SUFFICES ASSUME NEW k \in Indices PROVE At(k, "issue") <= a
    OBVIOUS
  <2>1. CASE k = m
    BY <2>1, <1>3, <1>8
  <2>2. CASE k # m
    <3>1. k < m
      BY <2>2, <1>1, <1>2
    <3> QED BY <3>1, <1>1, <1>2, <1>8
  <2> QED BY <2>1, <2>2
<1>12. OpClass("vfmacc_vv") = "SimdFloatMultAcc" /\ x.dis = "vfmacc_vv"
  <2>1. n \in 1 .. Len(prog)
    BY StreamFacts
  <2> QED BY <2>1, StreamFacts DEF OpClass
<1>13. Serving(OpClass(x.dis)) = {u}
  BY <1>12 DEF OnePipe
<1>14. \A k \in Indices : trace[k].unit = u /\ At(k, "complete") = At(k, "issue") + l
  <2> SUFFICES ASSUME NEW k \in Indices
               PROVE  trace[k].unit = u /\ At(k, "complete") = At(k, "issue") + l
    OBVIOUS
  <2>1. OpClass(trace[k].dis) = "SimdFloatMultAcc" /\ k \in Kept
    BY <1>1, <1>12
  <2>2. /\ trace[k].unit \in Serving("SimdFloatMultAcc")
        /\ At(k, "complete") = At(k, "issue") + core.units[trace[k].unit].lat["SimdFloatMultAcc"]
    BY <2>1 DEF StageInv
  <2>3. trace[k].unit = u
    BY <2>2 DEF OnePipe
  <2> QED BY <2>2, <2>3, <1>5
<1>15. \A k \in Indices : k \in Producers(x) <=> (k - 1) % C = (n - 1) % C
  <2>1. \A k \in 1 .. Len(prog) : prog[k].reg = 1 + ((k - 1) % C)
    BY <1>5, StreamFacts
  <2>2. \A k \in 1 .. n : (k - 1) % C \in Nat
    <3> SUFFICES ASSUME NEW k \in 1 .. n PROVE (k - 1) % C \in Nat
      OBVIOUS
    <3>1. PICK y \in Nat : y = k - 1
      OBVIOUS
    <3> QED BY <3>1, DivMod
  <2>3. x.reg = 1 + ((n - 1) % C) /\ \A k \in Indices : trace[k].reg = 1 + ((k - 1) % C)
    BY <2>1, <1>1, StreamFacts
  <2>4. PICK b \in Nat : b = (n - 1) % C
    BY <2>2
  <2>5. x.reg = 1 + b /\ x.reg # 0
    BY <2>3, <2>4
  <2>6. \A k \in Indices : k \in Producers(x) <=> trace[k].reg = x.reg
    BY <2>5, <1>1 DEF Producers
  <2> SUFFICES ASSUME NEW k \in Indices PROVE trace[k].reg = x.reg <=> (k - 1) % C = b
    BY <2>4, <2>6
  <2>7. PICK c \in Nat : c = (k - 1) % C
    <3>1. k \in 1 .. n
      BY <1>1
    <3> QED BY <3>1, <2>2, Zenon
  <2>8. trace[k].reg = 1 + c
    BY <2>3, <2>7
  <2> QED BY <2>5, <2>7, <2>8
<1>16. \A k \in Producers(x) : k \in Indices /\ k <= n - C
  <2> SUFFICES ASSUME NEW k \in Producers(x) PROVE k \in Indices /\ k <= n - C
    OBVIOUS
  <2>1. k \in Indices
    BY TraceFacts DEF Producers
  <2>2. k \in Nat \ {0} /\ k < n /\ n \in Nat \ {0} /\ C \in Nat \ {0}
    BY <2>1, <1>1
  <2>3. (k - 1) % C = (n - 1) % C
    BY <2>1, <1>15, Zenon
  <2> QED BY <2>1, <2>2, <2>3, RoundBefore, Zenon
<1>17. n > C => n - C \in Producers(x)
  <2> SUFFICES ASSUME n > C PROVE n - C \in Producers(x)
    OBVIOUS
  <2>1. n - C \in Indices
    BY <1>10
  <2>2. (n - C - 1) % C = (n - 1) % C
    <3>1. C \in Nat \ {0} /\ n \in Nat \ {0} /\ n - C \in Nat \ {0}
      BY <2>1, <1>1
    <3> QED BY <3>1, RoundAgo, Zenon
  <2> QED BY <2>1, <2>2, <1>15
\* The results are there after Space cycles.
<1>18. \/ Producers(x) = {} /\ Ready(x, u) = 0
       \/ \E p \in Producers(x) : /\ Ready(x, u) = At(p, "issue") + s
                                  /\ \A k \in Producers(x) : k <= p
  <2> SUFFICES ASSUME ~(Producers(x) = {} /\ Ready(x, u) = 0)
               PROVE  \E p \in Producers(x) : /\ Ready(x, u) = At(p, "issue") + s
                                              /\ \A k \in Producers(x) : k <= p
    OBVIOUS
  <2>1. PICK p : /\ p \in Producers(x) /\ \A k \in Producers(x) : k <= p
                 /\ Ready(x, u) = LET d == At(p, "complete") - core.units[u].rel
                                  IN IF At(p, "issue") + 1 >= d THEN At(p, "issue") + 1 ELSE d
    BY <1>13, ReadyFacts
  <2>2. PICK b \in Nat : b = At(p, "issue") /\ At(p, "complete") = b + l
    <3>1. p \in Indices
      BY <2>1, <1>16
    <3> QED BY <3>1, <1>3, <1>14
  <2>3. Ready(x, u) = IF b + 1 >= b + l - v THEN b + 1 ELSE b + l - v
    <3>1. core.units[u].rel = v
      BY <1>5
    <3>2. At(p, "complete") = b + l /\ At(p, "issue") = b
      BY <2>2
    <3>3. Ready(x, u) = IF At(p, "issue") + 1 >= At(p, "complete") - core.units[u].rel
                        THEN At(p, "issue") + 1 ELSE At(p, "complete") - core.units[u].rel
      BY <2>1, Zenon
    <3>4. PICK d \in Int, c \in Int : d = b + l - v /\ c = b + 1
      OBVIOUS
    <3>5. At(p, "complete") - core.units[u].rel = d
      BY <3>1, <3>2, <3>4
    <3>6. At(p, "issue") + 1 = c
      BY <3>2, <3>4
    <3>7. Ready(x, u) = IF c >= d THEN c ELSE d
      BY <3>3, <3>5, <3>6, Zenon
    <3> QED BY <3>4, <3>7
  <2>4. s = IF 1 >= l - v THEN 1 ELSE l - v
    <3>1. s = Max({1, l - v})
      BY <1>5 DEF Space
    <3>2. 1 \in Int /\ l - v \in Int
      OBVIOUS
    <3> QED BY <3>1, <3>2, MaxOfTwo
  <2>5. Ready(x, u) = b + s
    BY <2>3, <2>4
  <2> QED BY <2>1, <2>2, <2>5
<1>19. Takers(x, t) # {}
  <2>1. Allowed(t)
    <3>1. {k \in Issued : At(k, "issue") = t} = {}
      BY <1>1, <1>3, <1>9, <1>11
    <3>2. Cardinality({k \in Issued : At(k, "issue") = t}) = 0
      BY <3>1, FS_EmptySet, Zenon
    <3>3. core.width \in Nat \ {0}
      BY CoreFacts DEF IsCore
    <3>4. \A k \in Issued : At(k, "issue") <= t
      BY <1>1, <1>3, <1>9, <1>11
    <3> QED BY <3>2, <3>3, <3>4 DEF Allowed
  <2>2. Idle(u, t)
    <3>1. \A k \in Indices : t - At(k, "issue") >= E
      BY <1>3, <1>9, <1>11
    <3> QED BY <3>1, <1>1, <1>5 DEF Idle
  <2>3. Ready(x, u) <= t
    <3>1. CASE Producers(x) = {} /\ Ready(x, u) = 0
      BY <3>1
    <3>2. CASE \E p \in Producers(x) : Ready(x, u) = At(p, "issue") + s
      <4>1. PICK p \in Producers(x) : Ready(x, u) = At(p, "issue") + s
        BY <3>2
      <4>2. p \in Indices /\ p <= n - C /\ p \in Nat /\ p >= 1
        BY <1>1, <1>16
      <4>3. n > C
        BY <4>2
      <4>4. PICK b, c \in Nat : b = At(p, "issue") /\ c = At(n - C, "issue") /\ c + P = t
        BY <4>2, <4>3, <1>3, <1>10
      <4>5. b <= c
        <5>1. CASE p = n - C
          BY <5>1, <4>4
        <5>2. CASE p < n - C
          BY <5>2, <4>2, <4>3, <4>4, <1>1, <1>10
        <5> QED BY <5>1, <5>2, <4>2
      <4> QED BY <4>1, <4>4, <4>5, <1>5
    <3> QED BY <3>1, <3>2, <1>18
  <2> QED BY <2>1, <2>2, <2>3, <1>13 DEF Takers
<1>20. f + 1 \in Nat /\ f + 1 <= t
  BY <1>8
<1>21. PICK j \in Nat : /\ j = IssueAt(x, f + 1) /\ Takers(x, j) # {}
                        /\ \A c \in Nat : (f + 1 <= c /\ Takers(x, c) # {}) => j <= c
  BY <1>20, IssueFacts
<1>22. j <= t
  BY <1>19, <1>20, <1>21
<1>23. Allowed(j) /\ Idle(u, j) /\ Ready(x, u) <= j
  BY <1>13, <1>21 DEF Takers
<1>24. a + E <= j
  <2>1. At(m, "issue") <= j
    <3>1. ~core.ooo
      BY DEF OnePipe
    <3>2. \A k \in Issued : At(k, "issue") <= j
      BY <3>1, <1>23 DEF Allowed
    <3> QED BY <3>2, <1>1, <1>2
  <2>2. j - At(m, "issue") >= core.units[u].issueLat
    <3>1. m \in Issued /\ trace[m].unit = u
      BY <1>1, <1>2, <1>14
    <3>2. Idle(u, j)
      BY <1>23
    <3>3. \A k \in Issued : (trace[k].unit = u /\ At(k, "issue") <= j) =>
            j - At(k, "issue") >= core.units[u].issueLat
      BY <3>2 DEF Idle
    <3> QED BY <2>1, <3>1, <3>3
  <2>3. j - a >= E
    <3>1. E = core.units[u].issueLat
      BY <1>5, Zenon
    <3> QED BY <2>2, <3>1, <1>8, Zenon
  <2> QED BY <2>3
<1>25. t <= j
  <2>1. CASE t = a + E
    BY <2>1, <1>24
  <2>2. CASE n > C /\ P = s
    <3>1. PICK p \in Producers(x) : Ready(x, u) = At(p, "issue") + s /\ \A k \in Producers(x) : k <= p
      BY <2>2, <1>17, <1>18
    <3>2. p = n - C
      BY <3>1, <2>2, <1>1, <1>16, <1>17
    <3>3. PICK c \in Nat : c = At(n - C, "issue") /\ c + P = t
      BY <2>2, <1>3, <1>10
    <3> QED BY <3>1, <3>2, <3>3, <2>2, <1>23
  <2> QED BY <2>1, <2>2, <1>9
<1> QED BY <1>8, <1>21, <1>22, <1>25

LEMMA IdealFirst ==
  ASSUME CoreInv, OnePipeCore, Stream, 1 \in Indices
  PROVE  Ideal(1) = At(1, "issue")
<1>1. CoreTypeOK /\ StageInv /\ IssueInv
  BY DEF CoreInv
<1>2. PICK u : OnePipe(u)
  BY <1>1, PipeExists
<1>3. prog # <<>>
  <2>1. Len(trace) >= 1 /\ Len(trace) \in Nat
    BY <1>1, TraceFacts DEF Indices
  <2>2. next = Len(trace) + 1 /\ next <= Len(prog) + 1
    BY <1>1, <1>2 DEF IssueInv, OnePipe, CoreTypeOK
  <2>3. Len(prog) \in Nat
    BY <1>1, StreamFacts
  <2>4. Len(prog) # 0
    BY <2>1, <2>2, <2>3
  <2> QED BY <2>4
<1>4. PICK i \in Nat : i = At(1, "issue")
  BY <1>1, TraceFacts DEF Stages
<1>5. PICK C \in Nat \ {0}, E \in Nat, P \in Nat :
        C = Chains /\ E = core.units[u].issueLat /\ P = Period(u)
  BY <1>1, <1>2, <1>3, StreamFacts, PeriodFacts
<1>6. Ideal(1) = i + Later(C, P, E, 1)
  <2>1. 1 \in Nat \ {0}
    OBVIOUS
  <2> QED BY <2>1, <1>1, <1>2, <1>3, <1>4, <1>5, IdealIs
<1>7. Later(C, P, E, 1) = 0
  <2>1. (1 - 1) \div C = 0 /\ (1 - 1) % C = 0
    <3>1. PICK y \in Nat, b \in 0 .. C - 1 : y = 1 - 1 /\ b = 0
      OBVIOUS
    <3>2. y = C * 0 + b
      BY <3>1
    <3>3. y \div C = 0 /\ y % C = b
      BY <3>2, DivUnique
    <3> QED BY <3>1, <3>3, Zenon
  <2>2. Later(C, P, E, 1) = 0 * P + 0 * E
    BY <2>1 DEF Later
  <2> QED BY <2>2
<1> QED BY <1>4, <1>6, <1>7

Promised(pipes, machine, chains, first, k) ==
  LET pipe   == machine.units[Min(pipes)]
      n      == Cardinality(pipes)
      space  == Max({1, pipe.lat["SimdFloatMultAcc"] - pipe.rel})
      every  == 512 \div machine.dlen
      period == Max({space, (chains * every + n - 1) \div n})
  IN first + ((k - 1) \div chains) * period + (((k - 1) % chains) * every) \div n

\* The formula looks at nothing a step changes once the first has issued.
LEMMA IdealKept ==
  ASSUME core' = core, prog' = prog, At(1, "issue")' = At(1, "issue"), NEW k
  PROVE  Ideal(k)' = Ideal(k)
<1>1. Serving("SimdFloatMultAcc")' = Serving("SimdFloatMultAcc") /\ Chains' = Chains
  BY DEF Serving, Chains
<1>2. Ideal(k) = Promised(Serving("SimdFloatMultAcc"), core, Chains, At(1, "issue"), k)
  BY DEF Ideal, Promised
<1>3. Ideal(k)' = Promised(Serving("SimdFloatMultAcc")', core', Chains', At(1, "issue")', k)
  BY DEF Ideal, Promised
<1> QED BY <1>1, <1>2, <1>3, Zenon

\* From the second on.
OnTime(k) == (\A i \in 1 .. k : At(i, "fetch") < Ideal(i)) => At(k, "issue") = Ideal(k)
LaterOnTime ==
  (Stream /\ core.pipelined /\ OnePipeCore) => \A k \in Indices \ {1} : OnTime(k)

LEMMA OnTimeStep ==
  ASSUME CoreInv, LaterOnTime, Execute
  PROVE  LaterOnTime'
<1>0. PICK n : n = Len(trace) + 1
  OBVIOUS
<1>1. CoreTypeOK /\ StageInv /\ IssueInv
  BY DEF CoreInv
<1>2. PICK x \in Instructions, f \in Nat \ {0}, r \in Records :
        /\ x = prog[next] /\ next \in 1 .. Len(prog)
        /\ Serving(OpClass(x.dis)) # {}
        /\ r = Record(x, f) /\ trace' = Append(trace, r)
        /\ core' = core /\ prog' = prog
  BY ExecuteFacts
<1>3. Cycle(r.fetch) = f /\ Cycle(r.issue) = IssueAt(x, f + 1)
  <2>1. /\ r = Record(x, f) /\ Serving(OpClass(x.dis)) # {} /\ CoreTypeOK /\ StageInv
        /\ x \in Instructions /\ f \in Nat
    BY <1>1, <1>2
  <2> QED BY <2>1, RecordFacts
<1>4. SUFFICES ASSUME Stream, core.pipelined, OnePipeCore, NEW k \in Indices' \ {1},
                      \A i \in 1 .. k : At(i, "fetch")' < Ideal(i)'
               PROVE  At(k, "issue")' = Ideal(k)'
  BY <1>2 DEF LaterOnTime, OnTime, OnePipeCore, Stream, Chains
<1>5. /\ n \in Nat \ {0}
      /\ Indices' = Indices \cup {n} /\ n \notin Indices /\ \A j \in Indices : j < n
  BY <1>0, <1>1, <1>2, AppendFacts
<1>6. \A j \in Indices, s \in Stages : At(j, s)' = At(j, s)
  BY <1>0, <1>1, <1>2, AppendFacts
<1>7. \A s \in Stages : At(n, s)' = Cycle(r[s])
  BY <1>0, <1>1, <1>2, AppendFacts
<1>8. Indices = 1 .. n - 1 /\ k \in 1 .. n /\ 1 \in Indices
  <2>1. Indices = 1 .. n - 1
    BY <1>0, <1>5 DEF Indices
  <2>2. k \in 1 .. n
    BY <2>1, <1>4, <1>5
  <2> QED BY <2>1, <2>2, <1>4, <1>5
<1>9. \A i : Ideal(i)' = Ideal(i)
  <2>1. At(1, "issue")' = At(1, "issue")
    BY <1>6, <1>8 DEF Stages
  <2> QED BY <2>1, <1>2, IdealKept
<1>10. \A j \in Indices : At(j, "fetch")' = At(j, "fetch") /\ At(j, "issue")' = At(j, "issue")
  BY <1>6 DEF Stages
<1>11. \A i \in 1 .. k : At(i, "fetch")' < Ideal(i)
  BY <1>4, <1>9
<1>12. ASSUME NEW j \in Indices, j <= k PROVE At(j, "issue") = Ideal(j)
  <2>1. CASE j = 1
    BY <2>1, <1>4, <1>8, IdealFirst
  <2>2. CASE j # 1
    <3>1. OnTime(j)
      BY <2>2, <1>4 DEF LaterOnTime
    <3>2. ASSUME NEW i \in 1 .. j PROVE At(i, "fetch") < Ideal(i)
      <4>1. i \in Indices /\ i \in 1 .. k
        BY <1>5, <1>8, <1>12
      <4> QED BY <4>1, <1>10, <1>11
    <3> QED BY <3>1, <3>2 DEF OnTime
  <2> QED BY <2>1, <2>2
<1>13. CASE k # n
  <2>1. k \in Indices /\ k <= k
    BY <1>5, <1>8, <1>13
  <2> QED BY <2>1, <1>9, <1>10, <1>12
<1>14. CASE k = n
  <2>1. f \in Nat /\ f + 1 \in Nat
    OBVIOUS
  <2>2. At(n, "fetch")' = f /\ At(n, "issue")' = IssueAt(x, f + 1)
    BY <1>3, <1>7 DEF Stages
  <2>3. PICK u : OnePipe(u)
    BY <1>1, <1>4, PipeExists
  <2>4. next = n
    BY <2>3, <1>0, <1>1 DEF IssueInv, OnePipe
  <2>5. n \in Nat \ {0, 1} /\ n <= Len(prog) /\ x = prog[n]
    <3>1. Len(prog) \in Nat
      BY <1>1, <1>4, StreamFacts
    <3> QED BY <2>4, <3>1, <1>2, <1>4, <1>5, <1>14
  <2>6. f < Ideal(n)
    BY <2>2, <2>5, <1>11, <1>14
  <2>7. InTime
    BY <1>5, <1>8, <1>12, <1>14 DEF InTime
  <2>8. IssueAt(x, f + 1) = Ideal(n)
    BY <1>0, <1>1, <1>2, <1>4, <2>1, <2>3, <2>5, <2>6, <2>7, StreamIssues
  <2> QED BY <2>2, <2>8, <1>9, <1>14
<1> QED BY <1>13, <1>14

\* On a pipelined core with one pipe for vector operations - the superscalar one,
\* whatever its knobs, and Minor with one FP and SIMD unit - every vfmacc of a
\* stream, of any length and on any number of accumulators, that is fetched in
\* time issues in the cycle the configurations' comments promise.
THEOREM ThroughputCorrect ==
  CoreSpec => [](OnePipeCore => Throughput)
<1>1. CoreInit => LaterOnTime
  <2> SUFFICES ASSUME CoreInit PROVE LaterOnTime
    OBVIOUS
  <2>1. Indices = {}
    BY DEF CoreInit, Indices
  <2> QED BY <2>1 DEF LaterOnTime
<1>2. CoreInv /\ LaterOnTime /\ [CoreNext]_coreVars => LaterOnTime'
  <2> SUFFICES ASSUME CoreInv, LaterOnTime, [CoreNext]_coreVars PROVE LaterOnTime'
    OBVIOUS
  <2>1. CASE Execute
    BY <2>1, OnTimeStep
  <2>2. CASE WrongPath
    <3>1. lost /\ core' = core
      BY <2>2 DEF WrongPath
    <3>2. core.ooo /\ CoreTypeOK
      BY <3>1 DEF CoreInv, IssueInv
    <3>3. ~OnePipeCore
      BY <3>2, PipeExists DEF OnePipe
    <3> QED BY <3>1, <3>3 DEF LaterOnTime, OnePipeCore
  <2>3. CASE UNCHANGED coreVars
    <3>1. Indices' = Indices /\ (Stream' <=> Stream) /\ core' = core
      BY <2>3 DEF coreVars, Indices, Stream, Chains
    <3>2. \A k, s : At(k, s)' = At(k, s)
      BY <2>3 DEF coreVars, At, Cycle
    <3>3. \A k : Ideal(k)' = Ideal(k)
      BY <2>3, <3>2, IdealKept DEF coreVars
    <3>4. OnePipeCore' <=> OnePipeCore
      BY <3>1 DEF OnePipeCore
    <3> QED BY <3>1, <3>2, <3>3, <3>4 DEF LaterOnTime, OnTime
  <2> QED BY <2>1, <2>2, <2>3 DEF CoreNext
<1>3. CoreInv /\ LaterOnTime => (OnePipeCore => Throughput)
  <2> SUFFICES ASSUME CoreInv, LaterOnTime, OnePipeCore, Stream, core.pipelined, NEW k \in Indices,
                      \A i \in 1 .. k : At(i, "fetch") < Ideal(i)
               PROVE  At(k, "issue") = Ideal(k)
    BY DEF Throughput
  <2>1. CASE k = 1
    BY <2>1, IdealFirst
  <2>2. CASE k # 1
    BY <2>2 DEF LaterOnTime, OnTime
  <2> QED BY <2>1, <2>2
<1> QED BY <1>1, <1>2, <1>3, CoreInvariance, PTL DEF CoreSpec

-----------------------------------------------------------------------------
(* Sorted sequences.                                                       *)

\* s lists the elements of S, the smallest first.
Listed(s, S) ==
  /\ s \in Seq(S) /\ Len(s) \in Nat /\ S \subseteq Nat /\ IsFiniteSet(S)
  /\ \A i \in 1 .. Len(s) : s[i] \in S
  /\ \A i, j \in 1 .. Len(s) : i < j => s[i] < s[j]
  /\ \A k \in S : \E i \in 1 .. Len(s) : s[i] = k

\* How many elements of S are smaller than k.
Rank(S, k) == Cardinality({j \in S : j < k})

LEMMA RankFacts ==
  ASSUME NEW S, S \subseteq Nat, IsFiniteSet(S)
  PROVE  /\ Cardinality(S) \in Nat
         /\ \A k \in S : Rank(S, k) \in 0 .. Cardinality(S) - 1
         /\ \A k, l \in S : k < l => Rank(S, k) < Rank(S, l)
         /\ \A r \in 0 .. Cardinality(S) - 1 : \E k \in S : Rank(S, k) = r
<1> DEFINE Below(k) == {j \in S : j < k}
           n == Cardinality(S)
<1>1. n \in Nat
  BY FS_CardinalityType
<1>2. ASSUME NEW k \in S PROVE IsFiniteSet(Below(k)) /\ Rank(S, k) \in Nat /\ Rank(S, k) = Cardinality(Below(k))
  <2>1. Below(k) \subseteq S
    OBVIOUS
  <2>2. Rank(S, k) = Cardinality(Below(k))
    BY DEF Rank
  <2> HIDE DEF Below
  <2> QED BY <2>1, <2>2, FS_Subset, FS_CardinalityType
<1>3. ASSUME NEW k \in S, NEW T, IsFiniteSet(T), Below(k) \cup {k} \subseteq T
      PROVE  Rank(S, k) < Cardinality(T) /\ Cardinality(T) \in Nat
  <2>1. k \notin Below(k)
    OBVIOUS
  <2>2. Cardinality(Below(k) \cup {k}) = Rank(S, k) + 1
    <3> HIDE DEF Below
    <3> QED BY <2>1, <1>2, FS_AddElement
  <2>3. Cardinality(Below(k) \cup {k}) <= Cardinality(T)
    <3> HIDE DEF Below
    <3> QED BY <1>3, FS_Subset
  <2>4. Cardinality(T) \in Nat
    BY <1>3, FS_CardinalityType
  <2>5. Rank(S, k) \in Nat
    BY <1>2
  <2> HIDE DEF Below
  <2> QED BY <2>2, <2>3, <2>4, <2>5
<1>4. ASSUME NEW k \in S PROVE Rank(S, k) \in 0 .. n - 1
  <2>1. Below(k) \cup {k} \subseteq S
    OBVIOUS
  <2>2. Rank(S, k) < n
    <3> HIDE DEF Below
    <3> QED BY <2>1, <1>3
  <2>3. Rank(S, k) \in Nat
    BY <1>2
  <2> HIDE DEF n
  <2> QED BY <2>2, <2>3, <1>1
<1>5. ASSUME NEW k \in S, NEW l \in S, k < l PROVE Rank(S, k) < Rank(S, l)
  <2>1. Below(k) \cup {k} \subseteq Below(l)
    <3> SUFFICES ASSUME NEW x \in S, x < k \/ x = k PROVE x < l
      OBVIOUS
    <3>1. x \in Nat /\ k \in Nat /\ l \in Nat
      OBVIOUS
    <3> QED BY <3>1, <1>5
  <2>2. IsFiniteSet(Below(l)) /\ Rank(S, l) = Cardinality(Below(l))
    BY <1>2
  <2>3. Rank(S, k) < Cardinality(Below(l))
    <3> HIDE DEF Below
    <3> QED BY <2>1, <2>2, <1>3
  <2> HIDE DEF Below
  <2> QED BY <2>2, <2>3
<1>6. ASSUME NEW r \in 0 .. n - 1 PROVE \E k \in S : Rank(S, k) = r
  <2> DEFINE f == [k \in S |-> Rank(S, k)]
             I == 0 .. n - 1
  <2>1. f \in [S -> I]
    BY <1>4
  <2>2. \A k, l \in S : f[k] = f[l] => k = l
    <3> SUFFICES ASSUME NEW k \in S, NEW l \in S, f[k] = f[l] PROVE k = l
      OBVIOUS
    <3>1. Rank(S, k) = Rank(S, l) /\ Rank(S, k) \in Nat /\ k \in Nat /\ l \in Nat
      BY <1>2
    <3>2. ~(k < l) /\ ~(l < k)
      BY <3>1, <1>5
    <3> QED BY <3>1, <3>2
  <2>3. f \in Injection(S, I)
    <3> HIDE DEF f, I
    <3> QED BY <2>1, <2>2 DEF Injection, IsInjective
  <2>4. IsFiniteSet(I) /\ Cardinality(I) = n
    <3>1. 0 \in Int /\ n - 1 \in Int
      BY <1>1
    <3>2. IsFiniteSet(I) /\ Cardinality(I) = IF 0 > n - 1 THEN 0 ELSE n - 1 - 0 + 1
      BY <3>1, FS_Interval
    <3> HIDE DEF n
    <3> QED BY <3>2, <1>1
  <2>5. f \in Surjection(S, I)
    <3> HIDE DEF f, I
    <3> QED BY <2>3, <2>4, FS_Injection
  <2>6. \E k \in S : f[k] = r
    <3> HIDE DEF f
    <3> QED BY <2>5 DEF Surjection
  <2> QED BY <2>6
<1> HIDE DEF Below
<1> QED BY <1>1, <1>4, <1>5, <1>6

\* Sorted sorts.
LEMMA SortedLists ==
  ASSUME NEW S, S \subseteq Nat, IsFiniteSet(S)
  PROVE  Listed(Sorted(S, <), S) /\ Len(Sorted(S, <)) = Cardinality(S)
<1> DEFINE Nth(i) == CHOOSE k \in S : Rank(S, k) = i - 1
<1>0. PICK n \in Nat : n = Cardinality(S)
  BY RankFacts
<1>1. ASSUME NEW i \in 1 .. n PROVE Nth(i) \in S /\ Rank(S, Nth(i)) = i - 1
  <2>1. i - 1 \in 0 .. n - 1
    BY <1>0
  <2>2. \E k \in S : Rank(S, k) = i - 1
    BY <2>1, <1>0, RankFacts
  <2> QED BY <2>2
<1> DEFINE s == [i \in 1 .. n |-> Nth(i)]
<1>2. \A i \in 1 .. n : s[i] \in S /\ Rank(S, s[i]) = i - 1
  BY <1>1
<1>3. PICK w : w = Sorted(S, <)
  OBVIOUS
<1>4. w = SubSeq(s, 1, n)
  BY <1>0, <1>3 DEF Sorted, Rank
<1>5. w \in Seq(S) /\ Len(w) = n /\ \A i \in 1 .. n : w[i] = s[i]
  <2> HIDE DEF s
  <2>1. 1 \in Int /\ n \in Int /\ \A i \in 1 .. n : s[i] \in S
    BY <1>2
  <2>2. /\ w \in Seq(S) /\ Len(w) = IF 1 <= n THEN n - 1 + 1 ELSE 0
    BY <1>4, <2>1, SubSeqProperties
  <2>3. \A i \in 1 .. n - 1 + 1 : w[i] = s[1 + i - 1]
    BY <1>4, <2>1, SubSeqProperties
  <2>4. Len(w) = n
    BY <2>2, <1>0
  <2>5. \A i \in 1 .. n : w[i] = s[i]
    <3> SUFFICES ASSUME NEW i \in 1 .. n PROVE w[i] = s[i]
      OBVIOUS
    <3>1. i \in 1 .. n - 1 + 1 /\ 1 + i - 1 = i
      OBVIOUS
    <3> QED BY <3>1, <2>3
  <2> QED BY <2>2, <2>4, <2>5
<1>6. \A i \in 1 .. n : w[i] \in S /\ w[i] \in Nat /\ Rank(S, w[i]) = i - 1
  <2> HIDE DEF s
  <2> QED BY <1>2, <1>5
<1>7. ASSUME NEW i \in 1 .. n, NEW j \in 1 .. n, i < j PROVE w[i] < w[j]
  <2>1. ~(w[j] < w[i]) /\ w[i] # w[j]
    <3>1. Rank(S, w[i]) = i - 1 /\ Rank(S, w[j]) = j - 1 /\ w[i] \in S /\ w[j] \in S
      BY <1>6
    <3>2. w[j] < w[i] => Rank(S, w[j]) < Rank(S, w[i])
      BY <3>1, RankFacts
    <3> QED BY <3>1, <3>2, <1>7
  <2> QED BY <2>1, <1>6
<1>8. ASSUME NEW k \in S PROVE \E i \in 1 .. n : w[i] = k
  <2>1. PICK r \in 0 .. n - 1 : r = Rank(S, k)
    BY <1>0, RankFacts
  <2>2. r + 1 \in 1 .. n
    OBVIOUS
  <2>3. w[r + 1] \in S /\ Rank(S, w[r + 1]) = r
    BY <2>2, <1>6
  <2>4. w[r + 1] \in Nat /\ k \in Nat
    BY <2>3
  <2>5. ~(w[r + 1] < k) /\ ~(k < w[r + 1])
    <3>1. w[r + 1] < k => Rank(S, w[r + 1]) < Rank(S, k)
      BY <2>3, RankFacts
    <3>2. k < w[r + 1] => Rank(S, k) < Rank(S, w[r + 1])
      BY <2>3, RankFacts
    <3> QED BY <2>1, <2>3, <3>1, <3>2
  <2>6. w[r + 1] = k
    BY <2>4, <2>5
  <2> QED BY <2>2, <2>6
<1> HIDE DEF s
<1> QED BY <1>0, <1>3, <1>5, <1>6, <1>7, <1>8 DEF Listed

\* The elements of a list are those of its set.
LEMMA ListedRange ==
  ASSUME NEW s, NEW S, Listed(s, S)
  PROVE  DOMAIN s = 1 .. Len(s) /\ Range(s) = S
<1>1. DOMAIN s = 1 .. Len(s) /\ \A k \in S : \E i \in 1 .. Len(s) : s[i] = k
  BY DEF Listed
<1>2. \A i \in 1 .. Len(s) : s[i] \in S
  BY DEF Listed
<1> QED BY <1>1, <1>2 DEF Range

\* Select keeps a list's elements of T, in their order.
LEMMA SelectLists ==
  ASSUME NEW s, NEW S, NEW T, Listed(s, S)
  PROVE  Listed(Select(s, T), S \cap T)
<1> DEFINE P == {i \in DOMAIN s : s[i] \in T}
<1>0. PICK n \in Nat : n = Len(s) /\ DOMAIN s = 1 .. n
  BY ListedRange DEF Listed
<1>1. /\ S \subseteq Nat /\ IsFiniteSet(S)
      /\ \A i \in 1 .. n : s[i] \in S
      /\ \A i, j \in 1 .. n : i < j => s[i] < s[j]
      /\ \A k \in S : \E i \in 1 .. n : s[i] = k
  BY <1>0 DEF Listed
<1>2. P \subseteq Nat /\ IsFiniteSet(P) /\ P \subseteq 1 .. n
  <2>1. P \subseteq 1 .. n
    BY <1>0
  <2>2. IsFiniteSet(1 .. n) /\ 1 .. n \subseteq Nat
    BY FS_Interval
  <2> HIDE DEF P
  <2> QED BY <2>1, <2>2, FS_Subset
<1>3. PICK at : at = Sorted(P, <) /\ Listed(at, P)
  <2> HIDE DEF P
  <2> QED BY <1>2, SortedLists
<1>4. PICK m \in Nat : m = Len(at) /\ DOMAIN at = 1 .. m
  <2> HIDE DEF P
  <2> QED BY <1>3, ListedRange DEF Listed
<1>5. /\ \A i \in 1 .. m : at[i] \in P
      /\ \A i, j \in 1 .. m : i < j => at[i] < at[j]
      /\ \A k \in P : \E i \in 1 .. m : at[i] = k
  <2> HIDE DEF P
  <2> QED BY <1>3, <1>4 DEF Listed
<1> DEFINE v == [i \in 1 .. m |-> s[at[i]]]
<1>6. PICK w : w = Select(s, T) /\ w = SubSeq(v, 1, m)
  <2>1. Select(s, T) = SubSeq([i \in DOMAIN at |-> s[at[i]]], 1, Len(at))
    BY <1>3 DEF Select
  <2> QED BY <2>1, <1>4
<1>7. \A i \in 1 .. m : at[i] \in 1 .. n /\ v[i] = s[at[i]] /\ v[i] \in S \cap T
  <2> SUFFICES ASSUME NEW i \in 1 .. m
               PROVE  at[i] \in 1 .. n /\ v[i] = s[at[i]] /\ v[i] \in S \cap T
    OBVIOUS
  <2>1. at[i] \in 1 .. n /\ s[at[i]] \in T
    BY <1>0, <1>5
  <2> QED BY <2>1, <1>1
<1>8. w \in Seq(S \cap T) /\ Len(w) = m /\ \A i \in 1 .. m : w[i] = v[i]
  <2> HIDE DEF v
  <2>1. 1 \in Int /\ m \in Int /\ \A i \in 1 .. m : v[i] \in S \cap T
    BY <1>7
  <2>2. /\ w \in Seq(S \cap T) /\ Len(w) = IF 1 <= m THEN m - 1 + 1 ELSE 0
    BY <1>6, <2>1, SubSeqProperties
  <2>3. \A i \in 1 .. m - 1 + 1 : w[i] = v[1 + i - 1]
    BY <1>6, <2>1, SubSeqProperties
  <2>4. Len(w) = m
    BY <2>2
  <2>5. \A i \in 1 .. m : w[i] = v[i]
    <3> SUFFICES ASSUME NEW i \in 1 .. m PROVE w[i] = v[i]
      OBVIOUS
    <3>1. i \in 1 .. m - 1 + 1 /\ 1 + i - 1 = i
      OBVIOUS
    <3> QED BY <3>1, <2>3
  <2> QED BY <2>2, <2>4, <2>5
<1>9. ASSUME NEW i \in 1 .. m, NEW j \in 1 .. m, i < j PROVE w[i] < w[j]
  <2>1. w[i] = s[at[i]] /\ w[j] = s[at[j]]
    BY <1>7, <1>8
  <2>2. at[i] < at[j] /\ at[i] \in 1 .. n /\ at[j] \in 1 .. n
    BY <1>5, <1>7, <1>9
  <2> QED BY <2>1, <2>2, <1>1
<1>10. ASSUME NEW k \in S \cap T PROVE \E i \in 1 .. m : w[i] = k
  <2>1. PICK pos \in 1 .. n : s[pos] = k
    BY <1>1
  <2>2. pos \in P
    BY <2>1, <1>0
  <2>3. PICK i \in 1 .. m : at[i] = pos
    BY <2>2, <1>5
  <2>4. w[i] = k
    BY <2>1, <2>3, <1>7, <1>8
  <2> QED BY <2>4
<1>11. IsFiniteSet(S \cap T) /\ S \cap T \subseteq Nat
  BY <1>1, FS_Intersection
<1>12. \A i \in 1 .. m : w[i] \in S \cap T
  <2> HIDE DEF v
  <2> QED BY <1>7, <1>8
<1> HIDE DEF v, P
<1> QED BY <1>6, <1>8, <1>9, <1>10, <1>11, <1>12 DEF Listed

\* The positions in a list that pass a test that no later one passes if an
\* earlier one does not are the first ones.
LEMMA Prefix ==
  ASSUME NEW n \in Nat, NEW P, P \subseteq 1 .. n,
         \A i, j \in 1 .. n : (i < j /\ j \in P) => i \in P
  PROVE  Cardinality(P) \in 0 .. n /\ P = 1 .. Cardinality(P)
<1>1. PICK m \in Nat : m \in 0 .. n /\ P = 1 .. m
  <2>1. CASE P = {}
    <3>1. 0 \in Nat /\ 0 \in 0 .. n /\ P = 1 .. 0
      BY <2>1
    <3> QED BY <3>1
  <2>2. CASE P # {}
    <3>1. P \subseteq Nat /\ \A x \in P : x <= n
      OBVIOUS
    <3>2. PICK m : m \in P /\ \A x \in P : x <= m
      BY <2>2, <3>1, MaxOf
    <3>3. m \in Nat /\ m \in 0 .. n
      BY <3>2
    <3>4. \A x \in 1 .. m : x \in P
      <4> SUFFICES ASSUME NEW x \in 1 .. m PROVE x \in P
        OBVIOUS
      <4>1. x = m \/ (x < m /\ x \in 1 .. n /\ m \in 1 .. n)
        BY <3>2, <3>3
      <4> QED BY <4>1, <3>2
    <3>5. \A x \in P : x \in 1 .. m
      <4> SUFFICES ASSUME NEW x \in P PROVE x \in 1 .. m
        OBVIOUS
      <4>1. x \in 1 .. n /\ x <= m
        BY <3>2
      <4> QED BY <4>1, <3>3
    <3>6. P = 1 .. m
      BY <3>4, <3>5
    <3> QED BY <3>3, <3>6
  <2> QED BY <2>1, <2>2
<1>2. Cardinality(1 .. m) = m
  <2>1. Cardinality(1 .. m) = IF 1 > m THEN 0 ELSE m - 1 + 1
    BY FS_Interval
  <2> QED BY <2>1
<1> QED BY <1>1, <1>2

-----------------------------------------------------------------------------
(* The analyzer.                                                           *)

\* The records of an analysis, the committed and the squashed ones, in the order
\* of sn.
LEMMA AnalysisFacts ==
  ASSUME CoreTypeOK, NEW rs \in Analyses
  PROVE  \E S \in SUBSET Indices :
           /\ Listed(rs, S) /\ Listed(com(rs), S \cap Kept) /\ Listed(sq(rs), S \ Kept)
           /\ com(rs) # <<>>
<1>1. PICK kernel, last : rs = analyzed(kernel, last) /\ com(rs) # <<>>
  BY DEF Analyses
<1>2. PICK S : S = Selected(kernel, last) /\ S \subseteq Indices
  <2>1. Selected(kernel, last) \subseteq InKernel(kernel)
    BY DEF Selected
  <2> QED BY <2>1 DEF InKernel
<1>3. S \subseteq Nat /\ IsFiniteSet(S)
  <2>1. Indices \subseteq Nat /\ IsFiniteSet(Indices)
    BY TraceFacts, FS_Interval DEF Indices
  <2> QED BY <2>1, <1>2, FS_Subset
<1>4. rs = Sorted(S, <)
  BY <1>1, <1>2 DEF analyzed
<1>5. Listed(rs, S)
  BY <1>3, <1>4, SortedLists
<1>6. Listed(com(rs), S \cap Kept)
  BY <1>5, SelectLists DEF com
<1>7. Listed(sq(rs), S \cap (Indices \ Kept))
  BY <1>5, SelectLists DEF sq
<1>8. S \cap (Indices \ Kept) = S \ Kept
  BY <1>2
<1> QED BY <1>1, <1>2, <1>5, <1>6, <1>7, <1>8

\* The first m micro-ops of s have retired by cycle c, the others have not.
Separates(m, s, c) ==
  m \in 0 .. Len(s) /\ \A i \in 1 .. Len(s) : At(s[i], "retire") <= c <=> i <= m

\* Committed micro-ops retire in the order of sn: bisect_right separates those
\* that have retired by a cycle from the others.
LEMMA Bisect ==
  ASSUME CoreInv, NEW C, C \subseteq Kept, NEW s, Listed(s, C), NEW c \in Nat, NEW m,
         m = bisect_right([i \in DOMAIN s |-> At(s[i], "retire")], c)
  PROVE  Separates(m, s, c)
<1>1. PICK n \in Nat : n = Len(s) /\ DOMAIN s = 1 .. n
  BY ListedRange DEF Listed
<1>2. /\ \A i \in 1 .. n : s[i] \in C /\ s[i] \in Indices
      /\ \A i, j \in 1 .. n : i < j => s[i] < s[j]
  <2>1. Kept \subseteq Indices
    BY DEF Kept
  <2> QED BY <2>1, <1>1 DEF Listed
<1>3. \A i \in 1 .. n : At(s[i], "retire") \in Nat
  BY <1>2, TraceFacts DEF CoreInv, Stages
<1>4. \A i, j \in 1 .. n : i < j => At(s[i], "retire") <= At(s[j], "retire")
  BY <1>2 DEF CoreInv, OrderInv
<1> DEFINE xs == [i \in DOMAIN s |-> At(s[i], "retire")]
           P == {i \in 1 .. n : At(s[i], "retire") <= c}
<1>5. m = Cardinality(P)
  <2>1. {i \in DOMAIN xs : xs[i] <= c} = P
    BY <1>1
  <2>2. m = Cardinality({i \in DOMAIN xs : xs[i] <= c})
    BY DEF bisect_right
  <2> HIDE DEF xs, P
  <2> QED BY <2>1, <2>2
<1>6. ASSUME NEW i \in 1 .. n, NEW j \in 1 .. n, i < j, j \in P PROVE i \in P
  <2>1. At(s[i], "retire") <= At(s[j], "retire") /\ At(s[j], "retire") <= c
    BY <1>4, <1>6
  <2>2. At(s[i], "retire") <= c
    BY <2>1, <1>3
  <2> QED BY <2>2
<1>7. m \in 0 .. n /\ P = 1 .. m
  <2>1. P \subseteq 1 .. n
    OBVIOUS
  <2> HIDE DEF P
  <2> QED BY <2>1, <1>5, <1>6, Prefix
<1>8. ASSUME NEW i \in 1 .. n PROVE At(s[i], "retire") <= c <=> i <= m
  <2>1. At(s[i], "retire") <= c <=> i \in P
    OBVIOUS
  <2> HIDE DEF P
  <2> QED BY <2>1, <1>7
<1> QED BY <1>1, <1>7, <1>8 DEF Separates

\* The record a cycle without a commit is charged to is the first of the
\* analysis that has not retired.
LEMMA HeadFacts ==
  ASSUME CoreInv, NEW rs \in Analyses, NEW c \in Stalls(rs)
  PROVE  /\ c \in Nat /\ HeadAt(rs, c) \in Range(com(rs)) /\ Range(com(rs)) \subseteq Kept
         /\ c < At(HeadAt(rs, c), "retire")
         /\ \A k \in Range(com(rs)) : c < At(k, "retire") => HeadAt(rs, c) <= k
<1>0. CoreTypeOK
  BY DEF CoreInv
<1>1. PICK S \in SUBSET Indices :
        /\ Listed(rs, S) /\ Listed(com(rs), S \cap Kept) /\ com(rs) # <<>>
  BY <1>0, AnalysisFacts
<1>2. PICK s, C : s = com(rs) /\ C = S \cap Kept
  OBVIOUS
<1>3. PICK n \in Nat : n = Len(s) /\ DOMAIN s = 1 .. n /\ Range(s) = C /\ Range(rs) = S
  BY <1>1, <1>2, ListedRange DEF Listed
<1>4. /\ \A i \in 1 .. n : s[i] \in C
      /\ \A i, j \in 1 .. n : i < j => s[i] < s[j]
      /\ \A k \in C : \E i \in 1 .. n : s[i] = k
      /\ s \in Seq(C) /\ IsFiniteSet(C)
  BY <1>1, <1>2, <1>3 DEF Listed
<1>5. n > 0 /\ C # {}
  BY <1>1, <1>2, <1>3, <1>4
<1>6. \A k \in S : At(k, "fetch") \in Nat /\ At(k, "retire") \in Nat
  BY <1>0, TraceFacts DEF Stages
<1>7. C \subseteq S /\ C \subseteq Kept /\ C \subseteq Nat
  BY <1>0, <1>2, TraceFacts
<1> DEFINE F == {At(k, "fetch") : k \in S}
           R == {At(k, "retire") : k \in C}
<1>8. c \in Min(F) .. Max(R) /\ commits(rs, c) = 0
  BY <1>2, <1>3 DEF Stalls, cycles
<1>9. Min(F) \in Nat
  <2>1. F \subseteq Nat /\ F # {}
    BY <1>5, <1>6, <1>7
  <2> HIDE DEF F
  <2> QED BY <2>1, MinOf
<1>10. Max(R) \in R
  <2>1. R \subseteq Nat /\ R # {}
    BY <1>5, <1>6, <1>7
  <2>2. At(s[n], "retire") \in Nat /\ s[n] \in C /\ n \in 1 .. n
    <3>1. n \in 1 .. n
      BY <1>5
    <3> QED BY <3>1, <1>4, <1>6, <1>7
  <2>3. \A x \in R : x <= At(s[n], "retire")
    <3> SUFFICES ASSUME NEW k \in C PROVE At(k, "retire") <= At(s[n], "retire")
      OBVIOUS
    <3>1. PICK i \in 1 .. n : s[i] = k
      BY <1>4
    <3>2. CASE i = n
      BY <3>1, <3>2, <2>2
    <3>3. CASE i < n
      <4>1. s[i] < s[n] /\ s[i] \in Kept /\ s[n] \in Kept
        BY <3>3, <1>4, <1>7, <2>2
      <4>2. s[i] \in Indices /\ s[n] \in Indices
        BY <4>1, <1>0, TraceFacts
      <4> QED BY <3>1, <4>1, <4>2 DEF CoreInv, OrderInv
    <3> QED BY <3>2, <3>3
  <2> HIDE DEF R
  <2> QED BY <2>1, <2>2, <2>3, MaxOf
<1>11. PICK z \in C : Max(R) = At(z, "retire")
  BY <1>10
<1>12. c \in Nat /\ c <= At(z, "retire") /\ At(z, "retire") \in Nat
  <2>1. At(z, "retire") \in Nat
    BY <1>6, <1>7
  <2> HIDE DEF F, R
  <2> QED BY <2>1, <1>8, <1>9, <1>11
<1>13. At(z, "retire") # c
  <2>1. commits(rs, c) = Cardinality({k \in C : At(k, "retire") = c})
    BY <1>2, <1>3 DEF commits
  <2>2. IsFiniteSet({k \in C : At(k, "retire") = c})
    <3>1. {k \in C : At(k, "retire") = c} \subseteq C
      OBVIOUS
    <3> QED BY <3>1, <1>4, FS_Subset
  <2>3. {k \in C : At(k, "retire") = c} = {}
    BY <2>1, <2>2, <1>8, FS_EmptySet
  <2> QED BY <2>3
<1>14. PICK m : m = bisect_right([i \in DOMAIN s |-> At(s[i], "retire")], c)
  OBVIOUS
<1>15. m \in 0 .. n /\ \A i \in 1 .. n : At(s[i], "retire") <= c <=> i <= m
  <2>1. Listed(s, C) /\ C \subseteq Kept /\ c \in Nat
    BY <1>1, <1>2, <1>7, <1>12
  <2>2. Separates(m, s, c)
    BY <2>1, <1>14, Bisect
  <2> QED BY <2>2, <1>3 DEF Separates
<1>16. HeadAt(rs, c) = s[m + 1]
  BY <1>2, <1>14 DEF HeadAt, rets
<1>17. m < n
  <2>1. PICK i \in 1 .. n : s[i] = z
    BY <1>4
  <2>2. ~(i <= m)
    BY <2>1, <1>12, <1>13, <1>15
  <2> QED BY <2>2, <1>15
<1>18. m + 1 \in 1 .. n /\ s[m + 1] \in C
  BY <1>4, <1>15, <1>17
<1>19. c < At(s[m + 1], "retire")
  <2>1. ~(At(s[m + 1], "retire") <= c)
    BY <1>15, <1>18
  <2>2. At(s[m + 1], "retire") \in Nat
    BY <1>6, <1>7, <1>18
  <2> QED BY <2>1, <2>2, <1>12
<1>20. ASSUME NEW k \in C, c < At(k, "retire") PROVE s[m + 1] <= k
  <2>1. PICK i \in 1 .. n : s[i] = k
    BY <1>4
  <2>2. At(k, "retire") \in Nat
    BY <1>6, <1>7
  <2>3. m + 1 <= i
    <3>1. ~(i <= m)
      BY <2>1, <2>2, <1>12, <1>15, <1>20
    <3> QED BY <3>1, <1>15
  <2>4. s[m + 1] \in Nat /\ k \in Nat
    BY <1>7, <1>18
  <2>5. CASE i = m + 1
    BY <2>1, <2>4, <2>5
  <2>6. CASE m + 1 < i
    BY <2>1, <2>4, <2>6, <1>4, <1>18
  <2> QED BY <2>3, <2>5, <2>6, <1>15
<1> QED BY <1>2, <1>3, <1>7, <1>12, <1>16, <1>18, <1>19, <1>20

LEMMA Charged ==
  ASSUME CoreInv
  PROVE  ChargedToHead
<1> SUFFICES ASSUME NEW rs \in Analyses, OneCall(rs), NEW c \in Stalls(rs)
             PROVE  HeadAt(rs, c) = RobHead(c) \/ RobHead(c) < rs[1]
  BY DEF ChargedToHead
<1>0. CoreTypeOK
  BY DEF CoreInv
<1>1. PICK h : h = HeadAt(rs, c)
  OBVIOUS
<1>2. /\ c \in Nat /\ h \in Range(com(rs)) /\ Range(com(rs)) \subseteq Kept
      /\ c < At(h, "retire")
      /\ \A k \in Range(com(rs)) : c < At(k, "retire") => h <= k
  BY <1>1, HeadFacts
<1> DEFINE W == {k \in Kept : At(k, "retire") > c}
<1>3. PICK g : g = RobHead(c) /\ g \in W /\ \A y \in W : g <= y
  <2>1. W \subseteq Nat /\ W # {}
    <3>1. Kept \subseteq Nat /\ h \in Kept
      BY <1>0, <1>2, TraceFacts
    <3>2. At(h, "retire") \in Nat
      BY <3>1, <1>0, TraceFacts DEF Stages
    <3> QED BY <3>1, <3>2, <1>2
  <2>2. RobHead(c) = Min(W)
    BY DEF RobHead
  <2> HIDE DEF W
  <2> QED BY <2>1, <2>2, MinOf
<1>4. g \in Kept /\ c < At(g, "retire") /\ g \in Nat /\ h \in Nat /\ h \in Kept /\ g \in Indices
  <2>1. g \in Kept /\ At(g, "retire") > c
    BY <1>3
  <2>2. Kept \subseteq Nat /\ Kept \subseteq Indices /\ At(g, "retire") \in Nat
    BY <2>1, <1>0, TraceFacts DEF Stages
  <2> QED BY <2>1, <2>2, <1>2
<1>5. g <= h
  <2>1. At(h, "retire") \in Nat
    BY <1>0, <1>4, TraceFacts DEF Stages
  <2> QED BY <2>1, <1>2, <1>3, <1>4
<1>6. PICK S \in SUBSET Indices :
        /\ Listed(rs, S) /\ Listed(com(rs), S \cap Kept)
  BY <1>0, AnalysisFacts
<1>7. Range(rs) = S /\ Range(com(rs)) = S \cap Kept
  BY <1>6, ListedRange
<1>8. CASE rs[1] <= g
  <2>1. PICK n \in Nat : n = Len(rs)
    BY <1>6 DEF Listed
  <2>2. PICK i \in 1 .. n : rs[i] = h
    BY <1>2, <1>6, <1>7, <2>1 DEF Listed
  <2>3. rs[n] \in Nat /\ h <= rs[n]
    <3>1. n \in 1 .. n /\ rs[n] \in Nat /\ \A a, b \in 1 .. n : a < b => rs[a] < rs[b]
      <4>1. n \in 1 .. n
        BY <2>2
      <4>2. rs[n] \in S /\ S \subseteq Nat
        BY <4>1, <2>1, <1>6 DEF Listed
      <4>3. \A a, b \in 1 .. n : a < b => rs[a] < rs[b]
        BY <2>1, <1>6 DEF Listed
      <4> QED BY <4>1, <4>2, <4>3
    <3>2. CASE i = n
      BY <2>2, <3>1, <3>2, <1>4
    <3>3. CASE i < n
      BY <2>2, <3>1, <3>3, <1>4
    <3> QED BY <3>1, <3>2, <3>3
  <2>4. g <= rs[Len(rs)]
    BY <2>1, <2>3, <1>4, <1>5
  <2>5. Committed(g)
    BY <1>4 DEF Committed, Kept
  <2>6. g \in Range(rs)
    BY <1>4, <1>8, <2>4, <2>5 DEF OneCall
  <2>7. h <= g
    BY <2>6, <1>2, <1>4, <1>7
  <2> QED BY <2>7, <1>1, <1>3, <1>4, <1>5
<1>9. CASE ~(rs[1] <= g)
  <2>1. rs[1] \in Nat
    <3>1. PICK i \in 1 .. Len(rs) : rs[i] = h
      BY <1>2, <1>6, <1>7 DEF Listed
    <3>2. 1 \in 1 .. Len(rs)
      BY <3>1, <1>6 DEF Listed
    <3> QED BY <3>2, <1>6 DEF Listed
  <2> QED BY <2>1, <1>3, <1>4, <1>9
<1> QED BY <1>8, <1>9

\* Whenever an analysis takes the records of one call, every cycle without a
\* commit is charged to the head of the reorder buffer in that cycle, or the
\* head is still an instruction from before the call.
THEOREM ChargedToHeadCorrect == CoreSpec => []ChargedToHead
<1> QED BY CoreInvariance, Charged, PTL

LEMMA Starved ==
  ASSUME CoreInv
  PROVE  FrontendStarved
<1> DEFINE inFlight(rs, c, stage) ==
             {k \in Range(com(rs)) : At(k, stage) <= c /\ c < At(k, "retire")}
<1> SUFFICES ASSUME NEW rs \in Analyses, NEW c \in Stalls(rs), NEW h, h = HeadAt(rs, c)
             PROVE  CASE Why(h, c) = "not fetched" -> inFlight(rs, c, "fetch") = {}
                      [] Why(h, c) = "decode/rename" -> inFlight(rs, c, "dispatch") = {}
                      [] OTHER -> inFlight(rs, c, "dispatch") # {}
  BY DEF FrontendStarved
<1>0. CoreTypeOK
  BY DEF CoreInv
<1>1. /\ c \in Nat /\ h \in Range(com(rs)) /\ Range(com(rs)) \subseteq Kept
      /\ c < At(h, "retire")
      /\ \A k \in Range(com(rs)) : c < At(k, "retire") => h <= k
  BY HeadFacts
<1>2. \A k \in Kept : /\ k \in Indices /\ k \in Nat
                      /\ At(k, "fetch") \in Nat /\ At(k, "dispatch") = At(k, "fetch") + 1
  BY <1>0, TraceFacts DEF CoreInv, StageInv, Stages
<1>3. ASSUME NEW k \in Range(com(rs)), c < At(k, "retire")
      PROVE  At(h, "fetch") <= At(k, "fetch") /\ At(h, "dispatch") <= At(k, "dispatch")
  <2>1. h <= k /\ h \in Kept /\ k \in Kept
    BY <1>1, <1>3
  <2>2. At(h, "fetch") <= At(k, "fetch")
    <3>1. CASE h = k
      BY <3>1, <2>1, <1>2
    <3>2. CASE h < k
      BY <3>2, <2>1, <1>2 DEF CoreInv, OrderInv
    <3> QED BY <3>1, <3>2, <2>1, <1>2
  <2> QED BY <2>1, <2>2, <1>2
<1>4. h \in Kept /\ At(h, "fetch") \in Nat /\ At(h, "dispatch") = At(h, "fetch") + 1
  BY <1>1, <1>2
<1>5. ASSUME NEW k \in Range(com(rs)) PROVE At(k, "fetch") \in Nat /\ At(k, "dispatch") \in Nat
  BY <1>1, <1>2
<1>6. CASE At(h, "fetch") > c
  <2>1. Why(h, c) = "not fetched"
    BY <1>6 DEF Why
  <2>2. inFlight(rs, c, "fetch") = {}
    <3> SUFFICES ASSUME NEW k \in Range(com(rs)), At(k, "fetch") <= c, c < At(k, "retire") PROVE FALSE
      OBVIOUS
    <3> QED BY <1>1, <1>3, <1>4, <1>5, <1>6
  <2> QED BY <2>1, <2>2
<1>7. CASE ~(At(h, "fetch") > c) /\ At(h, "dispatch") > c
  <2>1. Why(h, c) = "decode/rename"
    BY <1>7 DEF Why
  <2>2. inFlight(rs, c, "dispatch") = {}
    <3> SUFFICES ASSUME NEW k \in Range(com(rs)), At(k, "dispatch") <= c, c < At(k, "retire") PROVE FALSE
      OBVIOUS
    <3> QED BY <1>1, <1>3, <1>4, <1>5, <1>7
  <2>3. "decode/rename" # "not fetched"
    OBVIOUS
  <2> QED BY <2>1, <2>2, <2>3
<1>8. CASE ~(At(h, "fetch") > c) /\ ~(At(h, "dispatch") > c)
  <2>1. Why(h, c) # "not fetched" /\ Why(h, c) # "decode/rename"
    BY <1>8 DEF Why
  <2>2. h \in inFlight(rs, c, "dispatch")
    BY <1>1, <1>4, <1>8
  <2> QED BY <2>1, <2>2
<1> QED BY <1>6, <1>7, <1>8

\* A cycle charged to the front end is one in which no micro-op of the call was
\* in the pipeline: none fetched, or none past decode.
THEOREM FrontendStarvedCorrect == CoreSpec => []FrontendStarved
<1> QED BY CoreInvariance, Starved, PTL

\* Between a squashed micro-op and the branch it follows none commits.
LEMMA WrongPathOf ==
  ASSUME CoreInv, NEW b \in faults, NEW k \in WrongOf(b)
  PROVE  b \in Kept /\ k \in Indices \ Kept /\ b < k /\ (b + 1 .. k) \cap Kept = {}
<1>1. k \in Indices \ Kept /\ b < k /\ \A br \in faults : br < k => br <= b
  BY DEF WrongOf
<1>2. PICK a \in faults : a < k /\ (a + 1 .. k) \cap Kept = {}
  BY <1>1 DEF CoreInv, PathInv
<1>3. a \in Nat /\ b \in Nat /\ k \in Nat /\ b \in Kept
  BY <1>1, TraceFacts DEF CoreInv
<1>4. a <= b
  BY <1>1, <1>2
<1>5. ~(a < b)
  BY <1>1, <1>2, <1>3
<1> QED BY <1>1, <1>2, <1>3, <1>4, <1>5

\* Each squashed micro-op follows a branch.
LEMMA WrongPathHas ==
  ASSUME CoreInv, NEW k \in Indices \ Kept
  PROVE  \E b \in faults : /\ k \in WrongOf(b) /\ b < k /\ b \in Kept /\ b \in Indices
                           /\ (b + 1 .. k) \cap Kept = {}
                           /\ At(k, "fetch") <= At(b, "complete")
<1>1. PICK b \in faults : /\ b < k /\ (b + 1 .. k) \cap Kept = {}
                          /\ At(k, "fetch") <= At(b, "complete")
  BY DEF CoreInv, PathInv
<1>2. b \in Nat /\ k \in Nat /\ b \in Kept /\ b \in Indices
  BY <1>1, TraceFacts DEF CoreInv
<1>3. ASSUME NEW br \in faults, br < k PROVE br <= b
  <2>1. br \in Nat /\ br \in Kept
    BY TraceFacts DEF CoreInv
  <2>2. ~(b < br)
    BY <2>1, <1>1, <1>2, <1>3
  <2> QED BY <2>1, <2>2, <1>2
<1> QED BY <1>1, <1>2, <1>3 DEF WrongOf

LEMMA Keyed ==
  ASSUME CoreInv
  PROVE  SquashesKeyed
<1> DEFINE Key(rs, b, wrong) ==
             /\ \A ev \in events(rs) : wrong \cap ev.ops # {} => ev.prev = b
             /\ wrong # {} => \E ev \in events(rs) : wrong \subseteq ev.ops
<1> SUFFICES ASSUME NEW rs \in Analyses, NEW b \in faults \cap Range(rs)
             PROVE  Key(rs, b, WrongOf(b) \cap Range(rs))
  BY Zenon DEF SquashesKeyed
<1>10. PICK wrong : wrong = WrongOf(b) \cap Range(rs)
  OBVIOUS
<1>0. CoreTypeOK
  BY DEF CoreInv
<1>1. PICK S \in SUBSET Indices : Listed(rs, S)
  BY <1>0, AnalysisFacts
<1>2. PICK n \in Nat : n = Len(rs) /\ DOMAIN rs = 1 .. n /\ Range(rs) = S
  BY <1>1, ListedRange DEF Listed
<1>3. /\ \A i \in 1 .. n : rs[i] \in S
      /\ \A i, j \in 1 .. n : i < j => rs[i] < rs[j]
      /\ \A k \in S : \E i \in 1 .. n : rs[i] = k
      /\ S \subseteq Nat
  BY <1>1, <1>2 DEF Listed
<1>4. PICK i \in 1 .. n : rs[i] = b
  BY <1>2, <1>3
<1>5. \A k \in Indices : Committed(k) <=> k \in Kept
  BY DEF Committed, Kept
<1>6. b \in Kept /\ b \in Nat /\ Committed(rs[i])
  BY <1>0, <1>4, <1>5, TraceFacts
<1>7. ASSUME NEW j \in 1 .. n, rs[j] \in wrong
      PROVE  i < j /\ \A l \in i + 1 .. j : ~Committed(rs[l])
  <2>1. b < rs[j] /\ rs[j] \in Indices \ Kept /\ (b + 1 .. rs[j]) \cap Kept = {}
    BY <1>7, <1>10, WrongPathOf
  <2>2. i < j
    <3>1. CASE j < i
      <4>1. rs[j] < rs[i] /\ rs[j] \in Nat
        BY <3>1, <1>3
      <4> QED BY <4>1, <2>1, <1>4, <1>6
    <3>2. CASE j = i
      BY <3>2, <2>1, <1>4, <1>6
    <3> QED BY <3>1, <3>2
  <2>3. ASSUME NEW l \in i + 1 .. j PROVE ~Committed(rs[l])
    <3>1. l \in 1 .. n /\ i < l /\ l <= j
      OBVIOUS
    <3>2. rs[l] \in Nat /\ rs[l] \in Indices /\ rs[j] \in Nat
      BY <3>1, <1>3
    <3>3. b < rs[l]
      BY <3>1, <1>3, <1>4
    <3>4. rs[l] <= rs[j]
      <4>1. CASE l = j
        BY <4>1, <3>2
      <4>2. CASE l < j
        BY <4>2, <3>1, <3>2, <1>3
      <4> QED BY <4>1, <4>2, <3>1
    <3>5. rs[l] \in b + 1 .. rs[j]
      BY <3>2, <3>3, <3>4, <1>6
    <3> QED BY <3>2, <3>5, <2>1, <1>5
  <2> QED BY <2>2, <2>3
<1> DEFINE Starts == {p \in DOMAIN rs : ~Committed(rs[p]) /\ (p = 1 \/ Committed(rs[p - 1]))}
<1>8. ASSUME NEW ev \in events(rs), wrong \cap ev.ops # {} PROVE ev.prev = b
  <2>1. PICK p \in 1 .. n : /\ ~Committed(rs[p]) /\ (p = 1 \/ Committed(rs[p - 1]))
                            /\ ev = [prev |-> IF p = 1 THEN 0 ELSE rs[p - 1], ops |-> Run(rs, p)]
    BY <1>2 DEF events
  <2>2. ev.ops = Run(rs, p) /\ ev.prev = IF p = 1 THEN 0 ELSE rs[p - 1]
    BY <2>1
  <2>3. PICK j \in p .. n : rs[j] \in wrong /\ \A l \in p .. j : ~Committed(rs[l])
    BY <2>2, <1>2, <1>8 DEF Run
  <2>4. j \in 1 .. n
    OBVIOUS
  <2>5. i < j /\ \A l \in i + 1 .. j : ~Committed(rs[l])
    BY <2>3, <2>4, <1>7
  <2>6. i < p
    <3>1. ~(p <= i)
      BY <2>3, <2>5, <1>6
    <3> QED BY <3>1
  <2>7. p = i + 1
    <3>1. p # 1 /\ Committed(rs[p - 1])
      BY <2>1, <2>6
    <3>2. ~(i + 1 <= p - 1)
      BY <3>1, <2>3, <2>5
    <3> QED BY <3>2, <2>6
  <2> QED BY <2>2, <2>7, <1>4
<1>9. ASSUME wrong # {} PROVE \E ev \in events(rs) : wrong \subseteq ev.ops
  <2>1. ASSUME NEW k \in wrong
        PROVE  \E j \in 1 .. n : rs[j] = k /\ i < j /\ \A l \in i + 1 .. j : ~Committed(rs[l])
    <3>1. PICK j \in 1 .. n : rs[j] = k
      BY <1>2, <1>3, <1>10
    <3> QED BY <3>1, <1>7
  <2>2. PICK j \in 1 .. n : i < j /\ \A l \in i + 1 .. j : ~Committed(rs[l])
    BY <2>1, <1>9
  <2>3. PICK p \in 1 .. n : p = i + 1 /\ p # 1 /\ ~Committed(rs[p]) /\ p - 1 = i
    <3>1. i + 1 \in 1 .. n /\ i + 1 \in i + 1 .. j /\ i + 1 # 1 /\ i + 1 - 1 = i
      BY <2>2
    <3> QED BY <3>1, <2>2
  <2>4. PICK ev : ev = [prev |-> IF p = 1 THEN 0 ELSE rs[p - 1], ops |-> Run(rs, p)]
    OBVIOUS
  <2>5. ev \in events(rs)
    <3>1. p \in DOMAIN rs /\ Committed(rs[p - 1])
      BY <2>3, <1>2, <1>6
    <3> QED BY <3>1, <2>3, <2>4 DEF events
  <2>6. ASSUME NEW k \in wrong PROVE k \in ev.ops
    <3>1. PICK pos \in 1 .. n : rs[pos] = k /\ i < pos /\ \A l \in i + 1 .. pos : ~Committed(rs[l])
      BY <2>1
    <3>2. pos \in p .. Len(rs)
      BY <3>1, <2>3, <1>2
    <3>3. k \in Run(rs, p)
      BY <3>1, <3>2, <2>3 DEF Run
    <3> QED BY <3>3, <2>4
  <2> QED BY <2>5, <2>6
<1> QED BY <1>8, <1>9, <1>10

\* Each run of squashed micro-ops is keyed by the branch that was mispredicted,
\* if it is the kernel's, and none of its wrong path goes missing.
THEOREM SquashesKeyedCorrect == CoreSpec => []SquashesKeyed
<1> QED BY CoreInvariance, Keyed, PTL

\* The first elements of a list are those up to a bound, as many as its set has.
CountsUpTo(s, S, c) ==
  /\ Cardinality({k \in S : k <= c}) \in 0 .. Len(s)
  /\ \A i \in 1 .. Len(s) : s[i] <= c <=> i <= Cardinality({k \in S : k <= c})

LEMMA ListedCount ==
  ASSUME NEW s, NEW S, Listed(s, S), NEW c \in Nat
  PROVE  CountsUpTo(s, S, c)
<1>1. PICK n \in Nat : n = Len(s)
  BY DEF Listed
<1>2. /\ \A i \in 1 .. n : s[i] \in S /\ s[i] \in Nat
      /\ \A i, j \in 1 .. n : i < j => s[i] < s[j]
      /\ \A k \in S : \E i \in 1 .. n : s[i] = k
  BY <1>1 DEF Listed
<1> DEFINE P == {i \in 1 .. n : s[i] <= c}
           Q == {k \in S : k <= c}
           f == [i \in P |-> s[i]]
<1>3. Cardinality(P) \in 0 .. n /\ P = 1 .. Cardinality(P)
  <2>1. P \subseteq 1 .. n
    OBVIOUS
  <2>2. ASSUME NEW i \in 1 .. n, NEW j \in 1 .. n, i < j, j \in P PROVE i \in P
    <3>1. s[i] < s[j] /\ s[j] <= c /\ s[i] \in Nat /\ s[j] \in Nat
      BY <2>2, <1>2
    <3> QED BY <3>1
  <2> HIDE DEF P
  <2> QED BY <2>1, <2>2, Prefix
<1>4. Cardinality(Q) = Cardinality(P)
  <2>1. f \in [P -> Q]
    BY <1>2
  <2>2. \A i, j \in P : f[i] = f[j] => i = j
    <3> SUFFICES ASSUME NEW i \in P, NEW j \in P, s[i] = s[j] PROVE i = j
      OBVIOUS
    <3>1. ~(i < j) /\ ~(j < i)
      BY <1>2
    <3> QED BY <3>1
  <2>3. \A k \in Q : \E i \in P : f[i] = k
    <3> SUFFICES ASSUME NEW k \in Q PROVE \E i \in P : s[i] = k
      OBVIOUS
    <3>1. PICK i \in 1 .. n : s[i] = k
      BY <1>2
    <3> QED BY <3>1
  <2>4. IsFiniteSet(P)
    <3>1. P \subseteq 1 .. n /\ IsFiniteSet(1 .. n)
      BY FS_Interval
    <3> HIDE DEF P
    <3> QED BY <3>1, FS_Subset
  <2>5. f \in Bijection(P, Q)
    <3> HIDE DEF P, Q, f
    <3> QED BY <2>1, <2>2, <2>3 DEF Bijection, Injection, Surjection, IsInjective
  <2>6. ExistsBijection(P, Q)
    <3> HIDE DEF P, Q, f
    <3> QED BY <2>5 DEF ExistsBijection
  <2> HIDE DEF P, Q, f
  <2> QED BY <2>4, <2>6, FS_Bijection
<1>5. ASSUME NEW i \in 1 .. n PROVE s[i] <= c <=> i <= Cardinality(Q)
  <2>1. s[i] <= c <=> i \in P
    OBVIOUS
  <2> HIDE DEF P, Q
  <2> QED BY <2>1, <1>3, <1>4
<1>6. Cardinality(Q) \in 0 .. n
  <2> HIDE DEF P, Q
  <2> QED BY <1>3, <1>4
<1> QED BY <1>1, <1>5, <1>6 DEF CountsUpTo

\* The kernel's calls: the commits of its first instruction.
Entries(kernel) == {k \in Kept : trace[k].pc = lo(kernel)}

LEMMA EntriesFacts ==
  ASSUME CoreTypeOK, NEW kernel \in DOMAIN SYMBOLS
  PROVE  /\ Entries(kernel) \subseteq InKernel(kernel) \cap Kept
         /\ InKernel(kernel) \cap Kept = {k \in Kept : lo(kernel) <= trace[k].pc /\ trace[k].pc < hi(kernel)}
         /\ Kept \subseteq Indices /\ Indices \subseteq Nat
         /\ IsFiniteSet(Indices) /\ IsFiniteSet(Entries(kernel))
         /\ \A k : CallOf(kernel, k) = Cardinality({entry \in Entries(kernel) : entry <= k})
<1>1. Kept \subseteq Indices /\ Indices \subseteq Nat /\ IsFiniteSet(Indices)
  BY TraceFacts, FS_Interval DEF Indices
<1>2. lo(kernel) \in Nat /\ hi(kernel) \in Nat /\ lo(kernel) < hi(kernel)
  BY SymbolsAssumption DEF lo, hi
<1>3. Entries(kernel) \subseteq InKernel(kernel) \cap Kept
  BY <1>1, <1>2 DEF Entries, InKernel
<1>4. InKernel(kernel) \cap Kept = {k \in Kept : lo(kernel) <= trace[k].pc /\ trace[k].pc < hi(kernel)}
  BY <1>1 DEF InKernel
<1>5. ASSUME NEW k PROVE CallOf(kernel, k) = Cardinality({entry \in Entries(kernel) : entry <= k})
  <2>1. {entry \in Kept : trace[entry].pc = lo(kernel) /\ entry <= k} = {entry \in Entries(kernel) : entry <= k}
    BY DEF Entries
  <2> QED BY <2>1 DEF CallOf
<1>6. IsFiniteSet(Entries(kernel))
  <2>1. Entries(kernel) \subseteq Indices
    BY <1>1 DEF Entries
  <2> QED BY <2>1, <1>1, FS_Subset
<1> QED BY <1>1, <1>3, <1>4, <1>5, <1>6

\* The committed records of the n-th call.
Mine(kernel, n) ==
  {k \in Kept : /\ lo(kernel) <= trace[k].pc /\ trace[k].pc < hi(kernel)
                /\ CallOf(kernel, k) = n}

\* The last call in the file is the last one in the order of sn: committed
\* micro-ops leave in order.
LEMMA LastInFile ==
  ASSUME CoreInv, NEW E, E \subseteq Kept, E # {}
  PROVE  /\ Max(E) \in E /\ \A k \in E : k <= Max(E)
         /\ Max(E) = CHOOSE k \in E : \A j \in E \ {k} : parse_trace(j, k)
<1>0. CoreTypeOK
  BY DEF CoreInv
<1>1. E \subseteq Nat /\ E \subseteq Indices /\ \A k \in E : k <= Len(trace)
  BY <1>0, TraceFacts DEF Indices
<1>2. PICK m : m = Max(E) /\ m \in E /\ \A k \in E : k <= m
  BY <1>0, <1>1, TraceFacts, MaxOf
<1>3. \A k \in E : Left(k) = At(k, "retire") /\ At(k, "retire") \in Nat /\ k \in Nat /\ k \in Indices /\ k \in Kept
  BY <1>0, <1>1, TraceFacts DEF Left, Kept, Stages
<1>4. ASSUME NEW j \in E, NEW k \in E, j < k PROVE parse_trace(j, k) /\ ~parse_trace(k, j)
  <2>1. At(j, "retire") <= At(k, "retire")
    BY <1>3, <1>4 DEF CoreInv, OrderInv
  <2>2. Left(j) \in Nat /\ Left(k) \in Nat /\ Left(j) <= Left(k) /\ j \in Nat /\ k \in Nat
    BY <2>1, <1>3
  <2> QED BY <2>2, <1>4 DEF parse_trace
<1>5. \A j \in E \ {m} : parse_trace(j, m)
  <2> SUFFICES ASSUME NEW j \in E \ {m} PROVE parse_trace(j, m)
    OBVIOUS
  <2>1. j < m
    BY <1>1, <1>2
  <2> QED BY <2>1, <1>2, <1>4
<1>6. ASSUME NEW k \in E, \A j \in E \ {k} : parse_trace(j, k) PROVE k = m
  <2>1. ~(k < m)
    <3> SUFFICES ASSUME k < m PROVE FALSE
      OBVIOUS
    <3>1. m \in E \ {k} /\ ~parse_trace(m, k)
      BY <1>1, <1>2, <1>4
    <3> QED BY <3>1, <1>6
  <2> QED BY <2>1, <1>1, <1>2
<1> DEFINE Last(k) == \A j \in E \ {k} : parse_trace(j, k)
<1>7. m = CHOOSE k \in E : Last(k)
  <2>1. m \in E /\ Last(m) /\ \A k \in E : Last(k) => k = m
    BY <1>2, <1>5, <1>6
  <2> HIDE DEF Last
  <2> QED BY <2>1
<1> QED BY <1>2, <1>7

\* --last-call keeps the committed records of the last call.
LEMMA LastCallKept ==
  ASSUME CoreInv, NEW kernel \in DOMAIN SYMBOLS
  PROVE  Selected(kernel, TRUE) \cap Kept = Mine(kernel, CallOf(kernel, Len(trace)))
<1>0. CoreTypeOK /\ Len(trace) \in Nat
  BY TraceFacts DEF CoreInv
<1> DEFINE E == Entries(kernel)
           Up(k) == {entry \in E : entry <= k}
<1>1. /\ E \subseteq InKernel(kernel) \cap Kept
      /\ InKernel(kernel) \cap Kept = {k \in Kept : lo(kernel) <= trace[k].pc /\ trace[k].pc < hi(kernel)}
      /\ Kept \subseteq Indices /\ Indices \subseteq Nat /\ IsFiniteSet(E)
      /\ \A k : CallOf(kernel, k) = Cardinality(Up(k))
  BY <1>0, EntriesFacts
<1>2. Up(Len(trace)) = E
  <2>1. \A k \in Indices : k <= Len(trace)
    BY DEF Indices
  <2>2. E \subseteq Indices
    BY <1>1
  <2>3. \A k \in E : k <= Len(trace)
    BY <2>1, <2>2
  <2> HIDE DEF E
  <2> QED BY <2>3
<1>3. ASSUME NEW k \in Kept PROVE CallOf(kernel, k) = CallOf(kernel, Len(trace)) <=> Up(k) = E
  <2>1. Up(k) \subseteq E
    OBVIOUS
  <2> HIDE DEF E, Up
  <2> QED BY <2>1, <1>1, <1>2, FS_Subset
<1>4. InKernel(kernel) \cap Kept \cap E = E
  BY <1>1
<1>5. {k \in InKernel(kernel) \cap Kept : trace[k].pc = lo(kernel)} = E
  BY <1>1 DEF Entries
<1>6. CASE E = {}
  <2>1. Selected(kernel, TRUE) = InKernel(kernel)
    <3> HIDE DEF E
    <3> QED BY <1>5, <1>6 DEF Selected
  <2>2. \A k \in Kept : CallOf(kernel, k) = CallOf(kernel, Len(trace))
    BY <1>3, <1>6
  <2> QED BY <2>1, <2>2, <1>1 DEF Mine
<1>7. CASE E # {}
  <2>1. PICK m : /\ m \in E /\ \A k \in E : k <= m
                 /\ m = CHOOSE k \in E : \A j \in E \ {k} : parse_trace(j, k)
    <3>1. E \subseteq Kept
      BY <1>1
    <3> HIDE DEF E
    <3> QED BY <3>1, <1>7, LastInFile
  <2>2. Selected(kernel, TRUE) = {k \in InKernel(kernel) : k >= m}
    <3> HIDE DEF E
    <3> QED BY <1>5, <1>7, <2>1 DEF Selected
  <2>3. ASSUME NEW k \in Kept PROVE k >= m <=> CallOf(kernel, k) = CallOf(kernel, Len(trace))
    <3>1. k \in Nat /\ m \in Nat
      BY <1>1, <2>1
    <3>2. ASSUME k >= m, NEW entry \in E PROVE entry <= k
      <4>1. entry <= m /\ entry \in Nat
        <5> HIDE DEF E
        <5> QED BY <2>1, <1>1
      <4> QED BY <4>1, <3>1, <3>2
    <3>3. k >= m => Up(k) = E
      BY <3>2
    <3>4. Up(k) = E => k >= m
      BY <2>1, <3>1
    <3> HIDE DEF Up, E
    <3> QED BY <3>3, <3>4, <1>3
  <2> HIDE DEF E, Up
  <2> QED BY <2>2, <2>3, <1>1 DEF Mine
<1> QED BY <1>6, <1>7

LEMMA Separated ==
  ASSUME CoreInv
  PROVE  CallsSeparated
<1> DEFINE Apart(kernel) ==
      LET mine(n)  == Mine(kernel, n)
          bytes(n) == Bytes(mine(n))
          calls    == CallOf(kernel, Len(trace))
      IN /\ Range(com(analyzed(kernel, TRUE))) = mine(calls)
         /\ calls >= 3 => l1_bytes(kernel) = <<bytes(1), bytes(3)>>
<1>0. SUFFICES ASSUME NEW kernel \in DOMAIN SYMBOLS PROVE Apart(kernel)
  BY Zenon DEF CallsSeparated, Mine
<1>1. CoreTypeOK /\ Len(trace) \in Nat
  BY TraceFacts DEF CoreInv
<1>2. /\ Entries(kernel) \subseteq InKernel(kernel) \cap Kept
      /\ InKernel(kernel) \cap Kept = {k \in Kept : lo(kernel) <= trace[k].pc /\ trace[k].pc < hi(kernel)}
      /\ Kept \subseteq Indices /\ Indices \subseteq Nat
      /\ IsFiniteSet(Indices) /\ IsFiniteSet(Entries(kernel))
      /\ \A k : CallOf(kernel, k) = Cardinality({entry \in Entries(kernel) : entry <= k})
  BY <1>1, EntriesFacts
<1>3. ASSUME NEW last
      PROVE  Listed(com(analyzed(kernel, last)), Selected(kernel, last) \cap Kept)
  <2>1. Selected(kernel, last) \subseteq InKernel(kernel) /\ InKernel(kernel) \subseteq Indices
    BY DEF Selected, InKernel
  <2>2. Selected(kernel, last) \subseteq Nat /\ IsFiniteSet(Selected(kernel, last))
    BY <2>1, <1>2, FS_Subset
  <2>3. Listed(analyzed(kernel, last), Selected(kernel, last))
    BY <2>2, SortedLists DEF analyzed
  <2> QED BY <2>3, SelectLists DEF com
<1>4. Range(com(analyzed(kernel, TRUE))) = Mine(kernel, CallOf(kernel, Len(trace)))
  BY <1>3, ListedRange, LastCallKept
<1>5. ASSUME CallOf(kernel, Len(trace)) >= 3
      PROVE  l1_bytes(kernel) = <<Bytes(Mine(kernel, 1)), Bytes(Mine(kernel, 3))>>
  <2>1. PICK recs : recs = com(analyzed(kernel, FALSE))
    OBVIOUS
  <2>2. Listed(recs, InKernel(kernel) \cap Kept)
    <3>1. Selected(kernel, FALSE) = InKernel(kernel)
      BY DEF Selected
    <3> QED BY <3>1, <2>1, <1>3
  <2>3. PICK cs : cs = entries(recs, kernel) /\ Listed(cs, Entries(kernel))
    <3>1. (InKernel(kernel) \cap Kept) \cap {k \in Kept : trace[k].pc = lo(kernel)} = Entries(kernel)
      BY <1>2 DEF Entries
    <3>2. Listed(Select(recs, {k \in Kept : trace[k].pc = lo(kernel)}),
                 (InKernel(kernel) \cap Kept) \cap {k \in Kept : trace[k].pc = lo(kernel)})
      BY <2>2, SelectLists
    <3> QED BY <3>1, <3>2 DEF entries
  <2>4. PICK n \in Nat : n = Len(cs)
    BY <2>3 DEF Listed
  <2>5. /\ \A i \in 1 .. n : cs[i] \in Entries(kernel) /\ cs[i] \in Nat /\ cs[i] <= Len(trace)
    <3>1. \A i \in 1 .. n : cs[i] \in Entries(kernel)
      BY <2>3, <2>4 DEF Listed
    <3>2. \A k \in Indices : k <= Len(trace)
      BY DEF Indices
    <3>3. Entries(kernel) \subseteq Indices
      BY <1>2
    <3> QED BY <3>1, <3>2, <3>3, <1>2
  <2>6. ASSUME NEW k \in Nat
        PROVE  /\ CallOf(kernel, k) \in 0 .. n
               /\ \A i \in 1 .. n : cs[i] <= k <=> i <= CallOf(kernel, k)
    <3>1. CountsUpTo(cs, Entries(kernel), k)
      BY <2>3, ListedCount
    <3>2. PICK m : m = CallOf(kernel, k) /\ m = Cardinality({entry \in Entries(kernel) : entry <= k})
      BY <1>2
    <3>3. m \in 0 .. n /\ \A i \in 1 .. n : cs[i] <= k <=> i <= m
      BY <3>1, <3>2, <2>4 DEF CountsUpTo
    <3> QED BY <3>2, <3>3
  <2>7. n >= 3
    BY <2>6, <1>1, <1>5
  <2> DEFINE End(i) == IF i < n THEN cs[i + 1] ELSE Len(trace) + 1
             Call(i) == Range(recs) \cap (cs[i] .. End(i) - 1)
  <2>8. l1_bytes(kernel) = <<Bytes(Call(1)), Bytes(Call(3))>>
    <3>1. ~(n < 3)
      BY <2>7
    <3> QED BY <3>1, <2>1, <2>3, <2>4, Zenon DEF l1_bytes
  <2>9. Range(recs) = InKernel(kernel) \cap Kept
    BY <2>2, ListedRange
  <2>10. ASSUME NEW i \in {1, 3} PROVE Call(i) = Mine(kernel, i)
    <3>1. i \in 1 .. n
      BY <2>7
    <3>2. End(i) \in Nat
      BY <3>1, <2>5, <1>1
    <3>3. ASSUME NEW k \in InKernel(kernel) \cap Kept
          PROVE  k \in cs[i] .. End(i) - 1 <=> CallOf(kernel, k) = i
      <4>1. k \in Nat /\ k <= Len(trace)
        <5>1. k \in Indices
          BY <1>2
        <5> QED BY <5>1, <1>2 DEF Indices
      <4>2. PICK m \in 0 .. n : m = CallOf(kernel, k) /\ \A l \in 1 .. n : cs[l] <= k <=> l <= m
        BY <4>1, <2>6
      <4>3. cs[i] <= k <=> i <= m
        BY <3>1, <4>2
      <4>4. k <= End(i) - 1 <=> m <= i
        <5>1. CASE i < n
          <6>1. i + 1 \in 1 .. n /\ End(i) = cs[i + 1]
            BY <5>1, <3>1
          <6>2. cs[i + 1] <= k <=> i + 1 <= m
            BY <6>1, <4>2
          <6>3. cs[i + 1] \in Nat
            BY <6>1, <2>5
          <6> HIDE DEF End
          <6> QED BY <6>1, <6>2, <6>3, <4>1, <3>1
        <5>2. CASE ~(i < n)
          <6>1. End(i) = Len(trace) + 1
            BY <5>2
          <6> HIDE DEF End
          <6> QED BY <6>1, <5>2, <4>1, <3>1, <1>1
        <5> QED BY <5>1, <5>2
      <4>5. cs[i] \in Nat
        BY <3>1, <2>5
      <4>6. k \in cs[i] .. End(i) - 1 <=> (cs[i] <= k /\ k <= End(i) - 1)
        <5> HIDE DEF End
        <5> QED BY <4>1, <4>5, <3>2
      <4> HIDE DEF End
      <4> QED BY <4>2, <4>3, <4>4, <4>6, <3>1
    <3> HIDE DEF End
    <3> QED BY <3>3, <2>9, <1>2 DEF Mine
  <2>11. Call(1) = Mine(kernel, 1) /\ Call(3) = Mine(kernel, 3)
    <3> HIDE DEF Call
    <3> QED BY <2>10
  <2> HIDE DEF Call
  <2> QED BY <2>8, <2>11
<1> QED BY <1>4, <1>5, Zenon

\* The records --last-call keeps, and the bytes of the first and the third call,
\* are those of one call each, whatever was fetched on wrong paths.
THEOREM CallsSeparatedCorrect == CoreSpec => []CallsSeparated
<1> QED BY CoreInvariance, Separated, PTL

\* What gaps says of the gap before the i-th of the committed micro-ops s, where Q
\* are the squashed ones.
GapAt(g, s, Q, i) ==
  /\ g.after = s[i - 1] /\ g.before = s[i]
  /\ g.size = At(s[i], "fetch") - At(s[i - 1], "fetch") - 1
  /\ g.cause \in {"cold", "squash", "other"}
  /\ g.cause = "squash" =>
       \E k \in Q : At(s[i - 1], "fetch") <= At(k, "fetch") /\ At(k, "fetch") <= At(s[i], "fetch")
  /\ g.cause = "other" =>
       ~ \E k \in Q : At(s[i - 1], "fetch") <= At(k, "fetch") /\ At(k, "fetch") <= At(s[i], "fetch")

GapPositions(s) == {i \in 2 .. Len(s) : At(s[i], "fetch") - At(s[i - 1], "fetch") > 1}

\* The latest fetch before is that of the micro-op before.
LEMMA GapFacts ==
  ASSUME CoreInv, NEW rs, NEW C, C \subseteq Kept, Listed(com(rs), C),
         NEW Q, Q \subseteq Indices, Listed(sq(rs), Q)
  PROVE  /\ DOMAIN gaps(rs) = GapPositions(com(rs))
         /\ \A i \in GapPositions(com(rs)) : GapAt(gaps(rs)[i], com(rs), Q, i)
<1> DEFINE c        == com(rs)
           f(i)     == At(c[i], "fetch")
           line(i)  == trace[c[i]].pc \div ICACHE_LINE
           last(i)  == Max({f(j) : j \in 1 .. i - 1})
           squashed == {At(k, "fetch") : k \in Range(sq(rs))}
           cause(i) == IF line(i) \notin {line(j) : j \in 1 .. i - 1} THEN "cold"
                       ELSE IF squashed \cap (last(i) .. f(i)) # {} THEN "squash"
                       ELSE "other"
           Wide     == {i \in 2 .. Len(c) : f(i) - last(i) > 1}
           Gap(i)   == [after |-> c[i - 1], before |-> c[i], size |-> f(i) - last(i) - 1,
                        cause |-> cause(i)]
<1>0. CoreTypeOK
  BY DEF CoreInv
<1>1. gaps(rs) = [i \in Wide |-> Gap(i)]
  BY DEF gaps
<1>2. PICK n \in Nat : n = Len(c)
  BY DEF Listed
<1>3. /\ \A i \in 1 .. n : c[i] \in Indices /\ c[i] \in Kept /\ f(i) \in Nat
      /\ \A i, j \in 1 .. n : i < j => c[i] < c[j]
  <2>1. /\ \A i \in 1 .. n : c[i] \in C
        /\ \A i, j \in 1 .. n : i < j => c[i] < c[j]
    BY <1>2 DEF Listed
  <2> HIDE DEF c
  <2> QED BY <2>1, <1>0, TraceFacts DEF Stages
<1>4. \A i, j \in 1 .. n : i <= j => f(i) <= f(j)
  <2> SUFFICES ASSUME NEW i \in 1 .. n, NEW j \in 1 .. n, i <= j PROVE f(i) <= f(j)
    OBVIOUS
  <2> HIDE DEF c
  <2>1. CASE i = j
    BY <2>1, <1>3
  <2>2. CASE i < j
    BY <2>2, <1>3 DEF CoreInv, OrderInv
  <2> QED BY <2>1, <2>2
<1>5. ASSUME NEW i \in 2 .. n PROVE last(i) = f(i - 1)
  <2> DEFINE F == {f(j) : j \in 1 .. i - 1}
  <2>1. i - 1 \in 1 .. n /\ i - 1 \in 1 .. i - 1 /\ \A j \in 1 .. i - 1 : j \in 1 .. n /\ j <= i - 1
    OBVIOUS
  <2> HIDE DEF f
  <2>2. f(i - 1) \in Nat /\ f(i - 1) \in F /\ F \subseteq Nat /\ \A x \in F : x <= f(i - 1)
    BY <2>1, <1>3, <1>4
  <2>3. Max(F) \in F /\ \A y \in F : y <= Max(F)
    <3> HIDE DEF F
    <3> QED BY <2>2, MaxOf
  <2>4. Max(F) = f(i - 1)
    <3> HIDE DEF F
    <3>1. PICK w, x : w = f(i - 1) /\ x = Max(F)
      OBVIOUS
    <3>2. w \in Nat /\ x \in F /\ F \subseteq Nat /\ w <= x /\ x <= w
      BY <2>2, <2>3, <3>1
    <3> QED BY <3>1, <3>2
  <2> QED BY <2>4
<1>6. Wide = GapPositions(c)
  <2>1. Wide = {i \in 2 .. n : f(i) - f(i - 1) > 1}
    <3> HIDE DEF f, last, c
    <3> QED BY <1>2, <1>5
  <2>2. GapPositions(c) = {i \in 2 .. n : f(i) - f(i - 1) > 1}
    BY <1>2 DEF GapPositions
  <2> HIDE DEF f, last, c
  <2> QED BY <2>1, <2>2
<1>7. squashed = {At(k, "fetch") : k \in Q}
  BY ListedRange
<1>8. \A k \in Q : At(k, "fetch") \in Nat
  BY <1>0, TraceFacts DEF Stages
<1>9. ASSUME NEW i \in 2 .. n PROVE GapAt(Gap(i), c, Q, i)
  <2>1. last(i) = f(i - 1)
    BY <1>5
  <2>2. PICK a, b \in Nat : a = f(i - 1) /\ b = f(i)
    <3>1. i \in 1 .. n /\ i - 1 \in 1 .. n
      OBVIOUS
    <3> HIDE DEF f
    <3> QED BY <3>1, <1>3
  <2>3. squashed \cap (last(i) .. f(i)) # {} <=> \E k \in Q : a <= At(k, "fetch") /\ At(k, "fetch") <= b
    <3> HIDE DEF squashed, last, f
    <3>1. squashed \cap (a .. b) # {} <=> \E k \in Q : At(k, "fetch") \in a .. b
      BY <1>7
    <3>2. \A k \in Q : At(k, "fetch") \in a .. b <=> a <= At(k, "fetch") /\ At(k, "fetch") <= b
      BY <1>8
    <3> QED BY <3>1, <3>2, <2>1, <2>2
  <2>4. /\ cause(i) \in {"cold", "squash", "other"}
        /\ cause(i) = "squash" => \E k \in Q : a <= At(k, "fetch") /\ At(k, "fetch") <= b
        /\ cause(i) = "other" => ~ \E k \in Q : a <= At(k, "fetch") /\ At(k, "fetch") <= b
    <3> HIDE DEF squashed, last, f, line
    <3> QED BY <2>3
  <2>5. PICK g : g = Gap(i)
    OBVIOUS
  <2>6. g.after = c[i - 1] /\ g.before = c[i] /\ g.size = b - a - 1 /\ g.cause = cause(i)
    <3> HIDE DEF squashed, last, f, line, cause, c
    <3> QED BY <2>1, <2>2, <2>5
  <2>7. a = At(c[i - 1], "fetch") /\ b = At(c[i], "fetch")
    BY <2>2
  <2> HIDE DEF cause, c, Gap
  <2> QED BY <2>4, <2>5, <2>6, <2>7 DEF GapAt
<1>10. /\ DOMAIN gaps(rs) = Wide
       /\ \A i \in Wide : gaps(rs)[i] = Gap(i) /\ i \in 2 .. n
  <2>1. Wide \subseteq 2 .. n
    BY <1>2
  <2> HIDE DEF Wide, Gap
  <2> QED BY <2>1, <1>1
<1> HIDE DEF Wide, Gap, c
<1>11. \A i \in Wide : GapAt(gaps(rs)[i], c, Q, i)
  BY <1>9, <1>10
<1> QED BY <1>6, <1>10, <1>11 DEF c

\* A sequence of numbers that does not decrease, and its cycles between two steps.
Climbs(n, f) == \A i, j \in 1 .. n : i <= j => f[i] <= f[j]

StepPairs(n, f) == {u \in (2 .. n) \X (Nat \ {0}) : u[2] <= f[u[1]] - f[u[1] - 1] - 1}

Steps(n, f) == {f[i] : i \in 1 .. n}

\* The numbers between the ends of a set that are not in it.
LeftOut(F) == (Min(F) .. Max(F)) \ F

\* The cycles between the steps of a sequence of numbers that does not decrease are
\* those between its ends that it leaves out.
LEMMA StepCycles ==
  ASSUME NEW n \in Nat \ {0}, NEW f \in [1 .. n -> Nat],
         Climbs(n, f), NEW U, U = StepPairs(n, f),
         NEW F, F = Steps(n, f)
  PROVE  IsFiniteSet(U) /\ Cardinality(U) = Cardinality(LeftOut(F))
<1> USE DEF Climbs, StepPairs, Steps, LeftOut
<1> DEFINE idle == (Min(F) .. Max(F)) \ F
<1>1. 1 \in 1 .. n /\ n \in 1 .. n
  OBVIOUS
<1>2. F \subseteq Nat /\ f[1] \in F /\ f[n] \in F /\ \A x \in F : f[1] <= x /\ x <= f[n]
  BY <1>1
<1>3. Min(F) = f[1] /\ Max(F) = f[n]
  <2>1. Min(F) \in F /\ \A y \in F : Min(F) <= y
    BY <1>2, MinOf
  <2>2. Max(F) \in F /\ \A y \in F : y <= Max(F)
    BY <1>2, MaxOf
  <2> QED BY <2>1, <2>2, <1>2
<1>4. f[1] \in Nat /\ f[n] \in Nat
  BY <1>1
<1>5. IsFiniteSet(idle)
  <2>1. IsFiniteSet(f[1] .. f[n])
    <3>1. PICK l, h \in Nat : l = f[1] /\ h = f[n]
      BY <1>4
    <3>2. IsFiniteSet(l .. h)
      BY FS_Interval
    <3> QED BY <3>1, <3>2, Zenon
  <2>2. idle \subseteq f[1] .. f[n]
    BY <1>3
  <2> QED BY <2>1, <2>2, FS_Subset
<1> DEFINE m == [u \in U |-> f[u[1] - 1] + u[2]]
<1>6. ASSUME NEW u \in U
      PROVE  \E i \in 2 .. n, d \in Nat \ {0}, a, b \in Nat :
               /\ u = <<i, d>> /\ i - 1 \in 1 .. n /\ i \in 1 .. n
               /\ a = f[i - 1] /\ b = f[i] /\ d <= b - a - 1 /\ m[u] = a + d
  <2>1. PICK i \in 2 .. n, d \in Nat \ {0} : u = <<i, d>> /\ d <= f[i] - f[i - 1] - 1
    OBVIOUS
  <2>2. i - 1 \in 1 .. n /\ i \in 1 .. n
    OBVIOUS
  <2>3. f[i - 1] \in Nat /\ f[i] \in Nat
    BY <2>2
  <2>4. m[u] = f[i - 1] + d
    BY <2>1
  <2> QED BY <2>1, <2>2, <2>3, <2>4
<1>7. ASSUME NEW u \in U PROVE m[u] \in idle
  <2>1. PICK i \in 2 .. n, d \in Nat \ {0}, a, b \in Nat :
               /\ u = <<i, d>> /\ i - 1 \in 1 .. n /\ i \in 1 .. n
               /\ a = f[i - 1] /\ b = f[i] /\ d <= b - a - 1 /\ m[u] = a + d
    BY <1>6
  <2>2. f[1] <= a /\ b <= f[n]
    BY <2>1, <1>1
  <2>3. a + d \in f[1] .. f[n]
    <3>1. PICK l, h \in Nat : l = f[1] /\ h = f[n]
      BY <1>4
    <3>2. l <= a /\ b <= h /\ d <= b - a - 1
      BY <2>1, <2>2, <3>1
    <3>3. a + d \in l .. h
      BY <3>2
    <3> QED BY <3>1, <3>3
  <2>4. ASSUME NEW j \in 1 .. n PROVE f[j] # a + d
    <3>1. CASE j <= i - 1
      <4>1. f[j] <= a /\ f[j] \in Nat
        BY <3>1, <2>1
      <4> QED BY <4>1
    <3>2. CASE i <= j
      <4>1. b <= f[j] /\ f[j] \in Nat
        BY <3>2, <2>1
      <4> QED BY <4>1, <2>1
    <3> QED BY <3>1, <3>2, <2>1
  <2> HIDE DEF m
  <2> QED BY <2>1, <2>3, <2>4, <1>3
<1>8. ASSUME NEW u \in U, NEW v \in U, m[u] = m[v] PROVE u = v
  <2>1. PICK i \in 2 .. n, d \in Nat \ {0}, a, b \in Nat :
               /\ u = <<i, d>> /\ i - 1 \in 1 .. n /\ i \in 1 .. n
               /\ a = f[i - 1] /\ b = f[i] /\ d <= b - a - 1 /\ m[u] = a + d
    BY <1>6
  <2>2. PICK j \in 2 .. n, d2 \in Nat \ {0}, a2, b2 \in Nat :
               /\ v = <<j, d2>> /\ j - 1 \in 1 .. n /\ j \in 1 .. n
               /\ a2 = f[j - 1] /\ b2 = f[j] /\ d2 <= b2 - a2 - 1 /\ m[v] = a2 + d2
    BY <1>6
  <2>7. a + d = a2 + d2 /\ d <= b - a - 1 /\ d2 <= b2 - a2 - 1
    <3> HIDE DEF m
    <3>1. a + d = a2 + d2
      BY <2>1, <2>2, <1>8, Zenon
    <3> QED BY <3>1, <2>1, <2>2
  <2>3. ~(i < j)
    <3> SUFFICES ASSUME i < j PROVE FALSE
      OBVIOUS
    <3>1. i <= j - 1
      BY <2>1, <2>2
    <3>2. b <= a2
      BY <3>1, <2>1, <2>2
    <3> QED BY <3>2, <2>7
  <2>4. ~(j < i)
    <3> SUFFICES ASSUME j < i PROVE FALSE
      OBVIOUS
    <3>1. j <= i - 1
      BY <2>1, <2>2
    <3>2. b2 <= a
      BY <3>1, <2>1, <2>2
    <3> QED BY <3>2, <2>7
  <2>5. i = j
    BY <2>3, <2>4
  <2>6. d = d2
    <3>1. a = a2
      BY <2>1, <2>2, <2>5
    <3> QED BY <3>1, <2>7
  <2> QED BY <2>1, <2>2, <2>5, <2>6
<1>9. ASSUME NEW t \in idle PROVE \E u \in U : m[u] = t
  <2>1. t \in Nat /\ f[1] <= t /\ t <= f[n] /\ \A i \in 1 .. n : f[i] # t
    BY <1>3, <1>4
  <2> DEFINE A == {i \in 1 .. n : t <= f[i]}
  <2>2. PICK i \in A : \A j \in A : i <= j
    <3>1. A \subseteq Nat /\ n \in A
      BY <2>1, <1>1
    <3> HIDE DEF A
    <3> QED BY <3>1, MinOf
  <2>3. i \in 1 .. n /\ t <= f[i] /\ f[i] \in Nat
    OBVIOUS
  <2>4. i # 1
    BY <2>1, <2>3, <1>1, <1>4
  <2>5. i - 1 \in 1 .. n /\ i \in 2 .. n
    BY <2>3, <2>4
  <2>6. i - 1 \notin A
    <3>1. ~(i <= i - 1)
      BY <2>3
    <3> HIDE DEF A
    <3> QED BY <3>1, <2>2
  <2>7. f[i - 1] \in Nat /\ f[i - 1] < t
    BY <2>1, <2>5, <2>6
  <2>8. PICK d \in Nat \ {0} : d = t - f[i - 1]
    BY <2>1, <2>7
  <2>9. d <= f[i] - f[i - 1] - 1
    BY <2>1, <2>3, <2>7, <2>8
  <2>10. <<i, d>> \in U
    BY <2>5, <2>9
  <2>11. m[<<i, d>>] = t
    <3>1. m[<<i, d>>] = f[i - 1] + d
      BY <2>10
    <3> HIDE DEF m
    <3> QED BY <3>1, <2>1, <2>7, <2>8
  <2> QED BY <2>10, <2>11
<1>10. m \in [U -> idle]
  BY <1>7
<1>11. m \in Bijection(U, idle)
  <2> HIDE DEF m
  <2> QED BY <1>8, <1>9, <1>10 DEF Bijection, Injection, Surjection, IsInjective
<1>12. IsFiniteSet(U) /\ Cardinality(U) <= Cardinality(idle)
       /\ (Cardinality(U) = Cardinality(idle) <=> m \in Surjection(U, idle))
  <2>1. m \in Injection(U, idle)
    <3> HIDE DEF m
    <3> QED BY <1>11 DEF Bijection
  <2> HIDE DEF m
  <2> QED BY <2>1, <1>5, FS_Injection
<1> HIDE DEF m
<1> QED BY <1>11, <1>12 DEF Bijection

StepsFilled(n, f) ==
  IsFiniteSet(StepPairs(n, f)) /\ Cardinality(StepPairs(n, f)) = Cardinality(LeftOut(Steps(n, f)))

LEMMA StepsFill ==
  ASSUME NEW n \in Nat \ {0}, NEW f \in [1 .. n -> Nat], Climbs(n, f)
  PROVE  StepsFilled(n, f)
BY StepCycles DEF StepsFilled

LEMMA ThreeParts ==
  ASSUME NEW A, NEW B, NEW C, IsFiniteSet(A \cup B \cup C),
         A \cap B = {}, (A \cup B) \cap C = {}
  PROVE  Cardinality(A) + Cardinality(B) + Cardinality(C) = Cardinality(A \cup B \cup C)
<1>1. PICK D : D = A \cup B
  OBVIOUS
<1>2. IsFiniteSet(A) /\ IsFiniteSet(B) /\ IsFiniteSet(C) /\ IsFiniteSet(D)
  <2>1. /\ A \in SUBSET (A \cup B \cup C) /\ B \in SUBSET (A \cup B \cup C)
        /\ C \in SUBSET (A \cup B \cup C) /\ D \in SUBSET (A \cup B \cup C)
    BY <1>1
  <2> QED BY <2>1, FS_Subset
<1>3. /\ Cardinality(A) \in Nat /\ Cardinality(B) \in Nat /\ Cardinality(C) \in Nat
      /\ Cardinality(D) \in Nat
  BY <1>2, FS_CardinalityType
<1>4. Cardinality({}) = 0
  BY FS_EmptySet
<1>5. Cardinality(D) = Cardinality(A) + Cardinality(B) - Cardinality(A \cap B)
  BY <1>1, <1>2, FS_Union
<1>6. Cardinality(D \cup C) = Cardinality(D) + Cardinality(C) - Cardinality(D \cap C)
  BY <1>2, FS_Union
<1>7. PICK a, b, c, d \in Nat :
        a = Cardinality(A) /\ b = Cardinality(B) /\ c = Cardinality(C) /\ d = Cardinality(D)
  BY <1>3
<1>8. Cardinality(A \cap B) = 0
  BY <1>4, Zenon
<1>9. Cardinality(D \cap C) = 0
  BY <1>1, <1>4, Zenon
<1>10. Cardinality(A \cup B \cup C) = d + c - 0
  <2>1. D \cup C = A \cup B \cup C
    BY <1>1
  <2> QED BY <2>1, <1>6, <1>7, <1>9, Zenon
<1>11. d = a + b - 0
  BY <1>5, <1>7, <1>8, Zenon
<1>12. a + b + c = d + c - 0
  BY <1>7, <1>11
<1> QED BY <1>7, <1>10, <1>12, Zenon

\* The cycles of the gaps of every cause make up those without a fetch.
LEMMA GapsCover ==
  ASSUME CoreInv, NEW rs \in Analyses, NEW fetches, fetches = {At(k, "fetch") : k \in Range(com(rs))}
  PROVE  Cardinality(GapCycles(rs, "cold")) + Cardinality(GapCycles(rs, "squash"))
           + Cardinality(GapCycles(rs, "other"))
           = Cardinality((Min(fetches) .. Max(fetches)) \ fetches)
<1>0. CoreTypeOK
  BY DEF CoreInv
<1>1. PICK S \in SUBSET Indices :
        /\ Listed(com(rs), S \cap Kept) /\ Listed(sq(rs), S \ Kept) /\ com(rs) # <<>>
  BY <1>0, AnalysisFacts
<1>2. PICK s : s = com(rs)
  OBVIOUS
<1>3. PICK n \in Nat \ {0} : n = Len(s) /\ DOMAIN s = 1 .. n
  <2>1. DOMAIN s = 1 .. Len(s) /\ Len(s) \in Nat /\ s \in Seq(S \cap Kept) /\ s # <<>>
    BY <1>1, <1>2, ListedRange DEF Listed
  <2>2. Len(s) # 0
    BY <2>1
  <2> QED BY <2>1, <2>2
<1>4. /\ \A i \in 1 .. n : s[i] \in Indices /\ s[i] \in Kept /\ At(s[i], "fetch") \in Nat
      /\ \A i, j \in 1 .. n : i < j => s[i] < s[j]
  <2>1. /\ \A i \in 1 .. n : s[i] \in S \cap Kept
        /\ \A i, j \in 1 .. n : i < j => s[i] < s[j]
    BY <1>1, <1>2, <1>3 DEF Listed
  <2> QED BY <2>1, <1>0, TraceFacts DEF Stages
<1>5. PICK f : f = [i \in 1 .. n |-> At(s[i], "fetch")]
  OBVIOUS
<1>6. f \in [1 .. n -> Nat] /\ \A i \in 1 .. n : f[i] = At(s[i], "fetch")
  BY <1>4, <1>5
<1>7. \A i, j \in 1 .. n : i <= j => f[i] <= f[j]
  <2> SUFFICES ASSUME NEW i \in 1 .. n, NEW j \in 1 .. n, i <= j PROVE f[i] <= f[j]
    OBVIOUS
  <2>1. CASE i = j
    <3>1. f[i] \in Nat
      BY <1>6
    <3> QED BY <2>1, <3>1
  <2>2. CASE i < j
    <3>1. At(s[i], "fetch") <= At(s[j], "fetch")
      BY <2>2, <1>4 DEF CoreInv, OrderInv
    <3> QED BY <3>1, <1>6
  <2> QED BY <2>1, <2>2
<1>8. fetches = {f[i] : i \in 1 .. n}
  <2>1. Range(s) = {s[i] : i \in 1 .. n}
    BY <1>3 DEF Range
  <2> QED BY <2>1, <1>2, <1>6
<1>9. PICK U : U = {u \in (2 .. n) \X (Nat \ {0}) : u[2] <= f[u[1]] - f[u[1] - 1] - 1}
  OBVIOUS
<1>10. IsFiniteSet(U) /\ Cardinality(U) = Cardinality((Min(fetches) .. Max(fetches)) \ fetches)
  <2>1. f \in [1 .. n -> Nat]
    BY <1>6
  <2>2. Climbs(n, f)
    BY <1>7 DEF Climbs
  <2>3. StepsFilled(n, f)
    BY <2>1, <2>2, StepsFill
  <2>4. U = StepPairs(n, f) /\ fetches = Steps(n, f)
    BY <1>8, <1>9 DEF StepPairs, Steps
  <2> QED BY <2>3, <2>4, Zenon DEF StepsFilled, LeftOut
<1>11. PICK g : g = gaps(rs)
  OBVIOUS
<1>12. /\ DOMAIN g = GapPositions(s) /\ \A i \in DOMAIN g : GapAt(g[i], s, S \ Kept, i)
  BY <1>1, <1>2, <1>11, GapFacts
<1>13. /\ DOMAIN g = {i \in 2 .. n : f[i] - f[i - 1] > 1}
       /\ \A i \in DOMAIN g : g[i].size = f[i] - f[i - 1] - 1 /\ g[i].cause \in {"cold", "squash", "other"}
  <2>1. \A i \in 2 .. n : i \in 1 .. n /\ i - 1 \in 1 .. n
    OBVIOUS
  <2>2. \A i \in 2 .. n : f[i] = At(s[i], "fetch") /\ f[i - 1] = At(s[i - 1], "fetch")
    BY <2>1, <1>6
  <2>3. DOMAIN g = {i \in 2 .. n : f[i] - f[i - 1] > 1}
    BY <2>2, <1>3, <1>12 DEF GapPositions
  <2> QED BY <2>2, <2>3, <1>12 DEF GapAt
<1> DEFINE Part(x) == {u \in U : u[1] \in DOMAIN g /\ g[u[1]].cause = x}
<1>14. \A i \in 2 .. n : f[i] \in Nat /\ f[i - 1] \in Nat
  <2>1. \A i \in 2 .. n : i \in 1 .. n /\ i - 1 \in 1 .. n
    OBVIOUS
  <2> QED BY <2>1, <1>6
<1>15. ASSUME NEW x PROVE GapCycles(rs, x) = Part(x)
  <2>1. GapCycles(rs, x) = UNION {{i} \X (1 .. g[i].size) : i \in {i \in DOMAIN g : g[i].cause = x}}
    BY <1>11 DEF GapCycles
  <2>2. ASSUME NEW u \in GapCycles(rs, x) PROVE u \in Part(x)
    <3>1. PICK i \in DOMAIN g : g[i].cause = x /\ u \in {i} \X (1 .. g[i].size)
      BY <2>1
    <3>2. PICK d \in 1 .. g[i].size : u = <<i, d>>
      BY <3>1
    <3>3. i \in 2 .. n /\ g[i].size = f[i] - f[i - 1] - 1
      BY <1>13
    <3>4. d \in Nat \ {0} /\ d <= f[i] - f[i - 1] - 1
      BY <3>3, <1>14
    <3>5. <<i, d>> \in U
      BY <3>3, <3>4, <1>9
    <3> QED BY <3>1, <3>2, <3>5
  <2>3. ASSUME NEW u \in Part(x) PROVE u \in GapCycles(rs, x)
    <3>1. PICK i \in 2 .. n, d \in Nat \ {0} : u = <<i, d>> /\ d <= f[i] - f[i - 1] - 1
      BY <1>9
    <3>2. i \in DOMAIN g /\ g[i].cause = x
      BY <3>1
    <3>3. d \in 1 .. g[i].size
      BY <3>1, <3>2, <1>13, <1>14
    <3>4. u \in {i} \X (1 .. g[i].size)
      BY <3>1, <3>3
    <3> QED BY <3>2, <3>4, <2>1
  <2> HIDE DEF Part
  <2> QED BY <2>2, <2>3
<1>16. U = Part("cold") \cup Part("squash") \cup Part("other")
  <2> SUFFICES ASSUME NEW u \in U PROVE u[1] \in DOMAIN g /\ g[u[1]].cause \in {"cold", "squash", "other"}
    OBVIOUS
  <2>1. PICK i \in 2 .. n, d \in Nat \ {0} : u = <<i, d>> /\ d <= f[i] - f[i - 1] - 1
    BY <1>9
  <2>2. f[i] - f[i - 1] > 1
    BY <2>1, <1>14
  <2>3. i \in DOMAIN g
    BY <2>2, <1>13
  <2> QED BY <2>1, <2>3, <1>13
<1>17. Part("cold") \cap Part("squash") = {} /\ (Part("cold") \cup Part("squash")) \cap Part("other") = {}
  OBVIOUS
<1> HIDE DEF Part
<1>18. Cardinality(Part("cold")) + Cardinality(Part("squash")) + Cardinality(Part("other")) = Cardinality(U)
  BY <1>10, <1>16, <1>17, ThreeParts
<1> QED BY <1>10, <1>15, <1>18

LEMMA Explained ==
  ASSUME CoreInv
  PROVE  GapsExplained
<1> DEFINE Caused(rs, g) ==
             /\ g.cause = "squash" =>
                  \E b \in faults :
                    /\ g.after <= b
                    /\ \/ b < g.before
                       \/ \E k \in WrongOf(b) : At(k, "fetch") = At(g.before, "fetch")
             /\ (g.after \in faults /\ WrongOf(g.after) \cap Range(rs) # {}) => g.cause # "other"
<1> SUFFICES ASSUME NEW rs \in Analyses
             PROVE  \A g \in Range(gaps(rs)) : Caused(rs, g)
  BY GapsCover DEF GapsExplained
<1> SUFFICES ASSUME NEW g \in Range(gaps(rs)) PROVE Caused(rs, g)
  OBVIOUS
<1>0. CoreTypeOK
  BY DEF CoreInv
<1>1. PICK S \in SUBSET Indices :
        Listed(rs, S) /\ Listed(com(rs), S \cap Kept) /\ Listed(sq(rs), S \ Kept)
  BY <1>0, AnalysisFacts
<1>2. PICK s, Q : s = com(rs) /\ Q = S \ Kept
  OBVIOUS
<1>3. PICK n \in Nat : n = Len(s)
  BY <1>1, <1>2 DEF Listed
<1>4. PICK i \in 2 .. n : GapAt(g, s, Q, i)
  <2>1. /\ DOMAIN gaps(rs) = GapPositions(s) /\ \A i \in GapPositions(s) : GapAt(gaps(rs)[i], s, Q, i)
    BY <1>1, <1>2, GapFacts
  <2>2. PICK i \in DOMAIN gaps(rs) : g = gaps(rs)[i]
    BY DEF Range
  <2>3. i \in 2 .. n
    BY <2>1, <2>2, <1>3 DEF GapPositions
  <2> QED BY <2>1, <2>2, <2>3
<1>5. PICK a, z : a = s[i - 1] /\ z = s[i]
  OBVIOUS
<1>6. a \in Kept /\ z \in Kept /\ a < z
  <2>1. i - 1 \in 1 .. n /\ i \in 1 .. n /\ i - 1 < i
    OBVIOUS
  <2> QED BY <2>1, <1>1, <1>2, <1>3, <1>5 DEF Listed
<1>7. \A k \in Indices : k \in Nat /\ At(k, "fetch") \in Nat /\ At(k, "complete") \in Nat
  BY <1>0, TraceFacts DEF Stages
<1>8. Kept \subseteq Indices /\ faults \subseteq Kept /\ Q \subseteq Indices \ Kept
  BY <1>0, <1>2, TraceFacts
<1>9. g.after = a /\ g.before = z
  BY <1>4, <1>5 DEF GapAt
<1>10. ASSUME g.cause = "squash"
       PROVE  \E b \in faults :
                /\ a <= b
                /\ b < z \/ \E k \in WrongOf(b) : At(k, "fetch") = At(z, "fetch")
  <2>1. PICK k \in Q : At(a, "fetch") <= At(k, "fetch") /\ At(k, "fetch") <= At(z, "fetch")
    BY <1>4, <1>5, <1>10 DEF GapAt
  <2>2. PICK b \in faults : /\ k \in WrongOf(b) /\ b < k /\ b \in Kept /\ b \in Indices
                            /\ (b + 1 .. k) \cap Kept = {}
                            /\ At(k, "fetch") <= At(b, "complete")
    BY <1>8, WrongPathHas
  <2>3. a \in Nat /\ b \in Nat /\ k \in Nat /\ z \in Nat /\ k \in Indices /\ z \in Indices /\ a \in Indices
    BY <2>2, <1>6, <1>7, <1>8
  <2>4. a <= b
    <3> SUFFICES ASSUME b < a PROVE FALSE
      BY <2>3
    <3>1. At(b, "complete") < At(a, "fetch")
      BY <2>2, <1>6 DEF CoreInv, PathInv
    <3> QED BY <3>1, <2>1, <2>2, <2>3, <1>7
  <2>5. CASE b < z
    BY <2>4, <2>5
  <2>6. CASE ~(b < z)
    <3>1. z < k
      BY <2>2, <2>3, <2>6
    <3>2. At(z, "fetch") <= At(k, "fetch")
      BY <3>1, <2>3 DEF CoreInv, OrderInv
    <3>3. At(k, "fetch") = At(z, "fetch")
      BY <3>2, <2>1, <2>3, <1>7
    <3> QED BY <3>3, <2>2, <2>4
  <2> QED BY <2>5, <2>6
<1>11. ASSUME a \in faults, WrongOf(a) \cap Range(rs) # {}, g.cause = "other" PROVE FALSE
  <2>1. PICK k \in WrongOf(a) : k \in S
    BY <1>1, <1>11, ListedRange
  <2>2. k \in Indices \ Kept /\ a < k /\ (a + 1 .. k) \cap Kept = {}
    BY <2>1, <1>11, WrongPathOf
  <2>3. a \in Nat /\ k \in Nat /\ z \in Nat /\ a \in Indices /\ z \in Indices
    BY <2>2, <1>6, <1>7, <1>8
  <2>4. k < z
    <3>1. z # k /\ ~(z < k)
      BY <2>2, <2>3, <1>6
    <3> QED BY <3>1, <2>3
  <2>5. At(a, "fetch") <= At(k, "fetch") /\ At(k, "fetch") <= At(z, "fetch")
    BY <2>2, <2>3, <2>4 DEF CoreInv, OrderInv
  <2>6. k \in Q
    BY <2>1, <2>2, <1>2
  <2> QED BY <2>5, <2>6, <1>4, <1>5, <1>11 DEF GapAt
<1> QED BY <1>9, <1>10, <1>11

\* The fetch gaps are the cycles of the fetch phase without a committed fetch, each
\* counted once, and a gap is laid to a squash only if fetch went wrong at it.
THEOREM GapsExplainedCorrect == CoreSpec => []GapsExplained
<1> QED BY CoreInvariance, Explained, PTL
=============================================================================
