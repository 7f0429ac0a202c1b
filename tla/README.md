# A verification project for GEMM_riscv

GEMM_riscv runs matrix-multiplication kernels (`C = alpha*(A*B) + beta*C`) on two RISC-V
simulators, gem5 and whisper, and reports cycles, vector instructions and roofline figures.
This directory holds TLA+ models of the parts that can go wrong in ways a run of the
simulators would not show, the TLC configurations that check them on small instances, and
TLAPS proofs, for every value of the constants, of what the runs check of the kernels and their
pictures, the start-up code, the roofline build and its plot, the simulated cores and the trace analyzer, the sweep and the harness. Paths below are
relative to the repository.

Parse a module with `tlasany M.tla`, check a run with `tlc -config X.cfg M`, check the proofs
with `tlapm M_proofs.tla` (`Semihosting_proofs` for `SemiStart` and `SemiWrite`, `Gem5_proofs` for `Roofline`, `Hroofline`, `Cores` and `Pipeview`). `PROJECT.json` lists the runs, for each property of a run a mutation
of the model that breaks it, the source lines of every definition, and the hazards.


## 1. Inventory

Where a component's state lives, what its operations are, what is hard about it and what
makes it correct. "Model" names the module; "-" means not modelled.

| Component | Source | State and operations | Hard part | Correct when | Model |
|---|---|---|---|---|---|
| `scalar_gemm` | `src/gemm.c:62-81` | C in memory, counters i, j, l; scale a row, then k passes over it | in-place updates with three strides | each cell gets its k products once, in order, after the scaling; nothing outside the block changes | ScalarGemm |
| `opt_gemm` | `src/gemm.c:84-244` | eight vector accumulators per tile; unrolled main loop, tail loop, reduction tree, store | k and n that are no multiples of 8 and of the vector length; no shape in the repository has one | nothing dropped or doubled between the two loops or between tiles; C moved twice, B loaded m times | OptGemm |
| `opt_gemm_blocked` | `src/gemm.c:247-436` | one accumulator for each of 16 rows | the body ignores its argument m | all rows in step; B loaded once | BlockedGemm |
| Roofline build of the program | `src/gemm.c:465-550` | the D-cache and gem5's statistics; evict, cold call, evict, warm call, each between a reset and a dump | what is in the cache, and dirty, when a phase begins; lines of others | each section has exactly the traffic of its phase | Roofline |
| Default build of the program | `src/gemm.c:438-463`, `552-675` | A, B, C, C_ref, counters; warm-up, three kernels, comparison | stale C, NaN in the comparison | PASS only if the kernel computed the result | - |
| Micro-benchmarks | `src/fmacc.c`, `src/fmacc_fp16.c`, `src/l1_bw.c` | accumulators, iteration counts | half-precision accumulators that stop growing; how many accumulators hide the latency | printed operation counts are what was executed | Cores (the streams of vfmacc) |
| Start-up, semihosting | `start_semi.S`, `linker_semi.ld` | RAM, registers, `_heap_ptr`, mtvec; boot, `_write`, `_sbrk`, `_exit`, trap handler | section bounds, heap limit, stack copy, a trap at any point | main starts on the right image; heap words are handed out once; the caller's registers survive; a trap is seen | SemiStart, SemiWrite |
| Start-up, UART | `start_uart.S`, `linker_uart.ld` | the same, over a polled UART | control flow after main | the program ends when main returns | UartStart (exit path) |
| Build | `Makefile` | binaries, `build_flags.tmp` | an existing target is not rebuilt; one temporary file for all | the binary that runs has the flags asked for | inside Sweep, Harness |
| Sweep driver | `test/sweep.py`, `test/config/sweep_config.json` | one binary, two logs per point, m5out directories, rows, summary | stale files, failed builds, logs that end early | a number in a row was measured at that point, on that kernel, in this sweep | Sweep |
| Benchmark harness | `test/harness.py`, `test/config/*` | a binary, three logs and an output file per bench, m5out directories, toggles | simulators toggled off while logs of an earlier run are there; a parser that accumulates | a section of the output holds this session's numbers, of its own core | Harness |
| Simulator wrapper, log parser | `script/python_riscv_sim.py`, `script/python_log_parser.py` | the log file; lists of the lines found | exit codes are ignored, defaults send a log to another bench's file | as for the harness and the sweep | inside Harness, Sweep |
| Shape comparison | `test/compare_shapes_fp16.py` | as the sweep, two points | one of its shapes cannot be built | as for the sweep | - |
| Simulator configurations | `sim_config/` | four gem5 cores: units, latencies, widths, caches, knobs | a latency, issue latency or unit split that makes the core another one than the comments describe | the rates the comments give, at every setting of the knobs | Cores |
| Pipeline trace analyzer | `script/analyze_o3_pipeview.py` | a stream of trace records, written as micro-ops leave the pipeline | squashed records out of order; which cycle, gap or call a record belongs to | each lost cycle is charged to the instruction that was the head of the reorder buffer; squashes to their branch; calls kept apart | Pipeview |
| Roofline plots | `script/gen_hroofline_svg.py`, `gen_roofline_svg.py` | sections of stats.txt, the trace | wrong paths that fetch the kernel's entry; a call without traffic | the points are the kernel's traffic | Hroofline, Pipeview |
| Diagram generators | `script/gen_opt_gemm*_svg.py` | none; index and coordinate arithmetic | the pictures are maintained apart from the kernels | the picture shows what the kernel does | Diagrams, OptDrawing, BlockedDrawing |

How they interact. `sweep.py` (or `harness.py`, `compare_shapes_fp16.py`) calls `make` for a
binary under `test/`, runs it on each simulator through `RiscvSim`, which pipes the output
through `tee` into a log, and has `LogParser` filter the log; the sweep *counts* lines to find
the kernel it wants. Inside the binary the start-up code hands control to `main`, `main` calls the kernels on
shared arrays and prints through newlib, which calls `_write` and, for buffers, `_sbrk`. The roofline build
brackets its kernel calls for gem5, and `gen_hroofline_svg.py` reads the sections and the O3 trace this leaves; the
same trace goes to the analyzer. There
are no threads: the interleavings are those of a program with traps, of the script with the
failures of the programs it calls, of a session with the files of earlier ones, and of the instructions in a pipeline.


## 2. Modules

### The kernels: values that remember how they were computed

Floating-point addition is not associative, so a model with exact numbers would hide what the
optimised kernels change and one with small numbers would hide a product added twice. In
`GemmValues` a value is therefore the way it was computed: a *chain* is the sequence of operations
applied to one accumulator (`Old(x)`, `Beta`, `Prod(a, b)` with the flat addresses a and b), a
*sum* is a family of chains added at the end. Equal chains round identically. `Reference(s, r, c)`
is the chain `scalar_gemm` is meant to apply to `C[r*ldc + c]`; `SumsTo(v, ref)` says that a sum has
each operation of `ref` exactly once and nothing but zeros besides.

* `GemmContract` is the abstract specification of a kernel: until it returns it may do anything to its
  block of C and nothing to the padding; when it returns each cell sums to its reference.
* `ScalarGemm` has an action per iteration and per exit of each loop (`RowEnter` ... `LoadExit`).
* `OptGemm` has `TileEnter` (load C, scale, clear seven accumulators), `MainLoop`, `TailLoop`,
  `TileStore` (reduction tree, store, `j += vl`). The lanes of a vector instruction are one step:
  nothing can look at a half-executed one. The fp16 and fp64 bodies (`#ifdef`) are the same text over
  another element width, which is `VLMAX`. `bLoads` and `cMoves` count the loads and stores.
* `BlockedGemm` is the same for the 16-row kernel; its `#error` on M is `BlockAssumption`.

* `OptDrawing` and `BlockedDrawing` (over `Diagrams`, the shapes they share: grids, brackets, fans, boxes, elbows) are
  the four diagram generators. Each extends its kernel: in a state of the kernel the picture is drawn for the tile and
  the iteration at work, and compared with the addresses the next step reads and writes. The tile in `doc/` itself
  (`Illustration`) is used for what does not depend on the kernel: crossings and overlaps, in integers at 1/80 pixel.

Constants: `Shapes` are the argument lists, with `n <= ldb`, `n <= ldc`, `k <= lda`
(`ShapesAssumption`; main passes the dense case); `VLMAX`; `CHAINS` = 8, the accumulators the
body has; `UNROLL`, the macro `OPT_GEMM_UNROLL`, assumed equal to `CHAINS` (see section 4); `BLOCK` = 16, the rows.

### The roofline build and its plot

`Roofline` writes `rl_call` and `roofline_main` as the sequences of operations they are and gives each operation
an action: reset, dump, the stores of the counters and results, the loads of `evict_dcache` one line
at a time, and a kernel call that touches its lines in any order, as often as it likes, until it has read A, B, C
and written C and its frame. The cache (`Access`) is gem5's: set associative, least recently used out first,
write-back, allocation on a write. A line's `age` is its place in its set, 1 for the one used last, `Out` if it is not in the cache.
The two boot loops run first (`BootWrite`, a word's line at a time, `BootNext`), so that .bss and .data leave dirty lines behind.
`Places` are placements by the linker and the compiler: the stack of a kernel call (arguments, saved registers, spilled vectors) is a
set of lines of any size, which each call writes and reads. Constants `SETS`, `WAYS` (256 and 4 in `sim_config/`).

`Hroofline` extends it with what `gen_hroofline_svg.py` computes from the three sections: the bytes of the cold and
the warm call, and whether their points lie between the axes. A statistic of a section is the number of its events (`Units`);
intensities are compared as fractions over `FLOPS`. The y axis (GFLOP/s) is not modelled.

### The start-up code

* `SemiStart`: RAM in doublewords (every exported bound is 8-byte aligned and every access is an `ld` or
  `sd`), laid out as the linker script does: .data, .bss, heap, stack. Actions: `_start`, an
  iteration of each boot loop, `_sbrk(n)` with its 64-bit wrap (`ADDRESSES`), `Return`, `_kill` (abort),
  `_exit`, a `Trap` anywhere after mtvec is set, and the handler's two calls. A `Trap` in `_exit` or in the handler
  enters the handler (again) 32 bytes below the `sp` it finds; its stores go wherever `sp` points (`Stored`), so a handler entered
  often enough writes over .data, where its message lies. malloc is the environment: it gives back only the end of what it got.
* `SemiWrite`: `_write` register by register over a byte-addressed stack; an `sd` fills eight
  bytes, and an `ld` gives the register back only if all eight are still there. `SYS_WRITE0` is the
  simulator: it prints to the first NUL and clobbers a0.
* `UartStart`: from `call main` to the end; what comes after the call in memory decides what happens.

### The scripts over their files

`Sweep` has one action for each external program (`Build`, `Whisper`, `Gem5`), `Parse` or `ParseRaises`
(a TypeError nothing catches), `Summarize`, and `Clean` for `sweep.py clean`. The state is the file
system and `run_one`'s position. A number is represented by where it was measured (sweep, binary
flags, core, simulator, kernel), which is what the properties are about. `make` does nothing for a
target that is there and may leave none; a simulator may stop after any line count in `LineCuts`,
and prints nothing without a binary. The parser's list is a function from the numbers of the lines it keeps, and `get` takes the
one with the wanted number of namesakes before it. The initial state is a clean tree or one with all the files
of an earlier sweep and any binary.

`Harness` is `harness.py` with the wrapper and the parser, as sessions at one shell: `Start` chooses the toggles and
the directory, `NextBench` goes to the first enabled bench, and for each enabled bench `Build`, three `Simulate`s and three `Parse`s, `NextBench`; `Clean`;
`Standalone` is the wrapper called by hand with any of its argument lists. `make` is called in the directory the harness was started
in, so from anywhere but the root there is no binary. `log_parse` appends the `Matches` of a log to the parser's
lists, log after log, and `Parser(sim)` says which calls share an instance. `Parse` of a log that is not there is the exception
that ends the session (`"raised"`); the next session starts on what is left.

### The cores, the trace and the analyzer

`Cores` has a constructor for each configuration file (`TimingSimple`, `Minor`, `Superscalar`, `O3`) with the file's
environment knobs as parameters: the list of functional units with latency, issue latency and the cycle the sources are read, the width, the
caches. What gem5 does with them is external, and modelled as far as the repository's comments describe it: `Execute` fetches,
issues and retires the next instruction, in the first cycle in which a unit of its class is free and its sources are
there (`IssueAt`: the least cycle with a taker; from `Drained` on every unit is idle and every result is there, so there is one);
`WrongPath` is a micro-op fetched after a mispredicted branch, squashed when the branch completes. The state that
matters is `trace`, the records.

`Pipeview` extends it with `analyze` as operators over that trace: `parse_trace` is the order of the records in the
file (by the time a micro-op leaves), `Selected` are a kernel's, from its last call on if asked, `analyzed` sorts them (a list of a
set is `Sorted`: its i-th element has i - 1 before it), `HeadAt` and `Why` charge a cycle without a
commit, `events` groups squashed micro-ops, `gaps` are fetch gaps with their cause, `l1_bytes` is what `gen_hroofline_svg.py` takes from the same
trace. Each is compared with a definition that looks at the pipeline itself (`RobHead`, `faults`, `CallOf`), which the script cannot.


## 3. Runs

| Run | Shows | Bounds, and why they are enough |
|---|---|---|
| scalar | `IndInv`: between any two statements each cell is at exactly the prefix the loops have reached, padding untouched; `Correct`; `ImplementsContract` | m 1-3, n and k 0-3, with and without padding: empty, one and several iterations of every loop, a first, middle and last row |
| opt | `IndInv`: during a tile the eight accumulators together hold each product once, stored cells are final; `Traffic`: "C is touched only twice per row" and B m times; contract; `Termination`; `AccessDrawn` and `FlowDrawn`: the two pictures show, cell by cell and lane by lane, what the next iteration does, and can be read | k 0-17: all remainders of 8 with none, one and two rounds of the main loop; n 0-4 with VLMAX 3: empty, short, exact, exact plus short tile |
| blocked | `IndInv`, `Correct` (the very chain of `scalar_gemm`), `LoadedOnce`, contract; `HourglassDrawn` and `SharedLoadDrawn`, its two pictures | 3 rows stand for 16: the first, the last and one between, the rows only share B; n 0-5 with VLMAX 2: two tiles and a short one |
| boot | `IndInv`; `Image`: main starts with .data copied, .bss zero, the rest not written; `HeapInv`: malloc owns exactly the words below the break; `TrapVisible`, wherever the trap strikes and however often the handler is entered again; `Progress`: the simulation ends once traps stop coming | sections of 1-3 words: loops of one, two and three rounds; heap of 0 and 3 words with requests that fit, do not fit and would wrap; an address space of 24 words, so that the `sp` of a handler entered again and again passes the stack, the heap, .bss and .data and wraps |
| write | `CalleeSaved`: the copy never reaches the saved registers; `Printed`: the simulator shows each buffer to its first NUL, no stale bytes | two calls, lengths 0, 1, 3, 14-17: both sides of the rounding to 16, a shorter call after a longer one |
| roofline | `ColdReads`: the first section has each line of A, B, C filled once, nothing of the buffer, no write-back; `EvictWrites`: the second has each line of C written back once and none of A, B or the buffer; `WarmHits`: the third has no traffic of the kernel's lines; `PlottedTraffic`: the plotted points are the compulsory traffic, and at most one fill and one write-back of each line of the stack and of the measurement's own variables; they lie on the x axis, the cold one left | 2 sets of 4 ways, everything but the buffer just fits, a stack of two lines included; the buffer before, behind or between the data, small variables on shared or own lines: LRU order is per set, so more sets repeat the same cases |
| sweep | `RowsFaithful`: no number is of another sweep, binary, core or kernel; `NAOnlyIfMissing`; `SummaryComplete` | four points of three kernels and a disabled variant; cuts inside the first and second block and none; failed builds at each point |
| harness | `Fresh`: sections of simulators that are on hold only numbers of this session and its binary; `SectionsComplete`: each section is its own log, whole and alone; `RaisesOnlyIfDisabled`; `NothingOlderThanClean` | two sessions, which is what one session can find of another; two benches at work and a disabled one; each toggle off alone; logs of three lines of both kinds, cut after none, one or all; six command lines of the wrapper |
| pipeline | `Throughput`: the issue cycle of every vfmacc of a stream is the one the comments' formula gives; `DualIssue`: scalar and vector units of the superscalar core never wait for each other; `ChargedToHead`, `FrontendStarved`, `SquashesKeyed`, `GapsExplained`, `CallsSeparated`: the analyzer's counts against their meaning | every core; latencies 1-6, DLEN 128-512, 1 and 2 FP units, 1 and 4 fetches; streams of 5 and 6 vfmacc on 1, 2 and 4 accumulators, so that each of latency, issue latency and number of units is the limit once; mixed programs of 6; O3 also on two calls over two cache lines (`ICACHE_LINE` 4) and on three calls in a row, with `WRONG` = 2 wrong-path micro-ops to `WRONGPCS`, one outside the kernel and one its entry; a DRAM fetch takes `MISS` = 5 cycles |
| write_count (violation) | `ReturnsCount` fails | as write |
| uart_exit (violation) | `FallsThroughToExit` fails | the code has no data to bound |
| sweep_summary (violation) | `SummaryWritten` fails | as sweep |

Deadlock checking is off where the program ends; `Termination`, `Progress` and `SummaryWritten`
say that it ends in the right place.

Fairness. A kernel is a sequential program on one hart with interrupts never enabled, so weak
fairness of its whole next-state relation is what the processor does (`Termination`, for `opt_gemm`). In `SemiStart` only
the start-up code's own actions are fair: main may compute for ever. Each of its instructions is executed or traps (`OwnCode`), and fairness
does not say which: a handler that traps for ever, as its `ebreak` does on a simulator without semihosting, is a fair behaviour. `Progress`
therefore has a hypothesis, `<>[][~Trap]_vars`. In `UartStart` the code, main
and the UART's draining are fair. `Sweep` assumes that make and the simulators return: nothing has a
timeout, so a hanging simulator does hang the sweep. `Harness`, `Cores` and `Roofline` state safety only and assume none.


## 4. What the runs found

* `_write` returns the caller's s1 (`start_semi.S:159`): the epilogue reloads s1 before the count in it is moved to
  a0. The UART version keeps the count elsewhere and returns it.
* After main the UART start-up runs into `uart_putc` (`start_uart.S:46`, `57`), whose `ret` comes back to itself:
  the program sends main's result for ever. `_exit` is further down.
* A log of gem5 that ends early at a point where whisper's does not makes `mcycle / vec_load` raise
  (`test/sweep.py:223`): all rows are lost.

Remarks that are not findings.

* `OPT_GEMM_UNROLL` looks configurable (`src/gemm.c:88`), but the body is written out
  for eight: with another stride products are added twice or never, so `OptGemm` assumes `UNROLL = CHAINS`.
* The roofline sections count the measurement's own lines (`src/gemm.c:517`, `520`): `cycle_count` and `inst_count` are
  stored inside the bracket after an eviction, so their line is filled in the cold and in the warm section, and
  written back with those of `rl_cycles` and `evict_sink` in the second. The comment at `src/gemm.c:471-474` equates the sections with the
  kernel's traffic, and `doc/gemm_analysis.md:428` reports one line of warm traffic; `WarmHits` shows that none of it
  need be the kernel's, and `PlottedTraffic` bounds what else the plot contains.
* The eviction buffer's size is not generous but needed: with one as large as the cache `ColdReads` fails, since
  the buffer's lines are dirty from the zeroing of .bss and are hit.
* The comment at `src/gemm.c:635` puts `opt_gemm_blocked` among the kernels whose summation
  order differs; `Correct` shows it adds in the order of `scalar_gemm`, so a difference there can only
  come from the contraction of multiply and add. `linker_semi.ld:111` says start.S does not copy .data; it does.
* `sweep.py clean` (`test/sweep.py:129`) looks at the variants enabled now (`test/sweep.py:44`) and leaves the logs of
  others; the harness's clean does not (`NothingOlderThanClean`).
* The comment at `start_semi.S:170` says the handler dumps the cause "then exits". That holds if nothing in it traps: it stores to the stack
  pointer it interrupted (178-182) and never moves `mtvec`, so a bad `sp` has it start over, 32 bytes further down each time.
* With a simulator toggled off the harness's output file still gets its section, from whatever log is there.
* The analyzer raises (`max` of nothing) on a trace in which no micro-op of the kernel has committed, and counts
  `vsetvli` as a vector store (`analyze_o3_pipeview.py:80`).
* A warm call without a single miss has intensity infinity in `gen_hroofline_svg.py:121`, and its point is written at `inf`.
  `gen_roofline_svg.py` says that rows with il=4 are omitted (15, 28, 160) and plots two (31, 35).
* The pictures. Arrays of `opt_gemm`: the comment at `gen_opt_gemm_arrays_svg.py:246-249` says the fan does not cross itself and ends above the label row; arrow 7
  runs down, below that row, and crosses arrow 6 once, so `FansLegible` is about the arrows that climb. The tile drawn
  (j = 6, vl = 4, l = 2) is an illustration: with tiles of 4 columns the kernel reaches j = 4 and 8, and l = 0 and 8.
  Arrays of the blocked kernel: arrows 11 to 15 run through the index label of the row above. In the dataflow pictures the stage and loop labels
  of `opt_gemm` overlap its title, and the lines of lanes 7 and 8 of the blocked kernel run behind the box of B.


## 5. Proofs

All are in modules of their own beside the component's.

* `KernelLemmas`: what the kernels' proofs share. `AtInjective`: two cells whose columns
  stay below the leading dimension never share an address, by cases on the rows; from it that an address of the block is in C,
  what taking and extending a prefix of a reference gives, and that a reference `SumsTo` itself. And the geometry of the pictures. In
  a fan two arrows do not cross because a cubic's weights move to later control points as it is sampled
  (`CubicAdvances`) and grow with the control points (`CubicGrows`): samples lie on common verticals, left to right,
  each vertical in the order of the arrows. Boxes do not overlap when their columns or their rows are apart.
* `ScalarGemm_proofs`: `Invariance` (`Spec => []IndInv`), `Correctness` (`Spec => []Correct`) and
  `Refinement` (`Spec => ImplementsContract`), for every set of shapes that satisfies `ShapesAssumption`. `Correct` is not
  inductive: it says nothing before the end. `IndInv` adds `PrefixInv`, how far each cell has come as a
  function of pc, i, j, l; `LoopInv`, that temp_a is the element of row i and step l; `FrameInv` for
  the padding; and the types. One step per action, one per conjunct it disturbs; injectivity is what keeps
  an update of (i, j) from touching another cell's prefix.
* `BlockedGemm_proofs`: the same three for every shape, vector length and block height.
  `LaneInv` (the accumulators are prefixes) and `ColumnInv` (columns left of j final, the others untouched) are what
  makes it inductive. `LoadedOnceAlways` (`Spec => []LoadedOnce`) is inductive relative to it.
  Then its two pictures, drawn for the tile at work: `SharedLoadPicture` (`[]SharedLoadDrawn`) and `HourglassPicture`
  (`[]HourglassDrawn`). What a picture needs of the kernel is in `LaneInv`: a tile has a column and ends inside C, and an accumulator's first
  operation is its cell of C. The rest is geometry. In the dataflow picture a box is known by its column and the height of its row, so a line
  joins the one pair of boxes at its ends; in the array picture the fans are those of `KernelLemmas`.
  `HourglassPicture` has the hypothesis `BLOCK <= CELL`: the arrows of all rows pass one cell of B,
  which is `CELL` = 1920 units high, so with more rows two would share a lane. The code has 16.
* `OptGemm_proofs`: `Invariance`, `TrafficBound` (`Spec => []Traffic`) and `Refinement`, for every shape, vector length and
  number of accumulators. Here a cell is a family of chains, of which `SumsTo` asks for a position of each operation of
  the reference. The lemma `SumsGrow` says what the main loop does to it: if chain q grows by the product of step l + q,
  for all q, the family that summed to the prefix of length l sums to the one of length l + CHAINS; the tail loop is its case of one chain.
  `LaneInv` carries this through a tile, `CellInv` (stored cells final, the others untouched) from tile to tile, `LoopInv` ties the
  end of the loops to their bounds. `Traffic` speaks of the end only; `TrafficInv` gives each count as a function of
  where the loops are, and is proved relative to `IndInv`.
  Its pictures: `AccessPicture` (`[]AccessDrawn`) and `FlowPicture` (`[]FlowDrawn`). They need two more things of the kernel, which are in
  `LaneInv`: a tile at work is not empty, and the accumulators but vc0 start from zero. Here the arrows of a fan start at
  different places, so samples share no vertical; each sample of the next arrow is to the right and no higher,
  and any two segments are apart in x, in y or side by side (`PictureFans`). For the flow, an elbow gives away the columns and rows of
  its ends (`ElbowsDiffer`), so the lines are those of the tree; `Paths` is defined by recursion over the boxes, and unfolding the five levels of the
  tree shows that it has the value its equation says (`PathsWalk`), from which come the eight paths to the store and that no two begin in
  one lane. `FlowPicture` has the hypothesis `CHAINS = N_LANES`: the picture has eight lanes, as the body has eight accumulators.
* `Semihosting_proofs`, of `start_semi.S`: first `Invariance`, `BootImage` (`[]Image`), `HeapSafety` (`[]HeapInv`), `TrapMessage`
  (`[]TrapVisible`), for every layout of the linker script and every size of the address space. `BootInv` says, word by word, how far
  each boot loop has come, with what is not reached yet still as it was. `BreakInv` keeps the break between the heap's
  bounds; the lemma `NoWrap` turns the comparison modulo `ADDRESSES` into one of integers for requests below half of it, which
  is where `HeapInv` gets that a grant is the words between the two breaks. `ConsoleInv` says which steps of the
  handler have shown their message: what it stores can only destroy the text (`StoredWords`), so an intact one was shown by the last entry.
  Then `_write`: `RegistersSurvive` (`[]CalleeSaved`) and `OnlyBuffersShown` (`[]Printed`), for buffers of every length that fits and every
  content, and any number of calls. `CalleeSaved` says nothing
  inside a call; `SavedInv` keeps the six slots of the frame whole from the prologue to the epilogue, gives sp and s2, and bounds
  t2, where the next byte goes: by `CopyFits` the rounded size has room for the count and the NUL, so it stays below the frame.
  `TextInv`, inductive next to it, says how much of the buffer the copy has; where the simulator stops reading is the
  buffer's own first NUL or the one stored behind it (`EndOfText`, from the least element of a set of numbers), and
  `Shows` cuts what was shown into the calls, so that a call adds a piece without a recursive definition.
* `Gem5_proofs`, first of the roofline build: `Invariance`, `ColdSection` (`[]ColdReads`), `EvictSection` (`[]EvictWrites`), `WarmSection` (`[]WarmHits`),
  for every number of sets and ways and every placement with `PlacesAssumption`, and `OthersCountOnce`, `PlottedPoints` (`[]PlottedTraffic`). The
  three properties look at finished sections; what carries them there is the state of the cache. `CacheInv`: no two lines of a set have one
  place. `EvictInv`: while the eviction buffer is read, a line not read yet is older than all those of its set that were (`Older`); a set
  whose ways have all been used then has nothing of the program left, and since this holds of the second half of the buffer alone, what the
  boot code left dirty of it is gone too. That is why the buffer is twice the cache. `OwnInv`: between evictions the program's own lines are the
  youngest, so a line of the buffer leaves before one of them. `CleanInv` says what may be dirty, `KernelInv` how far a call of the kernel is,
  `TrafficInv` what the counters hold between a reset and a dump. `OthersInv` is the same for the stack and the three variables, whatever their number of lines, and lemmas on cardinalities
  turn "each line once" into the plot's byte counts.
  Then the cores: `CoreInvariance` (`CoreSpec => []CoreInv`), for every set of cores whose units take whole cycles and every program;
  `ConfigurationsAreCores` says that the four configuration files are such cores at every setting of their knobs that takes a cycle at least. `StageInv`
  takes a micro-op through its stages in order, `OrderInv` has fetch and retirement in program order, `PathInv` ties a squashed micro-op to the
  branch before it (nothing commits between them, what comes after is fetched once the branch is resolved), `IssueInv` bounds the issue
  by the width and keeps an in-order core in its program. That the least cycle of `IssueAt` exists is `DrainedFacts`. `DualIssueCorrect` (`[]DualIssue`)
  is inductive next to it: of the two integer units one is free in the cycle of the vector instruction, because a third instruction in that
  cycle would exceed the width, and the scalar FP unit takes one every cycle. Its hypothesis `SuperscalarRuns` says that a core called
  superscalar is `Superscalar(DLEN, VPU_OPLAT, SCALAR_FP_OPLAT)` for some setting of the knobs. `ThroughputCorrect` (`[](OnePipeCore => Throughput)`)
  is for the cores with one pipe for vector operations, the superscalar one at every setting and Minor with one FP and SIMD unit, and for streams of any
  length on any number of accumulators. On one pipe the comments' formula is `Later`, quotient and remainder of the index: by `LaterSteps` each cycle of it
  is a step of the pipe after the one before or, where a round of accumulators begins and the latency is longer than the round, a latency after the
  one a round before, which `RoundBefore` shows to be the last on the same accumulator. `StreamIssues` has from this that no unit takes the next
  vfmacc earlier and that the pipe does take it then.
  And the analyzer, whose five properties follow from `CoreInv` for every core, program and symbol table: `ChargedToHeadCorrect`, `FrontendStarvedCorrect`,
  `SquashesKeyedCorrect`, `CallsSeparatedCorrect`, `GapsExplainedCorrect`. `SortedLists` and `SelectLists` say what the sorted lists are, a bijection from
  positions that keeps the order; `Bisect` what `bisect_right` finds in one, which with `OrderInv` is the head of the reorder buffer; `Keyed`
  reads `PathInv` in a run of records; `EntriesFacts` counts calls by committed fetches of the entry; `StepsFill` counts the cycles between the steps of
  the fetches by a bijection with the cycles without one.
* `Sweep_proofs`: `Invariance`, `RowsAreFaithful` (`[]RowsFaithful`), `HonestNA` (`[]NAOnlyIfMissing`), `CompleteSummary`
  (`[]SummaryComplete`), for every list of variants with distinct names and points, every failure of make and every place at which a simulator stops. `PointInv` says
  who wrote the logs of the point at work; `RowsInv` that there is one row for each point before it, in order, and that a row is what its point's
  logs *still* say. That holds because no two points share a tag (`TagsDiffer`). `GetLine` says which line `get` finds: the n-th line of a name is
  the one in the n-th block, because a log that ends early lacks lines at its end only.
* `Harness_proofs`: `Invariance`, `FreshNumbers` (`[]Fresh`), `CompleteSections` (`[]SectionsComplete`), `RaisesJustified`
  (`[]RaisesOnlyIfDisabled`), `CleanStays` (`[]NothingOlderThanClean`), for every list of benches, every set of toggles and
  of command lines, and any number of sessions. `BenchInv` follows a bench: which of its logs this session has already written
  (`LogOfSession`: on its own core, and any line in it printed by this session's binary), and that what is parsed so far is exactly those.

The inductive invariants are invariants of TLC's runs too, or were checked by TLC on the instances of those runs before they were proved.

Assumptions: `ShapesAssumption`, `VectorAssumption`, `BlockAssumption` (the kernels), `LayoutAssumption`, `WriteAssumption` (the linker script, the
stack), `PlacesAssumption` (the program's lines are not the buffer's, and no set has more of them than ways), `FlopsAssumption` (enough operations per byte for the
points to lie between the axes: 16x64x16 in half precision has 104 lines and 32768 operations), `ConfigsAssumption` (the keys of a JSON object
are distinct, and so are the points listed for one), `HarnessAssumption`, `CommandsAssumption`. All are evaluated by TLC in the runs.

`CoresAssumption` (units take whole cycles, a cycle at least; TLC evaluates it for the cores of the run), `SymbolsAssumption` (a kernel has an
address and is not empty: one of size 0 has no entry, and `CallsSeparated` fails).

What the proofs changed. `FetchAt` and `Why` had been written with overlapping CASE guards, of which TLA+ leaves the choice open: TLC took
the first, as the code's `elif` does, the prover could not. They are IF chains now. `DualIssue` and the analyzer's properties had no proof while
`IssueAt` was a recursion and the lists were folds; stated by the sets they list, they have.

Only model-checked: every liveness property (fairness and ENABLED are beyond the prover), and `Throughput` on cores with several vector units
(Minor with two, O3 with four). There the comments' formula is not true of every program: with two units and three accumulators, say, the units take
turns another way than it assumes. The run has one, two and four accumulators, on one, two and four units.


## 6. What is abstracted

* Symbolic values: rounding, overflow and NaN are not in the kernel models; the test data, which is zero
  outside 16 elements of A and B, is not needed there, since every product is distinct.
* The vector configuration (`vsetvl`) is the choice of vl; register pressure and spills of the
  compiler are not modelled, so `Traffic` is about the source's intrinsics.
* `_write`'s caller is newlib with something of its own in each register. The constant system call stubs keep no state.
* `SemiStart` follows the stack's content only where it overwrites .data or .bss; the stack pointer a trap finds in main is inside the stack.
  Of the message's text one word stands for all, and the registers the handler saves are not told apart from junk.
* `Roofline` executes in program order: no speculative accesses, no instruction fetches. Each call of the kernel uses the same lines of
  the stack, which fits the measured warm call (one line); how many there are is left open. For the shape of the plot the compulsory lines are 104,
  and `doc/gemm_analysis.md:400-416` reports 114 to 124, so at least 10 lines are the stack's and the measurement's; `PlottedTraffic` bounds
  the traffic by their number, it does not predict it.
* In the sweep and the harness, wording and layout of what is printed are left out, counters are nonzero numbers, and a tag's m5out
  directory is a name.
* `Cores` has of gem5 what the repository's comments say of it: no data cache, no branch predictor (any branch of the O3 core may be
  mispredicted), no structural limits but units and width. Ticks are ten to a cycle.
* Only a branch goes wrong in `Cores`, so `SquashesKeyed` says nothing of the squashed runs that follow a `vsetvli`, about half of those
  in the cold traces of `doc/perf_analysis_O3CPU.md:131-157`.
* `Pipeview` leaves out averages, the grouping by instruction class and the top-ten tables.
* The diagram modules keep coordinates, shading and the indices a text names; titles, legends, colours and the SVG syntax are left out.


## 7. Not modelled, and plan

Not modelled, with the reason:

* `main` and `report_correctness` of the default build: their hazards, NaN and stale C, are values the symbolic chains do not have.
* The printed operation counts of the micro-benchmarks, and the rounding of fp16 accumulators: arithmetic without control.
* `compare_shapes_fp16.py`: `run_one` is the sweep's, and its two points cannot both be built.
* `gen_roofline_svg.py` and the styling of all plots: constants and layout.
* The rest of `start_uart.S`: no rule of the Makefile builds it.
* The shared `build_flags.tmp` under `make -j`, and two scripts at the same time on one tree: each script assumes the tree to itself.

What would come next, in this order; a module marked (abs) is an abstract specification.

1. `GemmMain`: warm-up, the three calls, C_ref, what `roofline_main` does after its dumps, the comparison with NaN and stale C; composes the
   kernels through `GemmContract` (abs).
2. `SweepResults` (abs): a table of measurements; `Sweep` and `Harness` shown to implement it.
3. The rest of `start_uart.S`: boot, `_write` and `_sbrk`, sharing the invariants of `SemiStart`.

One run per question: a violation run is merged or retired where a later module asks the same question better.
