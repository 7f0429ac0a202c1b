SPECIFICATION CoreSpec
CONSTANT RUNS <- MCRuns
CONSTANT SYMBOLS <- MCSymbols
CONSTANT ICACHE_LINE = 4
CONSTANT MISS = 5
CONSTANT WRONG = 2
CONSTANT WRONGPCS = {2, 4}
CONSTANT TICKS_PER_CYCLE = 10
INVARIANTS Throughput DualIssue ChargedToHead FrontendStarved SquashesKeyed GapsExplained CallsSeparated
\* The program ends.
CHECK_DEADLOCK FALSE
