SPECIFICATION Spec
CONSTANT SETS = 2
CONSTANT WAYS = 4
CONSTANT FLOPS = 32768
CONSTANT Places <- MCPlaces
INVARIANTS ColdReads EvictWrites WarmHits PlottedTraffic
\* The program ends.
CHECK_DEADLOCK FALSE
