----------------------------- MODULE MCRoofline -----------------------------
\* A cache of two sets and four ways, and three ways to place the data: the
\* eviction buffer last, first or in the middle of .bss, the small variables on
\* lines of their own or shared, a stack of two lines that leaves hardly any
\* room in the sets.  In the first, the zeroing of .bss leaves the set of C full
\* of dirty lines of the buffer.
EXTENDS Hroofline

Place(B, C, evict, counters, results, sink, stack) ==
  [A |-> {0}, B |-> {B}, C |-> C, evict |-> evict, counters |-> counters,
   results |-> results, sink |-> sink, stack |-> stack]

MCPlaces == {Place(2, {3, 5}, 8, 4, 7, 7, {26, 27}),
             Place(1, {18, 19, 21}, 2, 20, 20, 20, {22, 23}),
             Place(1, {3, 4}, 5, 2, 2, 22, {25, 27})}
=============================================================================
