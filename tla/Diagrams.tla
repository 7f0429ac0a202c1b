------------------------------- MODULE Diagrams -------------------------------
(***************************************************************************)
(* What the four diagram generators of src/script share: shaded grids,     *)
(* brackets, fans of curved arrows, and boxes joined by elbows.  Lengths   *)
(* are integers, PX to the pixel.  Colours, wording and the SVG syntax are *)
(* left out; of a text only what it names is kept.                         *)
(***************************************************************************)
EXTENDS Integers, FiniteSets

PX   == 80              \* the finest coordinate drawn is 3/80 of a pixel
CELL == 24 * PX

Within(x, lohi) == lohi[1] <= x /\ x < lohi[1] + lohi[2]

-----------------------------------------------------------------------------
(* Arrows                                                                  *)

Arrow(x1, y1, x2, y2) == [x1 |-> x1, y1 |-> y1, x2 |-> x2, y2 |-> y2]

\* fan_curve's control points: most of the climb within a short step from the
\* start, where the curve would otherwise skim along the labels.
Smaller(a, b) == IF a < b THEN a ELSE b
FanStep(a) == Smaller(40 * PX, ((a.x2 - a.x1) * 7) \div 20)
FanControls(a) ==
  <<a.x1, a.x1 + FanStep(a), a.x2 - FanStep(a), a.x2>>
FanClimb(a) ==
  <<a.y1, a.y1 + ((a.y2 - a.y1) * 3) \div 4, a.y2, a.y2>>

\* The curve at SAMPLES + 1 points.
SAMPLES == 12
Cubic(p, s) ==
  LET r == SAMPLES - s IN
    (r * r * r * p[1] + 3 * r * r * s * p[2] + 3 * r * s * s * p[3] + s * s * s * p[4])
      \div (SAMPLES * SAMPLES * SAMPLES)
Curve(a) == [s \in 0 .. SAMPLES |-> <<Cubic(FanControls(a), s), Cubic(FanClimb(a), s)>>]

\* On which side of the line from p to q a point lies.
Side(p, q, z) ==
  LET cross == (q[1] - p[1]) * (z[2] - p[2]) - (q[2] - p[2]) * (z[1] - p[1])
  IN IF cross > 0 THEN 1 ELSE IF cross < 0 THEN -1 ELSE 0

SegmentsCross(p, q, u, v) ==
  Side(p, q, u) * Side(p, q, v) < 0 /\ Side(u, v, p) * Side(u, v, q) < 0

CurvesCross(c1, c2) ==
  \E s, t \in 0 .. SAMPLES - 1 : SegmentsCross(c1[s], c1[s + 1], c2[t], c2[t + 1])

\* A fan: none of its curves crosses another.
Uncrossed(arrows) ==
  \A n, m \in DOMAIN arrows : n < m => ~CurvesCross(Curve(arrows[n]), Curve(arrows[m]))

-----------------------------------------------------------------------------
(* Boxes                                                                   *)

\* node(): a box centred vertically at y.
Node(x, y, w, h) == [x |-> x * PX, top |-> y - (h * PX) \div 2, w |-> w * PX, h |-> h * PX]

Left(box)  == <<box.x, box.top + box.h \div 2>>
Right(box) == <<box.x + box.w, box.top + box.h \div 2>>

Apart(a, b) ==
  \/ a.x + a.w < b.x \/ b.x + b.w < a.x
  \/ a.top + a.h < b.top \/ b.top + b.h < a.top

Inside(a, box) ==
  /\ box.x <= a.x /\ a.x + a.w <= box.x + box.w
  /\ box.top <= a.top /\ a.top + a.h <= box.top + box.h

Canvas(w, h) == [x |-> 0, top |-> 0, w |-> w * PX, h |-> h * PX]

Point(z) == [x |-> z[1], top |-> z[2], w |-> 0, h |-> 0]

\* boxes maps names to boxes, lines is a set of <<from, to>>, two points.
Joined(boxes, lines, u, v) == <<Right(boxes[u]), Left(boxes[v])>> \in lines

\* Every line leaves a box on its right edge and enters one on its left edge.
NoLooseEnds(boxes, lines) ==
  \A line \in lines : \E u, v \in DOMAIN boxes :
    line = <<Right(boxes[u]), Left(boxes[v])>>

Legible(boxes, w, h) ==
  /\ \A u, v \in DOMAIN boxes : u # v => Apart(boxes[u], boxes[v])
  /\ \A u \in DOMAIN boxes : Inside(boxes[u], Canvas(w, h))
=============================================================================
