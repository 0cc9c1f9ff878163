---------------------------- MODULE MCLoopProgram ----------------------------
EXTENDS ArrayProgram

Bounded(low, high, s) == Literal("bounded", low, high, s, TRUE)

\* Both signs of the stride, an end the stride does not meet, an empty range,
\* a single index, no stride, one open end.
MCLiterals ==
  { Literal("bounded", 1, 4, 1, FALSE), Literal("bounded", 3, 2, 1, FALSE),
    Bounded(-2, 4, 2), Bounded(1, 6, -2), Bounded(1, 4, -1), Bounded(0, 0, -3),
    Literal("boundedLow", 1, 0, 1, TRUE), Literal("boundedHigh", 0, 3, -1, TRUE) }

MCPartners ==
  { <<>>, <<Bounded(1, 4, -2)>>,
    <<Literal("boundedLow", -1, 0, 2, TRUE)>>,
    <<Literal("bounded", 0, 2, 1, FALSE), Bounded(1, 4, -2)>> }

\* Negative numbers have no place in a .cfg.
MCMinValue == -100
MCAmounts == {-3}
MCCounts == {-2, 0, 3}
=============================================================================
