----------------------------- MODULE MCNumbers -----------------------------
EXTENDS Numbers

\* Both ends of the tagged range, neighbours, the units, and zero.
MCSeeds == {-64, -63, -6, -1, 0, 1, 3, 4, 63}
=============================================================================
