--------------------------- MODULE MCDualModeTimer ---------------------------
EXTENDS DualModeTimer

MCDurations == {0, 1, 2}
=============================================================================
