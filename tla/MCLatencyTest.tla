---------------------------- MODULE MCLatencyTest ----------------------------
EXTENDS LatencyTest

CONSTANTS s1, s2

TwoSubscribers == {s1, s2}
=============================================================================
