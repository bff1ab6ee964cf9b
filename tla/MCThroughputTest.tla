--------------------------- MODULE MCThroughputTest ---------------------------
EXTENDS ThroughputTest

CONSTANTS s1, s2

TwoSubscribers == {s1, s2}

\* One test of one sample, and then, with the next payload size, two tests.
ThreeTests == <<<<1>>, <<1, 2>>>>
OneTest == <<<<1>>>>
=============================================================================
