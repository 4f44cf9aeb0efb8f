---------------------------- MODULE MCTestChamber ----------------------------
EXTENDS TestChamber, TLC

\* One test with two questions, due in a second.
MCInfo ==
  [new |-> [grade |-> "Year 3 (NAPLAN Aligned)", deadline |-> 1, limit |-> 2,
            key |-> <<"right", "right">>, marks |-> <<2, 3>>]]

CONSTANTS t1, t2
MCYears == (t1 :> {"Year 4"}) @@ (t2 :> {})
\* The browser stored its seeds long ago: a seed is only reviewed.
MCHorizon == -2
MCGiven == (t1 :> {"right"}) @@ (t2 :> {})
=============================================================================
