----------------------------- MODULE MCToolBatch -----------------------------
\* Three calls in parallel over a crash, two whose tools write rows with two
\* aborts and a crash, and three in sequence with both.
EXTENDS ToolBatch

Shape(n, par, w, a, k) ==
  [calls |-> n, parallel |-> par, writes |-> w, aborts |-> a, crashes |-> k]
MCBatches == {Shape(3, TRUE, FALSE, 0, 1), Shape(2, TRUE, TRUE, 2, 1),
              Shape(3, FALSE, FALSE, 1, 1)}
=============================================================================
