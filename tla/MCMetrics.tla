----------------------------- MODULE MCMetrics -----------------------------
EXTENDS Metrics, TLC

CallSymmetry == Permutations(Calls)
=============================================================================
