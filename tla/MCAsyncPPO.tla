----------------------------- MODULE MCAsyncPPO -----------------------------
EXTENDS AsyncPPO, TLC

SessionSymmetry == Permutations(Session)
=============================================================================
