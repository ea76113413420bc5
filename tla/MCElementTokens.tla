--------------------------- MODULE MCElementTokens ---------------------------
(* ElementTokens for TLC: model values for callers, runtimes and windows.  *)
EXTENDS ElementTokens, TLC

CONSTANTS t1, t2, r1, r2, w1, w2

MCCallers == {t1, t2}
MCRuntimes == {r1, r2}
MCWindows == {w1, w2}

MCSymmetry == Permutations(MCCallers) \cup Permutations(MCRuntimes)
                \cup Permutations(MCWindows)
==============================================================================
