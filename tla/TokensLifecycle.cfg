SPECIFICATION Spec
CONSTANTS
  t1 = t1
  t2 = t2
  r1 = r1
  r2 = r2
  w1 = w1
  w2 = w2
  Callers <- MCCallers
  Runtimes <- MCRuntimes
  Windows <- MCWindows
  MaxCount = 1
  MaxWalks = 3
  IdSpace = 4
  LruCap = 1
  MaxOverdraws = 2
SYMMETRY MCSymmetry
CHECK_DEADLOCK FALSE
INVARIANTS
  TokensTypeOK
  TokenNamesItsSnapshot
  OnlyExpandsOverdraw
  ShutdownForgets
