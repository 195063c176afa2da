CONSTANTS
  Messenger = TRUE
  MetaLoops = {m1}
  WALoops = {w1, w2}
  Callers = {c1}
SPECIFICATION SendSpec
SYMMETRY Symmetry
INVARIANTS NotBetterThanWorst
