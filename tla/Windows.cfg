SPECIFICATION Spec
CONSTANTS
  Terminal = {t1, t2}
  Windowless = {s1, s2}
  MaxLayer = 6
  MaxMsgs = 1
  MaxRuns <- MCMaxRuns
SYMMETRY Symmetry
INVARIANTS ActiveOnTop TerminalKnowsActive WindowsHaveOwners
CHECK_DEADLOCK FALSE
