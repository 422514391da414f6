SPECIFICATION Spec
CONSTANTS
  Procs = {p1, p2}
  Temps <- MCTemps
  Budgets <- MCBudgets
SYMMETRY Symmetry
INVARIANTS TypeOK ShownExact AskedIsMeasured ExitsForCause
CHECK_DEADLOCK FALSE
