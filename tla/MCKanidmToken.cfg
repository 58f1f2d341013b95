SPECIFICATION TokenSpec
CONSTANTS
  Callers = {a, b, c}
  MaxQueries = 3
  MaxQueryFaults = 1
INVARIANTS KanidmInv QueryHeals ResetIsLastResort
SYMMETRY CallerSymmetry
CHECK_DEADLOCK FALSE
