SPECIFICATION Spec
CONSTANTS
  Nobody = Nobody
  Procs = {p1, p2}
  Names = {10, 20, 30, 40}
  Len <- Lengths
  Prefixes <- Categories
  Objects <- Both
  SIZE = 3
  NAMES_STORAGE_SIZE = 6
SYMMETRY Symmetry
INVARIANTS IdsAgree IndexSound
PROPERTIES InvalidMeansAbsent NamesForGood
