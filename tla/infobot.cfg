CONSTANTS
  Names = {roses, violets, fish}
  Values = {red, blue}
  Absent = Absent  Missing = Missing  Unset = Unset
SPECIFICATION Spec
INVARIANTS Durable Remembered InStep NothingToLose
SYMMETRY Symmetry
