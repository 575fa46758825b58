\* Three runs of up to two records, two edits by hand.
CONSTANTS
  Runs = {r1, r2, r3}
  Bodies = {resolved, present}
  MaxBatch = 2
  MaxEdits = 2
SPECIFICATION Spec
SYMMETRY Interchangeable
INVARIANTS OwnLogVerifies EditsShow QuietLogIsComplete
