\* Three attempts, two keys, a reader, a reconciliation and a damaged file.
SPECIFICATION Spec
CONSTANTS
  Writers = {w1, w2, w3}
  Keys = {k1, k2}
  Readers = {p1}
  MaxBytes = 2
  Nothing = Nothing
  Trash = Trash
SYMMETRY Interchangeable
CHECK_DEADLOCK FALSE
INVARIANTS ServedAsVerified ReportIsRight NothingLost
PROPERTIES ImplementsWriteOnce
