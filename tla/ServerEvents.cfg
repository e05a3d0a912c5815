SPECIFICATION Spec
CONSTANTS
  DocId = {d1, d2}
  Field = {f}
  Value = {v1, v2}
  MaxEvent = 3
  MaxChanges = 2
SYMMETRY Symmetry
INVARIANTS TypeOK SnapshotsFaithful ChangesComplete SessionFaithful
CHECK_DEADLOCK FALSE
