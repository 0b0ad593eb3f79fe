SPECIFICATION Spec
CONSTANT Programs <- DirectPrograms
INVARIANT UncreatedReported
CHECK_DEADLOCK FALSE
