SPECIFICATION Spec
CONSTANT MaxTrainings = 3
CHECK_DEADLOCK FALSE
INVARIANT TypeOK
INVARIANT ServedWasPromoted
INVARIANT RollbackServes
INVARIANT PairedWhenFresh
PROPERTY TrainingIsInert
