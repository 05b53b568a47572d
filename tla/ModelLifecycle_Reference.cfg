SPECIFICATION Spec
CONSTANT MaxTrainings = 3
CHECK_DEADLOCK FALSE
INVARIANT ReferenceIsOfServed
