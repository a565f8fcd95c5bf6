SPECIFICATION Spec
CONSTANT Depth = 33
CHECK_DEADLOCK FALSE
INVARIANTS AllRegistersSurvive
