SPECIFICATION Spec
CONSTANT Depth = 33
CHECK_DEADLOCK FALSE
INVARIANTS CallIsTransparent CallerFrameIntact
