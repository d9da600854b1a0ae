SPECIFICATION Spec
CONSTANT MaxYields = 1
CONSTANT Mortal = {}
PROPERTY CloseResolves
CHECK_DEADLOCK FALSE
