CONSTANT MaxMon = 4
SPECIFICATION Spec
CHECK_DEADLOCK FALSE
INVARIANTS MenuStaysAtTop
PROPERTIES HangsAtValues
