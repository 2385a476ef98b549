SPECIFICATION Spec
CONSTANT MaxClasses = 4
INVARIANT LookupFollowsMRO
CHECK_DEADLOCK FALSE
