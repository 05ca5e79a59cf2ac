SPECIFICATION Spec
CONSTANT Versions <- MCVersions
INVARIANT LessIsOlder
CHECK_DEADLOCK FALSE
