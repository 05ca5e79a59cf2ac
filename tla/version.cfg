SPECIFICATION Spec
CONSTANT Versions <- MCVersions
INVARIANTS ReturnsSimpleCompare OlderIsLess EqIsSameVersion AnswersAgree
CHECK_DEADLOCK FALSE
