SPECIFICATION Spec
INVARIANT
    DetachFailsInBody
CHECK_DEADLOCK FALSE
