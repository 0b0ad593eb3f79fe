SPECIFICATION Spec
CONSTANT Programs <- MCPrograms
INVARIANT VirtualCalleesExact
CHECK_DEADLOCK FALSE
