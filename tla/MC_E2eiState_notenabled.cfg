SPECIFICATION Spec
CONSTANT MaxMembers = 3
INVARIANT NotEnabledOnlyIfAllBasic
