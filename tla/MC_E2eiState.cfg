SPECIFICATION Spec
CONSTANT MaxMembers = 3
INVARIANT AgreesUnlessNoneValid AgreesWithUnitTests
