SPECIFICATION Spec
CONSTANTS
    N = 2
    MaxWrites = 2
INVARIANTS
    OneResponse
