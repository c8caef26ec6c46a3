CONSTANTS
    CPUs = {0, 1}
    Allocators = {0, 1}
    NumPages = 2
    Orders = {0}
SPECIFICATION Spec
INVARIANT AssertionHolds
