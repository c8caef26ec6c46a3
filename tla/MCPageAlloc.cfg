CONSTANTS
    CPUs = {0, 1}
    Allocators = {0}
    NumPages = 5
    Orders = {0, 1, 2}
SPECIFICATION Spec
INVARIANTS BlocksDisjoint NoPageLost
