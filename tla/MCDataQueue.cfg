CONSTANTS
    Size = 4
    Lens = {1, 2, 3, 4, 5}
    MaxBytes = 10
SPECIFICATION Spec
CHECK_DEADLOCK FALSE
INVARIANTS
    TypeOK
    CopiesDisjoint

    
