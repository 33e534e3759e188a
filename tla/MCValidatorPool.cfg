\* Two validators and a queue of one: the second map is rejected.
CONSTANTS
    Validators = {v1, v2}
    Addresses = {a1, a2, a3}
    Types = {p, q}
    Capacity = 1
    MaxDepth = 3
SPECIFICATION Spec
SYMMETRY Symmetry
CHECK_DEADLOCK FALSE
INVARIANTS
    TypeOK
    SkipsOnlyChecked
    OneTypePerAddress
    FinishNeverFails
PROPERTY
    ImplementsValidation
