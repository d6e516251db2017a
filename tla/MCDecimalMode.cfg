SPECIFICATION Spec
CONSTANTS
    Clients = {a, b}
    Bare = bare
    Contexts = {x1, x2, x3}
    None = None
    MaxDepth = 2
SYMMETRY Symmetry
INVARIANTS
    MoneyAsAsked
    ScopesRestored
    FieldsInPlace
