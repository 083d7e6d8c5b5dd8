SPECIFICATION Spec
CONSTANTS
    Passphrases = {p1, p2}
    Blank = Blank
    NoKey = NoKey
    Names = {format, dim}
    Models = {m1, m2, wide}
    Fitting = {m1, m2}
    Datum = Datum
    MaxDeks = 2
SYMMETRY Symmetry
INVARIANTS
    AlwaysOpens
    ContainerWhole
