SPECIFICATION Spec
CONSTANTS
    Agents = {a1, a2}
    Ids = {i1, i2}
    Times = {t1}
    Lengths = {0, 2}
    MaxVec = 2
    GroupSize = 2
    MaxItems = 2
    Faults = {"rejected"}
    Absent = Absent
    Never = Never
    Corrupt = Corrupt
    Nobody = Nobody
SYMMETRY Symmetry
INVARIANTS
    LinksAgree
    AllocatorFresh
    SidecarsAgree
    StatisticsAgree
