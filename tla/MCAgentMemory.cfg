\* Two tasks share two memories: recalls, invalidations, removals, adaptive
\* forgetting and the collection of the expired.
SPECIFICATION Spec
CONSTANTS
    Tasks = {t1, t2}
    NumIds = 2
    Importances = {0, 1}
    Capacities = {1}
    PageSize = 1
    MaxTime = 1
    Absent = Absent
    Forever = Forever
SYMMETRY Symmetry
INVARIANTS
    InvalidatedIsGone
    BestSurvive
    CapacityReached
    CollectsExpired
    RemovalsAnnounced
PROPERTIES
    ValidityOnlyCloses
