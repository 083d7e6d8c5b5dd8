\* Two callers consolidate into the memories of an agent, while users, imports
\* and purges change them.
SPECIFICATION Spec
CONSTANTS
    Agents = {a}
    Callers = {p, q}
    NumIds = 3
    Memories <- Remembered
    LongTexts = {}
    Similar <- Alike
    Extractions <- Answers
    MAX_CONSOLIDATION_FACTS = 1
    MAX_CONSOLIDATION_ENTITIES = 1
    MAX_CONSOLIDATION_RELATIONS = 1
    Weights = {1, NonFinite}
    NonFinite = NonFinite
    Dumps <- Files
    FORMAT = "basemyai-export"
    VERSION = 1
    Terms <- Words
    MaxDegree = 1
    MAX_BATCH_OPS = 10
    MaxTime = 1
    Forever = Forever
SYMMETRY Symmetry
INVARIANTS
    FactsBounded
    ImportSettles
    BackupRestores
PROPERTIES
    PurgeOrder
