CONSTANTS
    r1 = r1
    r2 = r2
    Nobody = Nobody
    Requests = {r1, r2}
    Invalid = {2}
    MaxEdits = 3
    EditsDuringStartup = FALSE
SPECIFICATION FairSpec
INVARIANT TypeOK CacheCoherent EvaluatesCurrentFile
PROPERTY RulesNeverRollBack RequestsFinish
CHECK_DEADLOCK FALSE
