CONSTANTS
    Word = 64
    Limits = {0, 1, 5, 8, 63}
    HeaderSizes = {1, 4, 5}
    Lengths = {0, 1, 3, 4, 8, 50}
    MaxBody = 9
    Unlisted = {}
SPECIFICATION HandlingFairSpec
INVARIANT HandlingTypeOK BodyWithinLimit NothingWithheld OversizedIsRejected
    AnsweredAsDocumented ScriptEndsWithRequest LoggedBeforeActedOn
PROPERTY HintsKept ImplementsRuleEngine ImplementsByteLimit EvaluationEnds
CHECK_DEADLOCK FALSE
