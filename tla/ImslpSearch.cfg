SPECIFICATION FairSpec
CONSTANTS
    Queries = {q1, q2}
    Short = Short
    Typed = Typed
    None = None
    MaxInputs = 7
    MaxThrottled = 2
INVARIANTS ResultsAnswerQuery FilledTitleIsTheLinkedWorks OneQuietRetry
PROPERTY SearchSettles
CHECK_DEADLOCK FALSE
