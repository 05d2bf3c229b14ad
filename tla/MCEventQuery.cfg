SPECIFICATION Spec
CONSTANTS
    Feeds <- MCFeeds
    Answers <- MCAnswers
CHECK_DEADLOCK FALSE
INVARIANTS
    CompleteUnlessDropped
    FailureHasCause
PROPERTY EndsWithStream
