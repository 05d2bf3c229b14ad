SPECIFICATION Spec
CONSTANTS
    Feeds <- MCFeeds
    Answers <- MCAnswers
CHECK_DEADLOCK FALSE
INVARIANT EventsComplete
