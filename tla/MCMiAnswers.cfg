SPECIFICATION Spec
INVARIANTS
    ReadAsSaid
    AnswersParse
    NotificationsHarmless
PROPERTY NothingLingers
