\* Two questions, a repeat and a fault.  The run may be over: no deadlock check.
CONSTANTS
    Questions = {q1, q2}
    NoQuestion = NoQuestion
    MaxRepeats = 1
    MaxUpsets = 1
SPECIFICATION AskSpec
PROPERTIES
    RowsSayWhatTheBoxHeard
    AcceptedAnswersAreSent
    AcceptedAnswersSettle
CHECK_DEADLOCK FALSE
