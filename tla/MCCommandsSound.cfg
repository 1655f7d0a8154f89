\* Every function but those whose line may lack a newline or a blank and those
\* whose answer is not the class alone they wait for; timings may be asked for.
CONSTANTS
    Called <- Sound
    MaxMany = 2
SPECIFICATION Spec
INVARIANTS WordsApart AnswerExpected
PROPERTIES CallReturns
