SPECIFICATION Spec
CONSTANTS
    Requests <- FourRequests
    Sound <- SoundRequests
    Nop = "nop"
    SequenceModulus = 3
INVARIANTS EachInItsBank ResponsesAreWellFormed AnswersAreOwn
PROPERTIES FailuresAreContained
