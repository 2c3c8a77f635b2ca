SPECIFICATION Spec
CONSTANTS
    MaxTurns = 2
    MaxBody = 6
    MaxChunk = 3
CHECK_DEADLOCK FALSE
INVARIANTS
    AnswerIsBody
    GenerationOwnsConversation
PROPERTIES
    AnswersAreKept
    ResentOnlyUnanswered
