SPECIFICATION Spec
CONSTANTS
    Answers <- PlainAnswers
INVARIANTS
    TypeOK
    AnswerIgnoresOrder
    NothingLeftToResolve
    RefusedIffCircular
