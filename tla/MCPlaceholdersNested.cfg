SPECIFICATION Spec
CONSTANTS
    Answers <- NestedAnswers
INVARIANTS
    NestedNotResolved
