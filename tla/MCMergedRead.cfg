SPECIFICATION FairSpec
CONSTANTS
    global = global
    dev = dev
    prod = prod
    k = k
    v1 = v1
    v2 = v2
    Absent = Absent
    Invalid = Invalid
    Profile <- AllProfiles
    Global = global
    Key <- OneKey
    Value <- Values
    MaxActive = 2
INVARIANTS
    TypeOK
    AnswerExplained
    UntouchedIsExact
PROPERTIES
    AnsweredEventually
